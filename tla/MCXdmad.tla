------------------------------- MODULE MCXdmad -------------------------------
(* The transfers that the users of Xdmad configure in the model-checked      *)
(* instances: how many blocks, a linked list or not, the flags unmasked.      *)
EXTENDS Xdmad, TLC

\* One block, its end unmasked.
SingleBlock == {[blocks |-> 1, list |-> FALSE, mask |-> {"BIS"}]}

\* Two blocks in a linked list, only the end of the list unmasked.
ListEnd == {[blocks |-> 2, list |-> TRUE, mask |-> {"LIS"}]}

\* Two blocks in a linked list, the end of each block unmasked.
EachBlock == {[blocks |-> 2, list |-> TRUE, mask |-> {"BIS"}]}

AnyTransfer == SingleBlock \union ListEnd \union EachBlock

\* Of tasks that preempt each other's polling, single blocks only.
AllTransfers ==
    [alone \in BOOLEAN |-> IF alone THEN AnyTransfer ELSE SingleBlock]
EndTransfers == [alone \in BOOLEAN |-> SingleBlock \union ListEnd]

\* Nothing tells the users apart.
AnyUser == Permutations(Users)
=============================================================================
