--------------------------- MODULE MonotonicClock ---------------------------
(***************************************************************************)
(* What Hal_GetElapsedTimeInNs promises, without saying how: there is one  *)
(* clock that never runs backwards, and a call answers with a value the    *)
(* clock showed at some moment between the call and its return.            *)
(***************************************************************************)
EXTENDS Naturals

CONSTANT Readers

VARIABLES now,      \* the clock
          reading,  \* the readers that are inside a call
          asked,    \* what the clock showed when each reader made its last call
          answer    \* what each reader got from its last completed call

vars == <<now, reading, asked, answer>>

Init ==
    /\ now = 0
    /\ reading = {}
    /\ asked = [r \in Readers |-> 0]
    /\ answer = [r \in Readers |-> 0]

Advance ==
    /\ now' \in Nat
    /\ now' > now
    /\ UNCHANGED <<reading, asked, answer>>

Call(r) ==
    /\ r \notin reading
    /\ reading' = reading \union {r}
    /\ asked' = [asked EXCEPT ![r] = now]
    /\ UNCHANGED <<now, answer>>

Return(r) ==
    /\ r \in reading
    /\ reading' = reading \ {r}
    /\ \E v \in asked[r]..now : answer' = [answer EXCEPT ![r] = v]
    /\ UNCHANGED <<now, asked>>

Next ==
    \/ Advance
    \/ \E r \in Readers : Call(r) \/ Return(r)

Spec == Init /\ [][Next]_vars
=============================================================================
