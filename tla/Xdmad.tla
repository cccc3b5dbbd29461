-------------------------------- MODULE Xdmad --------------------------------
(***************************************************************************)
(* The DMA driver of Xdmac/xdmad.c: tasks allocate channels of the         *)
(* controller, program and start transfers, ask whether they are done,     *)
(* stop them and free the channels, while the controller transfers blocks  *)
(* and raises flags and XDMAD_Handler, in the interrupt or in a task that  *)
(* polls, turns the flags into channel states and callbacks.               *)
(*                                                                         *)
(* Tasks interleave in any order, also within XDMAD_Handler if they poll;  *)
(* no task runs while the interrupt is handled, but the controller does.   *)
(* A task uses only the channel it has allocated, in the order that the    *)
(* driver's usage notes prescribe.                                         *)
(***************************************************************************)
EXTENDS Naturals, FiniteSetsExt

CONSTANTS
    Users,             \* the tasks; a user also stands for its callback
    XDMACCHID_NUMBER,  \* the size of the driver's table of channels
    ChannelCounts,     \* how many channels the controller may have
    Modes,             \* the arguments of XDMAD_Initialize: polling or not
    Transfers,         \* what users configure, if XDMAD_Handler handles
                       \* alone or not: blocks, list and mask
    WaitsForStop,      \* does a user wait for a channel it has stopped?
    ISR, NoUser, NULL

ASSUME ChannelsAssumption ==
    /\ XDMACCHID_NUMBER \in Nat \ {0}
    /\ ChannelCounts # {} /\ ChannelCounts \subseteq 1..XDMACCHID_NUMBER
ASSUME ModesAssumption ==
    Modes # {} /\ Modes \subseteq BOOLEAN /\ WaitsForStop \in BOOLEAN

Channels == 0..(XDMACCHID_NUMBER - 1)
\* End of block, end of linked list, end of disable.
Flags == {"BIS", "LIS", "DIS"}

ASSUME TransfersAssumption ==
    \A alone \in BOOLEAN :
        Transfers[alone] \subseteq
            [blocks : Nat \ {0}, list : BOOLEAN, mask : SUBSET Flags]
ASSUME MarkersAssumption == ISR \notin Users /\ {NoUser, NULL} \cap Users = {}

VARIABLES
    numChannels, pollingMode,
    tasks,              \* the users there are: one or several
    state, fCallback,   \* of the channels of the driver
    xdmad_lock,
    running,            \* GS: the channels enabled in the controller
    draining,           \* those still enabled that are asked to stop
    transfer,           \* the blocks a channel has left, and is it a list?
    CIS, CIM,           \* flags raised and flags unmasked of each channel
    GIM,                \* the channels that may interrupt
    user,               \* where each user is, with which channel, and has it
                        \* provided a callback for it?
    handler,            \* the calls of XDMAD_Handler under way
    stray               \* history: a callback was called for a channel that
                        \* nobody held, or for another than its holder's

setup == <<numChannels, pollingMode, tasks>>
driver == <<setup, state, fCallback>>
controller == <<running, draining, transfer, CIS, CIM, GIM>>
vars == <<driver, xdmad_lock, controller, user, handler, stray>>

States == {"FREE", "ALLOCATED", "START", "DONE", "HALTED"}
Steps == {"out", "scan", "claim", "allocated", "provided", "prepared",
          "configured", "enable", "unmask", "started", "disable", "silence", "over"}
\* A call of XDMAD_Handler: the pending channels still to be looked at, those of
\* them that it has found enabled, and the flags of the first.
NotCalled == [pc |-> "idle", gis |-> {}, gs |-> {}, seen |-> {}]
HandlerSteps == {"idle", "status", "channels", "channel", "mask", "list", "done",
                 "callback"}

TypeOK ==
    /\ numChannels \in ChannelCounts
    /\ pollingMode \in Modes
    /\ tasks \subseteq Users
    /\ state \in [Channels -> States]
    /\ fCallback \in [Channels -> Users \union {NULL}]
    /\ xdmad_lock \in Users \union {NoUser}
    /\ running \subseteq Channels /\ draining \subseteq running
    /\ transfer \in [Channels -> [left : Nat, list : BOOLEAN]]
    /\ CIS \in [Channels -> SUBSET Flags]
    /\ CIM \in [Channels -> SUBSET Flags]
    /\ GIM \subseteq Channels
    /\ user \in [Users -> [step : Steps, channel : 0..(numChannels - 1),
                           provides : BOOLEAN]]
    /\ handler \in [Users \union {ISR} ->
                       [pc : HandlerSteps, gis : SUBSET Channels,
                        gs : SUBSET Channels, seen : SUBSET Flags]]
    /\ stray \in BOOLEAN

Outside == [step |-> "out", channel |-> 0, provides |-> FALSE]

\* XDMAD_Initialize has been called.
Init ==
    /\ numChannels \in ChannelCounts
    /\ pollingMode \in Modes
    /\ tasks \in SUBSET Users \ {{}}
    /\ state = [c \in Channels |-> "FREE"]
    /\ fCallback = [c \in Channels |-> NULL]
    /\ xdmad_lock = NoUser
    /\ running = {} /\ draining = {}
    /\ transfer = [c \in Channels |-> [left |-> 0, list |-> FALSE]]
    /\ CIS = [c \in Channels |-> {}]
    /\ CIM = [c \in Channels |-> {}]
    /\ GIM = {}
    /\ user = [u \in Users |-> Outside]
    /\ handler = [e \in Users \union {ISR} |-> NotCalled]
    /\ stray = FALSE

-----------------------------------------------------------------------------
(* The controller.                                                         *)
GIS == {c \in Channels : CIS[c] \cap CIM[c] # {}}

EndBlock(c) ==
    /\ c \in running \ draining
    /\ transfer[c].left > 0
    /\ transfer' = [transfer EXCEPT ![c].left = @ - 1]
    /\ \/ /\ transfer[c].left > 1
          /\ CIS' = [CIS EXCEPT ![c] = @ \union {"BIS"}]
          /\ UNCHANGED running
       \/ /\ transfer[c].left = 1
          /\ CIS' = [CIS EXCEPT ![c] = @ \union
                        IF transfer[c].list THEN {"BIS", "LIS"} ELSE {"BIS"}]
          /\ running' = running \ {c}
    /\ UNCHANGED <<driver, xdmad_lock, draining, CIM, GIM, user, handler, stray>>

\* A channel asked to stop finishes its pending transaction first.
EndDisable(c) ==
    /\ c \in draining
    /\ draining' = draining \ {c}
    /\ running' = running \ {c}
    /\ CIS' = [CIS EXCEPT ![c] = @ \union {"DIS"}]
    /\ UNCHANGED <<driver, xdmad_lock, transfer, CIM, GIM, user, handler, stray>>

\* Nobody preempts XDMAD_Handler: it runs in the interrupt or in the only task.
HandledAlone == pollingMode => \A u, v \in tasks : u = v

RequestDisable(c) == draining' = IF c \in running THEN draining \union {c}
                                 ELSE draining

-----------------------------------------------------------------------------
(* XDMAD_Handler.                                                          *)
CallHandler(e) ==
    /\ handler[e].pc = "idle"
    /\ handler' = IF GIS = {} THEN handler
                  ELSE [handler EXCEPT ![e].pc = "status", ![e].gis = GIS]

\* The interrupt.
Interrupt ==
    /\ GIS \cap GIM # {}    \* empty in polling mode
    /\ CallHandler(ISR)
    /\ UNCHANGED <<driver, xdmad_lock, controller, user, stray>>

\* While the interrupt is handled its handler runs alone; other calls are those
\* of tasks that poll.
MayHandle(e) == e # ISR => handler[ISR].pc = "idle"

Handling(e, pc) == MayHandle(e) /\ handler[e].pc = pc
HandlerOnly == <<driver, xdmad_lock, controller, user, stray>>

ReadGlobalStatus(e) ==
    /\ Handling(e, "status")
    /\ handler' = [handler EXCEPT ![e].pc = "channels",
                                  ![e].gs = running \cap handler[e].gis]
    /\ UNCHANGED HandlerOnly

\* The loop over the channels passes over those that are not pending.
Channel(e) == Min(handler[e].gis)

Following(e) ==
    LET rest == handler[e].gis \ {Channel(e)}
    IN  [handler EXCEPT ![e] = IF rest = {} THEN NotCalled
                               ELSE [pc |-> "channels", gis |-> rest,
                                     gs |-> @.gs \cap rest, seen |-> {}]]

Moved(e, pc, seen) == [handler EXCEPT ![e].pc = pc, ![e].seen = seen]

\* XDMAD_HandleChannel: at a free channel the loop ends.
CheckFree(e) ==
    /\ Handling(e, "channels")
    /\ handler' =
          IF state[Channel(e)] = "FREE" THEN [handler EXCEPT ![e] = NotCalled]
          ELSE Moved(e, "channel", {})
    /\ UNCHANGED HandlerOnly

ClearStatus(c) ==
    /\ CIS' = [CIS EXCEPT ![c] = {}]
    /\ UNCHANGED <<driver, xdmad_lock, running, draining, transfer, CIM, GIM,
                   user, stray>>

\* A mutated form: whether the channel was still enabled is not looked at.
ReadStatus_EnabledIgnored(e) ==
    /\ Handling(e, "channel")
    /\ handler' = Moved(e, "mask", CIS[Channel(e)])
    /\ ClearStatus(Channel(e))

\* Reading the status of a channel clears it.  The end of a block in a channel
\* that was still enabled is only reported.
ReadStatus(e) ==
    LET c == Channel(e) IN
    /\ Handling(e, "channel")
    /\ handler' =
          IF c \notin handler[e].gs THEN Moved(e, "mask", CIS[c])
          ELSE IF "BIS" \in CIS[c] THEN Moved(e, "callback", {})
          ELSE Following(e)
    /\ ClearStatus(c)

\* XDMAD_HandleChannelInterruptStatus goes by the flags that are ends.
Decide(e, ends) ==
    IF ends = {} THEN Following(e)
    ELSE Moved(e, "done", ends)

\* A mutated form: the end of a list is not looked at.
ReadMask_ListIgnored(e) ==
    LET masked == handler[e].seen \cap CIM[Channel(e)] IN
    /\ Handling(e, "mask")
    /\ handler' =
          IF "BIS" \in masked THEN Moved(e, "list", masked)
          ELSE Decide(e, masked \ {"LIS"})
    /\ UNCHANGED HandlerOnly

ReadMask(e) ==
    LET masked == handler[e].seen \cap CIM[Channel(e)] IN
    /\ Handling(e, "mask")
    /\ handler' =
          IF "BIS" \in masked THEN Moved(e, "list", masked)
          ELSE Decide(e, masked)
    /\ UNCHANGED HandlerOnly

\* The end of a block is that of the transfer unless the end of the list is
\* unmasked.
ReadListMask(e) ==
    /\ Handling(e, "list")
    /\ handler' = Decide(e, IF "LIS" \in CIM[Channel(e)] THEN handler[e].seen \ {"BIS"}
                            ELSE handler[e].seen)
    /\ UNCHANGED HandlerOnly

\* One write of the state for each flag, then the callback.
MarkDone(e) ==
    /\ Handling(e, "done")
    /\ state' = [state EXCEPT ![Channel(e)] = "DONE"]
    /\ \E flag \in handler[e].seen :
          LET left == handler[e].seen \ {flag}
          IN  handler' = Moved(e, IF left = {} THEN "callback" ELSE "done", left)
    /\ UNCHANGED <<setup, fCallback, xdmad_lock, controller, user, stray>>

Holds(u, c) ==
    user[u].channel = c /\ user[u].step \notin {"out", "scan", "claim"}

\* A holder that has provided no callback says nothing of the one in place.
Expects(c, callback) ==
    \E u \in Users : Holds(u, c) /\ (user[u].provides => callback = u)

CallBack(e) ==
    LET c == Channel(e) IN
    /\ Handling(e, "callback")
    /\ stray' = (stray \/ (fCallback[c] # NULL /\ ~Expects(c, fCallback[c])))
    /\ handler' = Following(e)
    /\ UNCHANGED <<driver, xdmad_lock, controller, user>>

Handle(e) ==
    \/ ReadGlobalStatus(e)
    \/ CheckFree(e)
    \/ ReadStatus(e)
    \/ ReadMask(e)
    \/ ReadListMask(e)
    \/ MarkDone(e)
    \/ CallBack(e)

-----------------------------------------------------------------------------
(* The calls of a user.                                                    *)
At(u, step) ==
    /\ handler[ISR].pc = "idle" /\ handler[u].pc = "idle"
    /\ user[u].step = step
Goto(u, step) == user' = [user EXCEPT ![u].step = step]
Mine(u) == user[u].channel
\* Nothing in the driver waits for a channel that is asked to stop: a user may.
Stopped(u) == WaitsForStop => Mine(u) \notin draining

(* XDMAD_AllocateChannel: a search for a free channel under xdmad_lock.    *)

\* A mutated form: the search does not wait for the lock.
ObtainLock_NotWaited(u) ==
    /\ At(u, "out") /\ u \in tasks
    /\ xdmad_lock' = u
    /\ Goto(u, "scan")
    /\ UNCHANGED <<driver, controller, handler, stray>>

ObtainLock(u) ==
    /\ At(u, "out") /\ u \in tasks
    /\ xdmad_lock = NoUser
    /\ xdmad_lock' = u
    /\ Goto(u, "scan")
    /\ UNCHANGED <<driver, controller, handler, stray>>

Found(u, c) ==
    user' = [user EXCEPT ![u] = [step |-> "claim", channel |-> c,
                                 provides |-> FALSE]]

NoneFree(u) ==
    /\ Goto(u, "out")
    /\ xdmad_lock' = NoUser

\* A mutated form: the search looks at one entry too many.
FindFree_OneTooMany(u) ==
    /\ At(u, "scan")
    /\ \/ \E c \in Channels :
              /\ c <= numChannels
              /\ state[c] = "FREE" /\ \A b \in 0..(c - 1) : state[b] # "FREE"
              /\ Found(u, c)
              /\ UNCHANGED xdmad_lock
       \/ /\ \A c \in 0..(numChannels - 1) : state[c] # "FREE"
          /\ NoneFree(u)
    /\ UNCHANGED <<driver, controller, handler, stray>>

FindFree(u) ==
    /\ At(u, "scan")
    /\ \/ \E c \in Channels :
              /\ c < numChannels
              /\ state[c] = "FREE" /\ \A b \in 0..(c - 1) : state[b] # "FREE"
              /\ Found(u, c)
              /\ UNCHANGED xdmad_lock
       \/ /\ \A c \in 0..(numChannels - 1) : state[c] # "FREE"
          /\ NoneFree(u)
    /\ UNCHANGED <<driver, controller, handler, stray>>

Claim(u) ==
    /\ At(u, "claim")
    /\ state' = [state EXCEPT ![Mine(u)] = "ALLOCATED"]
    /\ xdmad_lock' = NoUser
    /\ Goto(u, "allocated")
    /\ UNCHANGED <<setup, fCallback, controller, handler, stray>>

Provide(u) ==
    user' = [user EXCEPT ![u].step = "provided", ![u].provides = TRUE]

\* A mutated form: a callback in place is kept.
XDMAD_SetCallback_Kept(u) ==
    /\ At(u, "allocated")
    /\ fCallback' = [fCallback EXCEPT ![Mine(u)] = IF @ = NULL THEN u ELSE @]
    /\ Provide(u)
    /\ UNCHANGED <<setup, state, xdmad_lock, controller, handler, stray>>

XDMAD_SetCallback(u) ==
    /\ At(u, "allocated")
    /\ state[Mine(u)] \notin {"FREE", "START"}
    /\ fCallback' = [fCallback EXCEPT ![Mine(u)] = u]
    /\ Provide(u)
    /\ UNCHANGED <<setup, state, xdmad_lock, controller, handler, stray>>

\* A user need not provide a callback before it goes on.
XDMAD_PrepareChannel(u) ==
    LET c == Mine(u) IN
    /\ \/ At(u, "allocated") \/ At(u, "provided")
       \/ At(u, "over") /\ Stopped(u)
    /\ state[c] \notin {"FREE", "START"}
    /\ CIS' = [CIS EXCEPT ![c] = {}]
    /\ GIM' = GIM \ {c}
    /\ CIM' = [CIM EXCEPT ![c] = {}]
    /\ RequestDisable(c)
    /\ Goto(u, "prepared")
    /\ UNCHANGED <<driver, xdmad_lock, running, transfer, handler, stray>>

XDMAD_ConfigureTransfer(u) ==
    LET c == Mine(u) IN
    /\ At(u, "prepared")
    /\ CIS' = [CIS EXCEPT ![c] = {}]
    /\ state[c] \notin {"FREE", "START"}
    /\ \E t \in Transfers[HandledAlone] :
          /\ transfer' = [transfer EXCEPT ![c] = [left |-> t.blocks, list |-> t.list]]
          /\ CIM' = [CIM EXCEPT ![c] = IF t.list THEN t.mask ELSE @ \union t.mask]
    /\ Goto(u, "configured")
    /\ UNCHANGED <<driver, xdmad_lock, running, draining, GIM, handler, stray>>

(* XDMAD_StartTransfer.                                                    *)
MarkStarted(u) ==
    /\ At(u, "configured")
    /\ state[Mine(u)] \notin {"FREE", "START"}
    /\ state' = [state EXCEPT ![Mine(u)] = "START"]
    /\ Goto(u, "enable")
    /\ UNCHANGED <<setup, fCallback, xdmad_lock, controller, handler, stray>>

\* A channel enabled before it has stopped goes on or stops nevertheless.
EnableChannel(u) ==
    /\ At(u, "enable")
    /\ running' = running \union {Mine(u)}
    /\ \/ draining' = draining \ {Mine(u)}
       \/ UNCHANGED draining
    /\ Goto(u, IF pollingMode THEN "started" ELSE "unmask")
    /\ UNCHANGED <<driver, xdmad_lock, transfer, CIS, CIM, GIM, handler, stray>>

EnableInterrupt(u) ==
    /\ At(u, "unmask")
    /\ GIM' = GIM \union {Mine(u)}
    /\ Goto(u, "started")
    /\ UNCHANGED <<driver, xdmad_lock, running, draining, transfer, CIS, CIM,
                   handler, stray>>

(* XDMAD_IsTransferDone; in polling mode it calls XDMAD_Handler.           *)
XDMAD_IsTransferDone(u) ==
    /\ At(u, "started")
    /\ \/ /\ state[Mine(u)] \in {"ALLOCATED", "DONE"}
          /\ Goto(u, "over")
          /\ UNCHANGED handler
       \/ /\ state[Mine(u)] \in {"START", "HALTED"} /\ pollingMode
          /\ CallHandler(u)
          /\ UNCHANGED user
    /\ UNCHANGED <<driver, xdmad_lock, controller, stray>>

(* XDMAD_StopTransfer.                                                     *)
MarkHalted(u) ==
    /\ At(u, "started")
    /\ state' = [state EXCEPT ![Mine(u)] = "HALTED"]
    /\ Goto(u, "disable")
    /\ UNCHANGED <<setup, fCallback, xdmad_lock, controller, handler, stray>>

DisableChannel(u) ==
    /\ At(u, "disable")
    /\ RequestDisable(Mine(u))
    /\ Goto(u, "silence")
    /\ UNCHANGED <<driver, xdmad_lock, running, transfer, CIS, CIM, GIM, handler,
                   stray>>

\* A mutated form: the channel's interrupts stay unmasked, its status pending.
Silence_LeftPending(u) ==
    /\ At(u, "silence")
    /\ Goto(u, "over")
    /\ UNCHANGED <<driver, xdmad_lock, controller, handler, stray>>

Silence(u) ==
    /\ At(u, "silence")
    /\ CIM' = [CIM EXCEPT ![Mine(u)] = {}]
    /\ CIS' = [CIS EXCEPT ![Mine(u)] = {}]
    /\ Goto(u, "over")
    /\ UNCHANGED <<driver, xdmad_lock, running, draining, transfer, GIM, handler,
                   stray>>

XDMAD_FreeChannel(u) ==
    /\ At(u, "over")
    /\ Stopped(u)
    /\ state[Mine(u)] \in {"DONE", "HALTED"}
    /\ state' = [state EXCEPT ![Mine(u)] = "FREE"]
    /\ user' = [user EXCEPT ![u] = Outside]
    /\ UNCHANGED <<setup, fCallback, xdmad_lock, controller, handler, stray>>

\* The rest of a call that a user has begun.
CompleteCall(u) ==
    \/ FindFree(u)
    \/ Claim(u)
    \/ EnableChannel(u)
    \/ EnableInterrupt(u)
    \/ DisableChannel(u)
    \/ Silence(u)

UserStep(u) ==
    \/ ObtainLock(u)
    \/ XDMAD_SetCallback(u)
    \/ XDMAD_PrepareChannel(u)
    \/ XDMAD_ConfigureTransfer(u)
    \/ MarkStarted(u)
    \/ XDMAD_IsTransferDone(u)
    \/ MarkHalted(u)
    \/ XDMAD_FreeChannel(u)
    \/ CompleteCall(u)

Next ==
    \/ \E u \in Users : UserStep(u)
    \/ Interrupt
    \/ \E e \in Users \union {ISR} : Handle(e)
    \/ \E c \in Channels : EndBlock(c) \/ EndDisable(c)

(* The controller works, interrupts are served, and no task stays for ever *)
(* in the middle of a call.                                                *)
Spec ==
    /\ Init /\ [][Next]_vars
    /\ WF_vars(Interrupt) /\ WF_vars(Handle(ISR))
    /\ \A c \in Channels : WF_vars(EndBlock(c)) /\ WF_vars(EndDisable(c))
    /\ \A u \in Users : SF_vars(CompleteCall(u)) /\ WF_vars(Handle(u))

-----------------------------------------------------------------------------
(* Properties.                                                             *)

\* A channel is allocated to one user at a time (xdmad.c:211-217).
OneHolder ==
    \A u, v \in Users : \A c \in Channels : Holds(u, c) /\ Holds(v, c) => u = v

\* A transfer reported done has been completed: its channel is not enabled any
\* more (xdmad.c:44-45).
ReportedDoneIsIdle == \A c \in Channels : state[c] = "DONE" => c \notin running

\* In the interrupt or in a single task that polls, the handler reports no
\* transfer done that goes on, whatever flags are unmasked and whenever the
\* controller moves on between its reads.
DoneMeansIdle == HandledAlone => ReportedDoneIsIdle

\* A channel that is free has nothing pending: XDMAD_Handler, if it handles
\* alone, stops at the first free channel it finds pending and yet never misses
\* those behind it.
FreeChannelsAreQuiet ==
    HandledAlone => \A c \in Channels : state[c] = "FREE" => c \notin GIS

\* If the handler handles alone, it calls a callback only for a channel that is
\* held, and its holder's if that has provided one (xdmad.c:46-47); a holder that
\* has not is answered through what an earlier one has left.
CallbackIsHolders == HandledAlone => ~stray

\* The end of a transfer that is started is noticed: its channel is not busy
\* for ever (xdmad.c:44-45).
EndIsNoticed ==
    \A c \in Channels : state[c] = "START" ~> state[c] # "START"
=============================================================================
