---------------------------- MODULE XdmadProofs ----------------------------
(***************************************************************************)
(* Proofs about the DMA driver, for any users, any number of channels and  *)
(* whatever transfers the users configure.                                 *)
(***************************************************************************)
EXTENDS Xdmad, TLAPS, WellFoundedInduction

USE DEF setup, driver, controller

-----------------------------------------------------------------------------
(* Type correctness.  A call of XDMAD_Handler must be known to have a      *)
(* channel to look at until it ends.                                       *)

\* A call under way has pending channels left.
PendingLeft ==
    \A e \in Users \union {ISR} : handler[e].pc # "idle" => handler[e].gis # {}

TypeInv == TypeOK /\ PendingLeft

\* The channels of the controller are entries of the driver's table.
LEMMA ChannelsType ==
    /\ XDMACCHID_NUMBER \in Nat \ {0}
    /\ \A n \in ChannelCounts :
          n \in Nat \ {0} /\ 0..(n - 1) \subseteq Channels /\ 0 \in 0..(n - 1)
    /\ 0 \in Channels /\ Channels \subseteq Nat
  BY ChannelsAssumption DEF Channels

\* The first of some channels is one of them.
LEMMA LeastChannel ==
    ASSUME NEW S \in SUBSET Channels, S # {}
    PROVE  Min(S) \in S
<1> DEFINE R == OpToRel(<, Nat)
<1>1. IsWellFoundedOn(R, Nat)
  BY NatLessThanWellFounded
<1>2. \A v, w \in Nat : v < w => <<v, w>> \in R
  BY DEF OpToRel
<1>3. S \subseteq Nat
  BY ChannelsType
<1> HIDE DEF R
<1>4. PICK w \in S : \A v \in S : ~(<<v, w>> \in R)
  BY <1>1, <1>3, WFMin
<1>5. ASSUME NEW v \in S PROVE w <= v
  <2>1. ~(v < w)
    BY <1>2, <1>3, <1>4
  <2>2. QED
    BY <1>3, <2>1
<1>6. QED
  BY <1>5 DEF Min

HandlerType == [pc : HandlerSteps, gis : SUBSET Channels, gs : SUBSET Channels,
                seen : SUBSET Flags]

\* A call under way is at a channel that is pending.
LEMMA AtPending ==
    ASSUME TypeInv, NEW e \in Users \union {ISR}, handler[e].pc # "idle"
    PROVE  Channel(e) \in handler[e].gis /\ Channel(e) \in Channels
<1>1. handler[e] \in HandlerType
  BY DEF TypeInv, TypeOK, HandlerType
<1>2. handler[e].gis \in SUBSET Channels /\ handler[e].gis # {}
  BY <1>1 DEF TypeInv, PendingLeft, HandlerType
<1> QED
  BY <1>2, LeastChannel DEF Channel

\* A call that is made has the pending channels before it.
LEMMA CallHandlerType ==
    ASSUME TypeInv, NEW e \in Users \union {ISR}, CallHandler(e)
    PROVE  /\ handler' \in [Users \union {ISR} -> HandlerType]
           /\ PendingLeft'
           /\ \A f \in (Users \union {ISR}) \ {e} : handler'[f] = handler[f]
           /\ \/ handler' = handler
              \/ handler'[e].pc = "status" /\ handler'[e].gis = GIS
<1>t. handler \in [Users \union {ISR} -> HandlerType]
  BY DEF TypeInv, TypeOK, HandlerType
<1>1. CASE handler' = handler
  BY <1>1, <1>t DEF TypeInv, PendingLeft
<1>2. CASE handler' = [handler EXCEPT ![e].pc = "status", ![e].gis = GIS] /\ GIS # {}
  <2> DEFINE called == [handler[e] EXCEPT !.pc = "status", !.gis = GIS]
  <2>1. GIS \in SUBSET Channels
    BY DEF GIS
  <2>2. called \in HandlerType /\ called.pc = "status" /\ called.gis = GIS
    BY <1>t, <2>1 DEF HandlerType, HandlerSteps
  <2>3. handler' = [handler EXCEPT ![e] = called]
    BY <1>2
  <2> HIDE DEF called
  <2>4. QED
    BY <1>2, <1>t, <2>2, <2>3 DEF TypeInv, PendingLeft
<1>3. QED
  BY <1>1, <1>2 DEF CallHandler

\* A call that goes on at its channel.
LEMMA MovedType ==
    ASSUME TypeInv, NEW e \in Users \union {ISR}, handler[e].pc # "idle",
           NEW pc \in HandlerSteps, NEW seen \in SUBSET Flags,
           handler' = Moved(e, pc, seen)
    PROVE  /\ handler' \in [Users \union {ISR} -> HandlerType]
           /\ PendingLeft'
           /\ \A f \in (Users \union {ISR}) \ {e} : handler'[f] = handler[f]
           /\ handler'[e].pc = pc /\ handler'[e].seen = seen
           /\ handler'[e].gis = handler[e].gis /\ handler'[e].gs = handler[e].gs
<1>t. handler \in [Users \union {ISR} -> HandlerType]
  BY DEF TypeInv, TypeOK, HandlerType
<1> DEFINE moved == [handler[e] EXCEPT !.pc = pc, !.seen = seen]
<1>1. /\ moved \in HandlerType /\ moved.pc = pc /\ moved.seen = seen
      /\ moved.gis = handler[e].gis /\ moved.gs = handler[e].gs
  BY <1>t DEF HandlerType
<1>2. handler' = [handler EXCEPT ![e] = moved]
  BY DEF Moved
<1> HIDE DEF moved
<1>3. QED
  BY <1>t, <1>1, <1>2 DEF TypeInv, PendingLeft

\* A call that goes on to the next pending channel, or ends.
LEMMA FollowingType ==
    ASSUME TypeInv, NEW e \in Users \union {ISR}, handler' = Following(e)
    PROVE  /\ handler' \in [Users \union {ISR} -> HandlerType]
           /\ PendingLeft'
           /\ \A f \in (Users \union {ISR}) \ {e} : handler'[f] = handler[f]
           /\ \/ handler'[e].pc = "idle"
              \/ /\ handler'[e].pc = "channels"
                 /\ handler'[e].gis \subseteq handler[e].gis
                 /\ handler'[e].gs = handler[e].gs \cap handler'[e].gis
<1>t. handler \in [Users \union {ISR} -> HandlerType]
  BY DEF TypeInv, TypeOK, HandlerType
<1> DEFINE rest == handler[e].gis \ {Channel(e)}
           next == IF rest = {} THEN NotCalled
                   ELSE [pc |-> "channels", gis |-> rest,
                         gs |-> handler[e].gs \cap rest, seen |-> {}]
<1>1. handler' = [handler EXCEPT ![e] = next]
  BY DEF Following
<1>2. next \in HandlerType
  BY <1>t DEF HandlerType, NotCalled, HandlerSteps
<1>3. next.pc # "idle" => next.gis # {}
  BY DEF NotCalled
<1>4. \/ next.pc = "idle"
      \/ /\ next.pc = "channels" /\ next.gis \subseteq handler[e].gis
         /\ next.gs = handler[e].gs \cap next.gis
  BY DEF NotCalled
<1> HIDE DEF next
<1>5. QED
  BY <1>t, <1>1, <1>2, <1>3, <1>4 DEF TypeInv, PendingLeft

\* A call that ends at a free channel.
LEMMA EndedType ==
    ASSUME TypeInv, NEW e \in Users \union {ISR},
           handler' = [handler EXCEPT ![e] = NotCalled]
    PROVE  /\ handler' \in [Users \union {ISR} -> HandlerType]
           /\ PendingLeft'
           /\ \A f \in (Users \union {ISR}) \ {e} : handler'[f] = handler[f]
           /\ handler'[e].pc = "idle"
<1>t. handler \in [Users \union {ISR} -> HandlerType]
  BY DEF TypeInv, TypeOK, HandlerType
<1>1. NotCalled \in HandlerType /\ NotCalled.pc = "idle"
  BY DEF HandlerType, NotCalled, HandlerSteps
<1>2. QED
  BY <1>t, <1>1 DEF TypeInv, PendingLeft

UserType == [Users -> [step : Steps, channel : 0..(numChannels - 1),
                       provides : BOOLEAN]]

\* A user that goes on keeps its channel.
LEMMA GotoType ==
    ASSUME TypeOK, NEW u \in Users, NEW step \in Steps, Goto(u, step)
    PROVE  /\ user' \in UserType
           /\ \A v \in Users \ {u} : user'[v] = user[v]
           /\ user'[u].step = step /\ user'[u].channel = user[u].channel
           /\ user'[u].provides = user[u].provides
<1> DEFINE moved == [user[u] EXCEPT !.step = step]
<1>1. user \in UserType
  BY DEF TypeOK, UserType
<1>2. /\ moved \in [step : Steps, channel : 0..(numChannels - 1), provides : BOOLEAN]
      /\ moved.step = step /\ moved.channel = user[u].channel
      /\ moved.provides = user[u].provides
  BY <1>1 DEF UserType
<1>3. user' = [user EXCEPT ![u] = moved]
  BY DEF Goto
<1> HIDE DEF moved
<1>4. QED
  BY <1>1, <1>2, <1>3 DEF UserType

\* A user that provides a callback keeps its channel.
LEMMA ProvideType ==
    ASSUME TypeOK, NEW u \in Users, Provide(u)
    PROVE  /\ user' \in UserType
           /\ \A v \in Users \ {u} : user'[v] = user[v]
           /\ user'[u].step = "provided" /\ user'[u].channel = user[u].channel
<1> DEFINE moved == [user[u] EXCEPT !.step = "provided", !.provides = TRUE]
<1>1. user \in UserType
  BY DEF TypeOK, UserType
<1>2. /\ moved \in [step : Steps, channel : 0..(numChannels - 1), provides : BOOLEAN]
      /\ moved.step = "provided" /\ moved.channel = user[u].channel
  BY <1>1 DEF UserType, Steps
<1>3. user' = [user EXCEPT ![u] = moved]
  BY DEF Provide
<1> HIDE DEF moved
<1>4. QED
  BY <1>1, <1>2, <1>3 DEF UserType

\* A user that has found a channel, and one that is outside the driver again.
LEMMA RenewedType ==
    ASSUME TypeOK, NEW u \in Users, NEW c \in 0..(numChannels - 1), NEW step \in Steps,
           user' = [user EXCEPT ![u] = [step |-> step, channel |-> c,
                                        provides |-> FALSE]]
    PROVE  /\ user' \in UserType
           /\ \A v \in Users \ {u} : user'[v] = user[v]
           /\ user'[u].step = step /\ user'[u].channel = c /\ ~user'[u].provides
<1>1. user \in UserType
  BY DEF TypeOK, UserType
<1>2. QED
  BY <1>1 DEF UserType

\* A user has a channel of the controller.
LEMMA MineType ==
    ASSUME TypeOK, NEW u \in Users
    PROVE  Mine(u) \in 0..(numChannels - 1) /\ Mine(u) \in Channels
<1>1. Mine(u) \in 0..(numChannels - 1) /\ numChannels \in ChannelCounts
  BY DEF TypeOK, Mine
<1>2. QED
  BY <1>1, ChannelsType

\* Every variable keeps its type, and a call of the handler has a channel to look
\* at until it ends.
LEMMA TypeInvariant == Spec => []TypeInv
<1>1. Init => TypeInv
  <2> SUFFICES ASSUME Init PROVE TypeInv
    OBVIOUS
  <2> USE ChannelsType, ModesAssumption DEF Init
  <2>1. /\ numChannels \in ChannelCounts /\ pollingMode \in Modes /\ tasks \subseteq Users
        /\ state \in [Channels -> States] /\ fCallback \in [Channels -> Users \union {NULL}]
        /\ xdmad_lock \in Users \union {NoUser}
    BY DEF States
  <2>2. /\ running \subseteq Channels /\ draining \subseteq running /\ GIM \subseteq Channels
        /\ transfer \in [Channels -> [left : Nat, list : BOOLEAN]]
        /\ CIS \in [Channels -> SUBSET Flags] /\ CIM \in [Channels -> SUBSET Flags]
    OBVIOUS
  <2>3. user \in UserType /\ stray \in BOOLEAN
    BY DEF UserType, Outside, Steps
  <2>4. handler \in [Users \union {ISR} -> HandlerType]
    BY DEF HandlerType, HandlerSteps, NotCalled
  <2>5. PendingLeft
    BY DEF PendingLeft, NotCalled
  <2>6. QED
    BY <2>1, <2>2, <2>3, <2>4, <2>5 DEF TypeInv, TypeOK, HandlerType, UserType
<1>2. TypeInv /\ [Next]_vars => TypeInv'
  <2> SUFFICES ASSUME TypeInv, [Next]_vars PROVE TypeInv'
    OBVIOUS
  <2> USE DEF TypeInv
  <2>1. ASSUME NEW u \in Users, UserStep(u) PROVE TypeInv'
    <3> USE MineType
    <3>0. handler' = handler => PendingLeft'
      BY DEF PendingLeft
    <3>1. CASE ObtainLock(u)
      <4>1. user' \in UserType
        BY <3>1, GotoType DEF ObtainLock, Steps
      <4>2. QED
        BY <3>0, <3>1, <4>1 DEF ObtainLock, TypeOK, UserType
    <3>2. CASE FindFree(u)
      <4>1. CASE NoneFree(u)
        <5>1. user' \in UserType
          BY <4>1, GotoType DEF NoneFree, Steps
        <5>2. QED
          BY <3>0, <3>2, <4>1, <5>1 DEF FindFree, NoneFree, TypeOK, UserType
      <4>2. CASE ~NoneFree(u)
        <5>1. PICK c \in Channels : c < numChannels /\ Found(u, c)
          BY <3>2, <4>2 DEF FindFree
        <5>2. c \in 0..(numChannels - 1) /\ "claim" \in Steps
          BY <5>1, ChannelsType DEF TypeOK, Steps
        <5>3. user' \in UserType
          BY <5>1, <5>2, RenewedType DEF Found
        <5>4. QED
          BY <3>0, <3>2, <4>2, <5>3 DEF FindFree, TypeOK, UserType
      <4>3. QED
        BY <4>1, <4>2
    <3>3. CASE XDMAD_SetCallback(u)
      <4>1. user' \in UserType
        BY <3>3, ProvideType DEF XDMAD_SetCallback
      <4>2. QED
        BY <3>0, <3>3, <4>1 DEF XDMAD_SetCallback, TypeOK, UserType
    <3>4. CASE XDMAD_PrepareChannel(u)
      <4>1. user' \in UserType
        BY <3>4, GotoType DEF XDMAD_PrepareChannel, Steps
      <4>2. /\ draining' \subseteq running'
            /\ CIS' \in [Channels -> SUBSET Flags] /\ CIM' \in [Channels -> SUBSET Flags]
        BY <3>4 DEF XDMAD_PrepareChannel, RequestDisable, TypeOK
      <4>3. QED
        BY <3>0, <3>4, <4>1, <4>2 DEF XDMAD_PrepareChannel, TypeOK, UserType
    <3>5. CASE XDMAD_ConfigureTransfer(u)
      <4> DEFINE c == Mine(u)
      <4>1. user' \in UserType
        BY <3>5, GotoType DEF XDMAD_ConfigureTransfer, Steps
      <4>2. PICK t \in Transfers[HandledAlone] :
               /\ transfer' = [transfer EXCEPT ![c] = [left |-> t.blocks, list |-> t.list]]
               /\ CIM' = [CIM EXCEPT ![c] = IF t.list THEN t.mask ELSE @ \union t.mask]
        BY <3>5 DEF XDMAD_ConfigureTransfer
      <4>3. t.blocks \in Nat /\ t.list \in BOOLEAN /\ t.mask \in SUBSET Flags
        <5>1. HandledAlone \in BOOLEAN
          BY DEF HandledAlone
        <5>2. t \in [blocks : Nat \ {0}, list : BOOLEAN, mask : SUBSET Flags]
          BY TransfersAssumption, <4>2, <5>1
        <5>3. QED
          BY <5>2
      <4>4. transfer' \in [Channels -> [left : Nat, list : BOOLEAN]]
        BY <4>2, <4>3 DEF TypeOK
      <4>5. CIM' \in [Channels -> SUBSET Flags]
        BY <4>2, <4>3 DEF TypeOK
      <4>6. CIS' \in [Channels -> SUBSET Flags]
        BY <3>5 DEF XDMAD_ConfigureTransfer, TypeOK
      <4>7. QED
        BY <3>0, <3>5, <4>1, <4>4, <4>5, <4>6
        DEF XDMAD_ConfigureTransfer, TypeOK, UserType
    <3>6. CASE Claim(u) \/ MarkStarted(u) \/ MarkHalted(u)
      <4>1. user' \in UserType
        BY <3>6, GotoType DEF Claim, MarkStarted, MarkHalted, Steps
      <4>2. state' \in [Channels -> States] /\ xdmad_lock' \in Users \union {NoUser}
        BY <3>6 DEF Claim, MarkStarted, MarkHalted, States, TypeOK
      <4>3. QED
        BY <3>0, <3>6, <4>1, <4>2 DEF Claim, MarkStarted, MarkHalted, TypeOK, UserType
    <3>7. CASE EnableChannel(u) \/ EnableInterrupt(u)
      <4>1. user' \in UserType
        BY <3>7, GotoType DEF EnableChannel, EnableInterrupt, Steps
      <4>2. QED
        BY <3>0, <3>7, <4>1 DEF EnableChannel, EnableInterrupt, TypeOK, UserType
    <3>8. CASE DisableChannel(u) \/ Silence(u)
      <4>1. user' \in UserType
        BY <3>8, GotoType DEF DisableChannel, Silence, Steps
      <4>2. CASE DisableChannel(u)
        <5>1. draining' \subseteq running
          BY <4>2 DEF DisableChannel, RequestDisable, TypeOK
        <5>2. QED
          BY <3>0, <4>1, <4>2, <5>1 DEF DisableChannel, TypeOK, UserType
      <4>3. CASE Silence(u)
        <5>1. CIS' \in [Channels -> SUBSET Flags] /\ CIM' \in [Channels -> SUBSET Flags]
          BY <4>3 DEF Silence, TypeOK
        <5>2. QED
          BY <3>0, <4>1, <4>3, <5>1 DEF Silence, TypeOK, UserType
      <4>4. QED
        BY <3>8, <4>2, <4>3
    <3>9. CASE XDMAD_IsTransferDone(u)
      <4>1. CASE Goto(u, "over") /\ UNCHANGED handler
        <5>1. user' \in UserType
          BY <4>1, GotoType DEF Steps
        <5>2. QED
          BY <3>0, <3>9, <4>1, <5>1 DEF XDMAD_IsTransferDone, TypeOK, UserType
      <4>2. CASE CallHandler(u) /\ UNCHANGED user
        <5>1. handler' \in [Users \union {ISR} -> HandlerType] /\ PendingLeft'
          BY <4>2, CallHandlerType
        <5>2. QED
          BY <3>9, <4>2, <5>1 DEF XDMAD_IsTransferDone, TypeOK, HandlerType
      <4>3. QED
        BY <3>9, <4>1, <4>2 DEF XDMAD_IsTransferDone
    <3>10. CASE XDMAD_FreeChannel(u)
      <4>1. 0 \in 0..(numChannels - 1)
        BY ChannelsType DEF TypeOK
      <4>2. user' \in UserType
        BY <3>10, <4>1, RenewedType DEF XDMAD_FreeChannel, Outside, Steps
      <4>3. state' \in [Channels -> States]
        BY <3>10 DEF XDMAD_FreeChannel, States, TypeOK
      <4>4. QED
        BY <3>0, <3>10, <4>2, <4>3 DEF XDMAD_FreeChannel, TypeOK, UserType
    <3>11. QED
      BY <2>1, <3>1, <3>2, <3>3, <3>4, <3>5, <3>6, <3>7, <3>8, <3>9, <3>10
      DEF UserStep, CompleteCall
  <2>2. CASE Interrupt
    <3>1. handler' \in [Users \union {ISR} -> HandlerType] /\ PendingLeft'
      BY <2>2, CallHandlerType DEF Interrupt
    <3>2. QED
      BY <2>2, <3>1 DEF Interrupt, TypeOK, HandlerType
  <2>3. ASSUME NEW e \in Users \union {ISR}, Handle(e) PROVE TypeInv'
    <3> DEFINE c == Channel(e)
    <3>0. /\ handler[e].pc # "idle" /\ handler[e] \in HandlerType
          /\ c \in Channels /\ CIS[c] \in SUBSET Flags
          /\ UNCHANGED <<setup, fCallback, xdmad_lock, running, draining, transfer,
                         CIM, GIM, user>>
      <4>1. handler[e].pc # "idle" /\ handler[e] \in HandlerType
        BY <2>3 DEF Handle, Handling, ReadGlobalStatus, CheckFree, ReadStatus, ReadMask,
                    ReadListMask, MarkDone, CallBack, TypeOK, HandlerType
      <4>2. c \in Channels
        BY <4>1, AtPending
      <4>3. UNCHANGED <<setup, fCallback, xdmad_lock, running, draining, transfer,
                        CIM, GIM, user>>
        BY <2>3 DEF Handle, HandlerOnly, ClearStatus, ReadGlobalStatus, CheckFree,
                    ReadStatus, ReadMask, ReadListMask, MarkDone, CallBack
      <4> QED
        BY <4>1, <4>2, <4>3 DEF TypeOK
    <3> HIDE DEF c
    <3>1. state' \in [Channels -> States]
      BY <2>3 DEF Handle, HandlerOnly, ClearStatus, ReadGlobalStatus, CheckFree,
                  ReadStatus, ReadMask, ReadListMask, MarkDone, CallBack, TypeOK, States
    <3>2. CIS' \in [Channels -> SUBSET Flags]
      BY <2>3 DEF Handle, HandlerOnly, ClearStatus, ReadGlobalStatus, CheckFree,
                  ReadStatus, ReadMask, ReadListMask, MarkDone, CallBack, TypeOK
    <3>3. stray' \in BOOLEAN
      BY <2>3 DEF Handle, HandlerOnly, ClearStatus, ReadGlobalStatus, CheckFree,
                  ReadStatus, ReadMask, ReadListMask, MarkDone, CallBack, TypeOK
    <3>4. handler' \in [Users \union {ISR} -> HandlerType] /\ PendingLeft'
      <4>1. ASSUME NEW pc \in HandlerSteps, NEW seen \in SUBSET Flags,
                   handler' = Moved(e, pc, seen)
            PROVE  handler' \in [Users \union {ISR} -> HandlerType] /\ PendingLeft'
        BY <3>0, <4>1, MovedType
      <4>2. ASSUME handler' = Following(e)
            PROVE  handler' \in [Users \union {ISR} -> HandlerType] /\ PendingLeft'
        BY <4>2, FollowingType
      <4>3. ASSUME NEW ends \in SUBSET Flags, handler' = Decide(e, ends)
            PROVE  handler' \in [Users \union {ISR} -> HandlerType] /\ PendingLeft'
        <5>1. "done" \in HandlerSteps
          BY DEF HandlerSteps
        <5> QED
          BY <4>1, <4>2, <4>3, <5>1 DEF Decide
      <4>4. CASE ReadGlobalStatus(e)
        <5> DEFINE read == [handler[e] EXCEPT !.pc = "channels",
                                              !.gs = running \cap handler[e].gis]
        <5>1. read \in HandlerType /\ read.gis = handler[e].gis
          BY <3>0 DEF HandlerType, HandlerSteps, TypeOK
        <5>2. handler' = [handler EXCEPT ![e] = read]
          BY <4>4 DEF ReadGlobalStatus
        <5> HIDE DEF read
        <5> QED
          BY <3>0, <5>1, <5>2 DEF TypeOK, PendingLeft, HandlerType
      <4>5. CASE CheckFree(e)
        BY <4>1, <4>5, EndedType DEF CheckFree, HandlerSteps
      <4>6. CASE ReadStatus(e)
        <5>1. {} \in SUBSET Flags /\ "mask" \in HandlerSteps /\ "callback" \in HandlerSteps
          BY DEF HandlerSteps
        <5>2. \/ handler' = Moved(e, "mask", CIS[c])
              \/ handler' = Moved(e, "callback", {})
              \/ handler' = Following(e)
          BY <4>6 DEF ReadStatus, c
        <5> QED
          BY <3>0, <4>1, <4>2, <5>1, <5>2
      <4>7. CASE ReadMask(e)
        <5>1. handler[e].seen \cap CIM[c] \in SUBSET Flags /\ "list" \in HandlerSteps
          BY <3>0 DEF HandlerType, HandlerSteps
        <5> QED
          BY <4>1, <4>3, <4>7, <5>1 DEF ReadMask, c
      <4>8. CASE ReadListMask(e)
        <5>1. handler[e].seen \in SUBSET Flags /\ handler[e].seen \ {"BIS"} \in SUBSET Flags
          BY <3>0 DEF HandlerType
        <5> QED
          BY <4>3, <4>8, <5>1 DEF ReadListMask
      <4>9. CASE MarkDone(e)
        <5>1. PICK flag \in handler[e].seen :
                 handler' = Moved(e, IF handler[e].seen \ {flag} = {} THEN "callback"
                                     ELSE "done", handler[e].seen \ {flag})
          BY <4>9 DEF MarkDone
        <5>2. handler[e].seen \ {flag} \in SUBSET Flags
          BY <3>0 DEF HandlerType
        <5>3. "callback" \in HandlerSteps /\ "done" \in HandlerSteps
          BY DEF HandlerSteps
        <5> QED
          BY <4>1, <5>1, <5>2, <5>3
      <4>10. CASE CallBack(e)
        BY <4>2, <4>10 DEF CallBack
      <4> QED
        BY <2>3, <4>4, <4>5, <4>6, <4>7, <4>8, <4>9, <4>10 DEF Handle
    <3>5. QED
      BY <3>0, <3>1, <3>2, <3>3, <3>4 DEF TypeOK, HandlerType
  <2>4. ASSUME NEW c \in Channels, EndBlock(c) PROVE TypeInv'
    <3>1. transfer[c].left - 1 \in Nat
      BY <2>4 DEF EndBlock, TypeOK
    <3>2. transfer' \in [Channels -> [left : Nat, list : BOOLEAN]]
      <4> DEFINE less == [transfer[c] EXCEPT !.left = transfer[c].left - 1]
      <4>1. transfer \in [Channels -> [left : Nat, list : BOOLEAN]]
        BY DEF TypeOK
      <4>2. less \in [left : Nat, list : BOOLEAN]
        BY <3>1, <4>1
      <4>3. transfer' = [transfer EXCEPT ![c] = less]
        BY <2>4 DEF EndBlock
      <4>4. QED
        BY <4>1, <4>2, <4>3
    <3>3. CIS' \in [Channels -> SUBSET Flags]
      BY <2>4 DEF EndBlock, TypeOK, Flags
    <3>4. running' \subseteq Channels /\ draining' \subseteq running'
      BY <2>4 DEF EndBlock, TypeOK
    <3>5. QED
      BY <2>4, <3>2, <3>3, <3>4 DEF EndBlock, TypeOK, PendingLeft
  <2>5. ASSUME NEW c \in Channels, EndDisable(c) PROVE TypeInv'
    BY <2>5 DEF EndDisable, TypeOK, PendingLeft, Flags
  <2>6. CASE UNCHANGED vars
    BY <2>6 DEF vars, TypeOK, PendingLeft
  <2>7. QED
    BY <2>1, <2>2, <2>3, <2>4, <2>5, <2>6 DEF Next
<1>3. QED
  BY <1>1, <1>2, PTL DEF Spec

\* Every variable of the driver and the controller keeps its type.
THEOREM TypeCorrect == Spec => []TypeOK
<1>1. TypeInv => TypeOK
  BY DEF TypeInv
<1>2. QED
  BY <1>1, TypeInvariant, PTL

-----------------------------------------------------------------------------
(* The owners of the channels.                                             *)

\* Only the holder of xdmad_lock searches; nobody takes the channel it has found
\* until it claims it; a channel that is held is not free.
AllocInv ==
    /\ \A u \in Users : user[u].step \in {"scan", "claim"} => xdmad_lock = u
    /\ \A u, v \in Users : user[u].step = "claim" => ~Holds(v, Mine(u))
    /\ \A u \in Users : \A c \in Channels : Holds(u, c) => state[c] # "FREE"
    /\ OneHolder

\* A step that allocates and frees nothing.  A task that polls may be late and
\* report a transfer done in a channel that is free by now.
KeepsAllocations ==
    /\ xdmad_lock' = xdmad_lock
    /\ \A c \in Channels : state'[c] = "FREE" => state[c] = "FREE"
    /\ \A u \in Users :
          \/ user'[u] = user[u]
          \/ /\ user'[u].channel = user[u].channel
             /\ user[u].step \notin {"out", "scan", "claim"}
             /\ user'[u].step \notin {"out", "scan", "claim"}

\* Such a step leaves the owners as they are.
LEMMA AllocKept ==
    ASSUME TypeInv, AllocInv, KeepsAllocations
    PROVE  AllocInv'
<1>1. \A u \in Users : Mine(u) \in Channels
  BY MineType DEF TypeInv
<1>2. \A u \in Users, c \in Channels : Holds(u, c)' <=> Holds(u, c)
  BY DEF KeepsAllocations, Holds
<1>3. \A u \in Users : user'[u].step \in {"scan", "claim"} => user'[u] = user[u]
  BY DEF KeepsAllocations
<1>4. (\A u \in Users : user[u].step \in {"scan", "claim"} => xdmad_lock = u)'
  BY <1>3 DEF KeepsAllocations, AllocInv
<1>5. (\A u, v \in Users : user[u].step = "claim" => ~Holds(v, Mine(u)))'
  <2> SUFFICES ASSUME NEW u \in Users, NEW v \in Users, user'[u].step = "claim"
               PROVE  ~Holds(v, Mine(u))'
    OBVIOUS
  <2>1. Mine(u)' = Mine(u) /\ user[u].step = "claim" /\ Mine(u) \in Channels
    BY <1>1, <1>3 DEF Mine
  <2>2. ~Holds(v, Mine(u))
    BY <2>1 DEF AllocInv
  <2>3. PICK c \in Channels : c = Mine(u)
    BY <2>1
  <2>4. ~Holds(v, c)'
    BY <1>2, <2>2, <2>3
  <2> QED
    BY <2>1, <2>3, <2>4 DEF Holds, Mine
<1>6. (\A u \in Users : \A c \in Channels : Holds(u, c) => state[c] # "FREE")'
  BY <1>2 DEF KeepsAllocations, AllocInv
<1>7. OneHolder'
  BY <1>2 DEF OneHolder, AllocInv
<1>8. QED
  BY <1>4, <1>5, <1>6, <1>7 DEF AllocInv

\* The handler allocates and frees nothing, however late it is.
LEMMA HandlerKeeps ==
    ASSUME TypeInv, NEW e \in Users \union {ISR}, Handle(e)
    PROVE  KeepsAllocations
<1>1. state' = state \/ state' = [state EXCEPT ![Channel(e)] = "DONE"]
  BY DEF Handle, HandlerOnly, ClearStatus, ReadGlobalStatus, CheckFree, ReadStatus,
         ReadMask, ReadListMask, MarkDone, CallBack
<1>2. UNCHANGED <<xdmad_lock, user>>
  BY DEF Handle, HandlerOnly, ClearStatus, ReadGlobalStatus, CheckFree, ReadStatus,
         ReadMask, ReadListMask, MarkDone, CallBack
<1>3. QED
  BY <1>1, <1>2 DEF KeepsAllocations, TypeInv, TypeOK

\* The calls of a user that work with the channel it holds.
HolderStep(u) ==
    \/ XDMAD_SetCallback(u)
    \/ XDMAD_PrepareChannel(u)
    \/ XDMAD_ConfigureTransfer(u)
    \/ MarkStarted(u)
    \/ EnableChannel(u)
    \/ EnableInterrupt(u)
    \/ XDMAD_IsTransferDone(u)
    \/ MarkHalted(u)
    \/ DisableChannel(u)
    \/ Silence(u)

\* They allocate and free nothing.
LEMMA HolderKeeps ==
    ASSUME TypeInv, AllocInv, NEW u \in Users, HolderStep(u)
    PROVE  KeepsAllocations
<1>1. user[u].step \notin {"out", "scan", "claim"} /\ xdmad_lock' = xdmad_lock
  BY DEF HolderStep, XDMAD_SetCallback, XDMAD_PrepareChannel,
         XDMAD_ConfigureTransfer, MarkStarted, EnableChannel, EnableInterrupt,
         XDMAD_IsTransferDone, MarkHalted, DisableChannel, Silence, At
<1>2. \/ user' = user
      \/ \E step \in Steps \ {"out", "scan", "claim"} : Goto(u, step)
      \/ Provide(u)
  BY DEF HolderStep, XDMAD_SetCallback, XDMAD_PrepareChannel,
         XDMAD_ConfigureTransfer, MarkStarted, EnableChannel, EnableInterrupt,
         XDMAD_IsTransferDone, MarkHalted, DisableChannel, Silence, Steps
<1>3. \/ state' = state
      \/ \E new \in {"START", "HALTED"} : state' = [state EXCEPT ![Mine(u)] = new]
  BY DEF HolderStep, XDMAD_SetCallback, XDMAD_PrepareChannel,
         XDMAD_ConfigureTransfer, MarkStarted, EnableChannel, EnableInterrupt,
         XDMAD_IsTransferDone, MarkHalted, DisableChannel, Silence
<1>4. \A c \in Channels : state'[c] = "FREE" => state[c] = "FREE"
  BY <1>3 DEF TypeInv, TypeOK
<1>5. ASSUME NEW v \in Users
      PROVE  \/ user'[v] = user[v]
             \/ /\ user'[v].channel = user[v].channel
                /\ user[v].step \notin {"out", "scan", "claim"}
                /\ user'[v].step \notin {"out", "scan", "claim"}
  BY <1>1, <1>2, GotoType, ProvideType DEF TypeInv
<1>6. QED
  BY <1>1, <1>4, <1>5 DEF KeepsAllocations

\* xdmad_lock makes the search for a free channel and its allocation one step,
\* and the handler, which does not take the lock, never makes a channel free.
LEMMA AllocInvariant == Spec => []AllocInv
<1>1. Init => AllocInv
  BY DEF Init, AllocInv, OneHolder, Holds, Outside
<1>2. TypeInv /\ AllocInv /\ [Next]_vars => AllocInv'
  <2> SUFFICES ASSUME TypeInv, AllocInv, [Next]_vars PROVE AllocInv'
    OBVIOUS
  <2>0. \A u \in Users : Mine(u) \in Channels
    BY MineType DEF TypeInv
  <2>1. CASE KeepsAllocations
    BY <2>1, AllocKept
  <2>2. ASSUME NEW u \in Users, ObtainLock(u) PROVE AllocInv'
    <3>1. \A v \in Users : user[v].step \notin {"scan", "claim"}
      BY <2>2, MarkersAssumption DEF ObtainLock, AllocInv
    <3>2. /\ state' = state /\ xdmad_lock' = u
          /\ user'[u].step = "scan" /\ \A v \in Users \ {u} : user'[v] = user[v]
      BY <2>2 DEF ObtainLock, Goto, TypeInv, TypeOK
    <3>3. QED
      BY <3>1, <3>2 DEF AllocInv, OneHolder, Holds, Mine
  <2>3. ASSUME NEW u \in Users, FindFree(u) PROVE AllocInv'
    <3>0. user[u].step = "scan" /\ state' = state
      BY <2>3 DEF FindFree, At
    <3>1. /\ \A v \in Users \ {u} :
                user'[v] = user[v] /\ user[v].step \notin {"scan", "claim"}
          /\ \/ user'[u].step = "out"
             \/ /\ user'[u].step = "claim" /\ xdmad_lock' = xdmad_lock
                /\ state[user'[u].channel] = "FREE"
                /\ user'[u].channel \in Channels
      BY <2>3, <3>0 DEF FindFree, Found, NoneFree, Goto, AllocInv, TypeInv, TypeOK
    <3>2. ASSUME NEW v \in Users, NEW c \in Channels, Holds(v, c)'
          PROVE  v # u /\ Holds(v, c)
      BY <3>1, <3>2 DEF Holds
    <3>3. (\A v, w \in Users : user[v].step = "claim" => ~Holds(w, Mine(v)))'
      <4> SUFFICES ASSUME NEW v \in Users, NEW w \in Users, user'[v].step = "claim",
                          Holds(w, Mine(v))'
                   PROVE  FALSE
        OBVIOUS
      <4>1. v = u /\ user'[u].step = "claim"
        BY <3>1
      <4>2. PICK c \in Channels : c = user'[u].channel /\ state[c] = "FREE"
        BY <3>1, <4>1
      <4>3. Holds(w, c)'
        BY <4>1, <4>2 DEF Holds, Mine
      <4>4. Holds(w, c)
        BY <3>2, <4>3
      <4> QED
        BY <4>2, <4>4 DEF AllocInv
    <3>4. (\A v \in Users : user[v].step \in {"scan", "claim"} => xdmad_lock = v)'
      BY <3>0, <3>1 DEF AllocInv
    <3>5. (\A v \in Users : \A c \in Channels : Holds(v, c) => state[c] # "FREE")'
      BY <3>0, <3>2 DEF AllocInv
    <3>6. OneHolder'
      BY <3>2 DEF AllocInv, OneHolder
    <3>7. QED
      BY <3>3, <3>4, <3>5, <3>6 DEF AllocInv
  <2>4. ASSUME NEW u \in Users, Claim(u) PROVE AllocInv'
    <3>0. user[u].step = "claim" /\ \A v \in Users : ~Holds(v, Mine(u))
      BY <2>4 DEF Claim, At, AllocInv
    <3>1. \A v \in Users \ {u} :
             user'[v] = user[v] /\ user[v].step \notin {"scan", "claim"}
      BY <2>4, <3>0 DEF Claim, Goto, AllocInv, TypeInv, TypeOK
    <3>2. user'[u].step = "allocated" /\ user'[u].channel = Mine(u)
      BY <2>4 DEF Claim, Goto, Mine, TypeInv, TypeOK
    <3>3. \A c \in Channels :
             state'[c] = IF c = Mine(u) THEN "ALLOCATED" ELSE state[c]
      BY <2>4 DEF Claim, TypeInv, TypeOK
    <3>4. \A v \in Users : user'[v].step \notin {"scan", "claim"}
      BY <3>1, <3>2
    <3>5. \A v \in Users, c \in Channels :
             Holds(v, c)' <=> IF v = u THEN c = Mine(u) ELSE Holds(v, c)
      BY <3>1, <3>2 DEF Holds
    <3>6. \A v \in Users, c \in Channels : Holds(v, c)' => state'[c] # "FREE"
      BY <3>3, <3>5 DEF AllocInv
    <3>7. OneHolder'
      BY <3>0, <3>5 DEF AllocInv, OneHolder
    <3>8. QED
      BY <3>4, <3>6, <3>7 DEF AllocInv
  <2>5. ASSUME NEW u \in Users, XDMAD_FreeChannel(u) PROVE AllocInv'
    <3>0. Holds(u, Mine(u))
      BY <2>5 DEF XDMAD_FreeChannel, At, Holds, Mine
    <3>1. /\ user'[u].step = "out" /\ xdmad_lock' = xdmad_lock
          /\ \A v \in Users \ {u} : user'[v] = user[v]
      BY <2>5 DEF XDMAD_FreeChannel, Outside, TypeInv, TypeOK
    <3>2. \A c \in Channels : state'[c] = IF c = Mine(u) THEN "FREE" ELSE state[c]
      BY <2>5 DEF XDMAD_FreeChannel, TypeInv, TypeOK
    <3>3. \A v \in Users, c \in Channels :
             Holds(v, c)' <=> v # u /\ Holds(v, c)
      BY <3>1 DEF Holds
    <3>4. \A v \in Users \ {u} : ~Holds(v, Mine(u))
      BY <2>0, <3>0 DEF AllocInv, OneHolder
    <3>5. (\A v \in Users : user[v].step \in {"scan", "claim"} => xdmad_lock = v)'
      BY <3>1 DEF AllocInv
    <3>6. (\A v, w \in Users : user[v].step = "claim" => ~Holds(w, Mine(v)))'
      BY <3>1 DEF AllocInv, Holds, Mine
    <3>7. (\A v \in Users : \A c \in Channels : Holds(v, c) => state[c] # "FREE")'
      BY <3>2, <3>3, <3>4 DEF AllocInv
    <3>8. OneHolder'
      BY <3>3 DEF AllocInv, OneHolder
    <3>9. QED
      BY <3>5, <3>6, <3>7, <3>8 DEF AllocInv
  <2>6. CASE Interrupt \/ (\E c \in Channels : EndBlock(c) \/ EndDisable(c))
    BY <2>1, <2>6 DEF Interrupt, EndBlock, EndDisable, KeepsAllocations
  <2>7. ASSUME NEW u \in Users, HolderStep(u) PROVE AllocInv'
    BY <2>1, <2>7, HolderKeeps
  <2>8. ASSUME NEW e \in Users \union {ISR}, Handle(e) PROVE AllocInv'
    BY <2>1, <2>8, HandlerKeeps
  <2>9. CASE UNCHANGED vars
    BY <2>1, <2>9 DEF vars, KeepsAllocations
  <2>10. QED
    BY <2>2, <2>3, <2>4, <2>5, <2>6, <2>7, <2>8, <2>9
    DEF Next, UserStep, CompleteCall, HolderStep
<1>3. QED
  BY <1>1, <1>2, TypeInvariant, PTL DEF Spec

\* A channel is allocated to one user at a time: no two users ever hold what
\* XDMAD_AllocateChannel has answered to one of them.
THEOREM OneHolderCorrect == Spec => []OneHolder
<1>1. AllocInv => OneHolder
  BY DEF AllocInv
<1>2. QED
  BY <1>1, AllocInvariant, PTL

-----------------------------------------------------------------------------
(* The channels and their transfers, as long as the handler handles alone: *)
(* what is reported done is done, a free channel is quiet and callbacks go *)
(* to the holder, for any users, channels and transfers that are unmasked  *)
(* with care.                                                              *)

\* The end of disable is never unmasked.
UnmaskedWithCare ==
    \A alone \in BOOLEAN : \A t \in Transfers[alone] : "DIS" \notin t.mask

-----------------------------------------------------------------------------
(* The invariant.                                                          *)

\* No block of the channel's can end; nor has one ended unnoticed.
Still(c) == c \in running => c \in draining
AtRest(c) == Still(c) /\ CIS[c] \subseteq {"DIS"}

\* What holds of a channel whoever holds it.
ChannelInv(c) ==
    /\ "DIS" \notin CIM[c]
    /\ state[c] = "FREE" => AtRest(c)
    /\ state[c] = "DONE" => c \notin running /\ CIS[c] = {}
    /\ state[c] # "FREE" => \E u \in Users : Holds(u, c)

RestingSteps == {"allocated", "provided", "prepared", "configured", "enable", "over"}

\* What holds of a channel by the progress of its holder.
HolderInv(u) ==
    LET c == Mine(u) IN
    /\ user[u].step \in RestingSteps => AtRest(c)
    /\ user[u].step = "silence" => Still(c)
    /\ user[u].step = "unmask" => ~pollingMode
    /\ user[u].step = "prepared" => CIM[c] = {}
    /\ user[u].step = "enable" => state[c] = "START"
    /\ user[u].step \in {"unmask", "started"} => state[c] \in {"START", "DONE"}
    /\ user[u].provides =>
          /\ user[u].step \notin {"out", "scan", "claim", "allocated"}
          /\ fCallback[c] = u
    /\ user[u].step # "out" => u \in tasks

\* The holder of the channel has started it and not yet seen it at rest.
Started(c) == \E u \in Users : Holds(u, c) /\ user[u].step \notin RestingSteps

\* A call under way is about channels that are started.  It takes a channel for
\* stopped only if it has stopped, and clears its status before it marks it.
CallInv(e) ==
    /\ handler[e].pc # "idle" => \A c \in handler[e].gis : Started(c)
    /\ handler[e].pc \notin {"idle", "status"} =>
          running \cap handler[e].gis \subseteq handler[e].gs
    /\ handler[e].pc \in {"mask", "list", "done"} =>
          Channel(e) \notin running /\ CIS[Channel(e)] = {}

\* Channels are handled either by the tasks or in the interrupt.
HandlerInv ==
    /\ pollingMode => GIM = {} /\ handler[ISR].pc = "idle"
    /\ \A u \in Users : handler[u].pc # "idle" => pollingMode /\ u \in tasks
    /\ \A e \in Users \union {ISR} : CallInv(e)

TransferInv ==
    /\ \A c \in Channels : ChannelInv(c)
    /\ \A u \in Users : HolderInv(u)
    /\ HandlerInv
    /\ stray = FALSE

-----------------------------------------------------------------------------
(* A step disturbs one channel and its holder at most.                     *)

\* What the invariant knows of a channel is left alone.
UnchangedAt(c) ==
    /\ state'[c] = state[c] /\ fCallback'[c] = fCallback[c]
    /\ c \in running' <=> c \in running
    /\ c \in draining' <=> c \in draining
    /\ CIS'[c] = CIS[c] /\ CIM'[c] = CIM[c]

\* A channel that is left alone, with its holder.
LEMMA ChannelKept ==
    ASSUME NEW c \in Channels, ChannelInv(c), UnchangedAt(c),
           \A u \in Users : Holds(u, c) => Holds(u, c)'
    PROVE  ChannelInv(c)'
<1>1. AtRest(c)' <=> AtRest(c)
  BY DEF UnchangedAt, AtRest, Still
<1>2. (\E u \in Users : Holds(u, c)) => (\E u \in Users : Holds(u, c)')
  OBVIOUS
<1> QED
  BY <1>1, <1>2 DEF ChannelInv, UnchangedAt

\* A user that makes no step, on a channel that is left alone.
LEMMA HolderKept ==
    ASSUME NEW u \in Users, HolderInv(u), user'[u] = user[u], UnchangedAt(Mine(u)),
           UNCHANGED setup
    PROVE  HolderInv(u)'
<1>1. AtRest(Mine(u))' <=> AtRest(Mine(u))
  BY DEF UnchangedAt, AtRest, Still, Mine
<1>2. Still(Mine(u))' <=> Still(Mine(u))
  BY DEF UnchangedAt, Still, Mine
<1> QED
  BY <1>1, <1>2 DEF HolderInv, UnchangedAt, Mine

\* A user that holds no channel.
LEMMA HolderOfNone ==
    ASSUME NEW u \in Users, user[u].step \in {"out", "scan", "claim"},
           ~user[u].provides, user[u].step # "out" => u \in tasks
    PROVE  HolderInv(u)
  BY DEF HolderInv, RestingSteps

\* A step of a user, or of the driver for it, that leaves all but one channel
\* alone, one that no other user holds.
LEMMA Elsewhere ==
    ASSUME TypeInv, TransferInv, UNCHANGED setup,
           NEW u \in Users, NEW c \in Channels,
           \A v \in Users \ {u} : user'[v] = user[v] /\ ~Holds(v, c),
           \A d \in Channels \ {c} : UnchangedAt(d) /\ (Holds(u, d) => Holds(u, d)')
    PROVE  /\ \A d \in Channels \ {c} : ChannelInv(d)'
           /\ \A v \in Users \ {u} : HolderInv(v)'
<1>1. ASSUME NEW d \in Channels \ {c} PROVE ChannelInv(d)'
  <2>1. \A v \in Users : Holds(v, d) => Holds(v, d)'
    BY DEF Holds
  <2>2. ChannelInv(d) /\ UnchangedAt(d)
    BY DEF TransferInv
  <2> QED
    BY <2>1, <2>2, ChannelKept
<1>2. ASSUME NEW v \in Users \ {u} PROVE HolderInv(v)'
  <2>0. HolderInv(v) /\ user'[v] = user[v]
    BY DEF TransferInv
  <2>1. CASE user[v].step \in {"out", "scan", "claim"}
    BY <2>0, <2>1 DEF HolderInv, RestingSteps
  <2>2. CASE user[v].step \notin {"out", "scan", "claim"}
    <3>1. Mine(v) \in Channels \ {c}
      BY <2>2, MineType DEF Holds, Mine, TypeInv
    <3>2. UnchangedAt(Mine(v))
      BY <3>1
    <3> QED
      BY <2>0, <3>2, HolderKept
  <2> QED
    BY <2>1, <2>2
<1> QED
  BY <1>1, <1>2

\* A channel at rest has nothing unmasked pending.
LEMMA AtRestIsQuiet ==
    ASSUME NEW c \in Channels, "DIS" \notin CIM[c], AtRest(c)
    PROVE  CIS[c] \cap CIM[c] = {}
  BY DEF AtRest

\* What is pending is pending on a channel that its holder has started.
LEMMA PendingIsStarted ==
    ASSUME TypeInv, TransferInv, NEW c \in GIS
    PROVE  Started(c)
<1>1. c \in Channels /\ CIS[c] \cap CIM[c] # {} /\ ChannelInv(c)
  BY DEF GIS, TransferInv
<1>2. ~AtRest(c)
  BY <1>1, AtRestIsQuiet DEF ChannelInv
<1>3. PICK u \in Users : Holds(u, c)
  BY <1>1, <1>2 DEF ChannelInv
<1>4. user[u].step \notin RestingSteps
  BY <1>2, <1>3 DEF TransferInv, HolderInv, Holds, Mine
<1> QED
  BY <1>3, <1>4 DEF Started

\* While a user makes a step nobody handles: the interrupt would preempt it, and
\* another task that polls there is not.
LEMMA NobodyHandles ==
    ASSUME TypeInv, TransferInv, HandledAlone, NEW u \in Users,
           NEW step \in Steps, At(u, step), u \in tasks
    PROVE  \A e \in Users \union {ISR} : handler[e].pc = "idle"
<1>1. handler[ISR].pc = "idle" /\ handler[u].pc = "idle"
  BY DEF At
<1>2. ASSUME NEW v \in Users, handler[v].pc # "idle" PROVE FALSE
  <2>1. pollingMode /\ v \in tasks
    BY <1>2 DEF TransferInv, HandlerInv
  <2>2. v = u
    BY <2>1 DEF HandledAlone
  <2> QED
    BY <1>1, <1>2, <2>2
<1> QED
  BY <1>1, <1>2

-----------------------------------------------------------------------------
(* The users.                                                              *)

\* A user's step, for the channel it holds or is about to.
OwnStep(u) == HolderStep(u) \/ Claim(u) \/ XDMAD_FreeChannel(u)

\* A user's step leaves the other channels and the other users alone.
LEMMA OwnStepElsewhere ==
    ASSUME TypeInv, AllocInv, TransferInv, NEW u \in Users, OwnStep(u)
    PROVE  /\ \A d \in Channels \ {Mine(u)} : ChannelInv(d)'
           /\ \A v \in Users \ {u} : HolderInv(v)'
<1> DEFINE c == Mine(u)
<1>1. c \in Channels
  BY MineType DEF TypeInv
<1>2. UNCHANGED setup
  BY DEF OwnStep, HolderStep, XDMAD_SetCallback, XDMAD_PrepareChannel,
         XDMAD_ConfigureTransfer, MarkStarted, EnableChannel, EnableInterrupt,
         XDMAD_IsTransferDone, MarkHalted, DisableChannel, Silence, Claim,
         XDMAD_FreeChannel
<1>3. Holds(u, c) \/ user[u].step = "claim"
  BY DEF OwnStep, HolderStep, XDMAD_SetCallback, XDMAD_PrepareChannel,
         XDMAD_ConfigureTransfer, MarkStarted, EnableChannel, EnableInterrupt,
         XDMAD_IsTransferDone, MarkHalted, DisableChannel, Silence, Claim,
         XDMAD_FreeChannel, At, Holds, Mine
<1>4. \A v \in Users \ {u} : ~Holds(v, c)
  BY <1>1, <1>3 DEF AllocInv, OneHolder
<1>5. \A v \in Users \ {u} : user'[v] = user[v]
  BY DEF OwnStep, HolderStep, XDMAD_SetCallback, XDMAD_PrepareChannel,
         XDMAD_ConfigureTransfer, MarkStarted, EnableChannel, EnableInterrupt,
         XDMAD_IsTransferDone, MarkHalted, DisableChannel, Silence, Claim,
         XDMAD_FreeChannel, Goto, Provide, TypeInv, TypeOK
<1>6. \A d \in Channels \ {c} : ~Holds(u, d)
  BY DEF Holds, Mine
<1>7. ASSUME NEW d \in Channels \ {c} PROVE UnchangedAt(d)
  <2>1. /\ state'[d] = state[d] /\ fCallback'[d] = fCallback[d]
        /\ CIS'[d] = CIS[d] /\ CIM'[d] = CIM[d]
    BY DEF OwnStep, HolderStep, XDMAD_SetCallback, XDMAD_PrepareChannel,
           XDMAD_ConfigureTransfer, MarkStarted, EnableChannel, EnableInterrupt,
           XDMAD_IsTransferDone, MarkHalted, DisableChannel, Silence, Claim,
           XDMAD_FreeChannel, TypeInv, TypeOK
  <2>2. (d \in running' <=> d \in running) /\ (d \in draining' <=> d \in draining)
    BY DEF OwnStep, HolderStep, XDMAD_SetCallback, XDMAD_PrepareChannel,
           XDMAD_ConfigureTransfer, MarkStarted, EnableChannel, EnableInterrupt,
           XDMAD_IsTransferDone, MarkHalted, DisableChannel, Silence, Claim,
           XDMAD_FreeChannel, RequestDisable
  <2> QED
    BY <2>1, <2>2 DEF UnchangedAt
<1> HIDE DEF c
<1> QED
  BY <1>1, <1>2, <1>4, <1>5, <1>6, <1>7, Elsewhere DEF c

\* A user's step keeps the invariant for its own channel: what a transfer needs
\* to be at rest is at rest before it is programmed, and what is asked to stop
\* raises nothing that is unmasked.
LEMMA OwnStepOwn ==
    ASSUME TypeInv, AllocInv, TransferInv, UnmaskedWithCare, NEW u \in Users,
           OwnStep(u), NEW c \in Channels, c = Mine(u)
    PROVE  ChannelInv(c)' /\ HolderInv(u)'
<1> DEFINE step == user[u].step
<1>0. c \in Channels /\ c = Mine(u) /\ ChannelInv(c) /\ HolderInv(u)
  BY DEF TransferInv
<1>1. "DIS" \notin CIM[c]
  BY <1>0 DEF ChannelInv
<1>t. /\ user \in UserType
      /\ state \in [Channels -> States] /\ fCallback \in [Channels -> Users \union {NULL}]
      /\ CIS \in [Channels -> SUBSET Flags] /\ CIM \in [Channels -> SUBSET Flags]
      /\ running \subseteq Channels /\ draining \subseteq running
  BY DEF TypeInv, TypeOK, UserType
<1> DEFINE To(s) == /\ user'[u].step = s /\ user'[u].channel = c
                    /\ user'[u].provides = user[u].provides
<1>g. ASSUME NEW s \in Steps, Goto(u, s) PROVE To(s)
  BY <1>0, <1>g, GotoType DEF Mine, TypeInv
<1>c. ASSUME AtRest(c)', "DIS" \notin CIM'[c], Holds(u, c)',
             state'[c] = "DONE" => c \notin running' /\ CIS'[c] = {}
      PROVE  ChannelInv(c)'
  BY <1>c DEF ChannelInv
<1>h. ASSUME NEW s \in Steps \ {"out", "scan", "claim"}, To(s) PROVE Holds(u, c)'
  BY <1>h DEF Holds
<1>s. /\ step # "out" /\ u \in tasks /\ UNCHANGED setup
      /\ "DIS" \notin CIM[c]
  BY <1>0, <1>1
  DEF OwnStep, HolderStep, XDMAD_SetCallback, XDMAD_PrepareChannel,
      XDMAD_ConfigureTransfer, MarkStarted, EnableChannel, EnableInterrupt,
      XDMAD_IsTransferDone, MarkHalted, DisableChannel, Silence, Claim,
      XDMAD_FreeChannel, At, HolderInv
<1> USE DEF Mine, RestingSteps
<1>2. CASE Claim(u)
  <2>1. step = "claim" /\ To("allocated")
    BY <1>2, <1>g DEF Claim, At, Steps
  <2>2. /\ state'[c] = "ALLOCATED"
        /\ UNCHANGED <<running, draining, CIS, CIM>>
    BY <1>0, <1>2, <1>t DEF Claim
  <2>3. AtRest(c) /\ AtRest(c)'
    <3>1. state[c] = "FREE"
      <4>1. \A v \in Users : ~Holds(v, c)
        BY <1>0, <2>1 DEF AllocInv
      <4> QED
        BY <1>0, <4>1 DEF ChannelInv
    <3> QED
      BY <1>0, <2>2, <3>1 DEF ChannelInv, AtRest, Still
  <2>4. ChannelInv(c)'
    BY <1>0, <1>1, <1>c, <1>h, <2>1, <2>2, <2>3 DEF Steps
  <2> QED
    BY <1>0, <1>s, <2>1, <2>3, <2>4 DEF HolderInv
<1>3. CASE XDMAD_SetCallback(u)
  <2>1. /\ step = "allocated" /\ user'[u].step = "provided" /\ user'[u].channel = c
        /\ Holds(u, c)'
    BY <1>0, <1>3, ProvideType DEF XDMAD_SetCallback, At, TypeInv, Holds
  <2>2. /\ fCallback'[c] = u
        /\ UNCHANGED <<state, running, draining, CIS, CIM>>
    BY <1>0, <1>3, <1>t DEF XDMAD_SetCallback
  <2>3. AtRest(c) /\ AtRest(c)'
    BY <1>0, <2>1, <2>2 DEF HolderInv, AtRest, Still
  <2>4. ChannelInv(c)'
    BY <1>0, <1>1, <1>c, <2>1, <2>2, <2>3 DEF ChannelInv
  <2> QED
    BY <1>s, <2>1, <2>2, <2>3, <2>4 DEF HolderInv
<1>4. CASE XDMAD_PrepareChannel(u)
  <2>1. step \in {"allocated", "provided", "over"} /\ To("prepared")
    BY <1>4, <1>g DEF XDMAD_PrepareChannel, At, Steps
  <2>2. /\ CIS'[c] = {} /\ CIM'[c] = {} /\ fCallback' = fCallback /\ state' = state
        /\ UNCHANGED running
        /\ c \in draining' <=> c \in running
    BY <1>0, <1>4, <1>t DEF XDMAD_PrepareChannel, RequestDisable
  <2>3. AtRest(c)'
    BY <2>2 DEF AtRest, Still
  <2>4. ChannelInv(c)'
    BY <1>0, <1>c, <1>h, <2>1, <2>2, <2>3 DEF ChannelInv, Steps
  <2> QED
    BY <1>0, <1>s, <2>1, <2>2, <2>3, <2>4 DEF HolderInv
<1>5. CASE XDMAD_ConfigureTransfer(u)
  <2>1. step = "prepared" /\ To("configured") /\ CIM[c] = {} /\ AtRest(c)
    BY <1>0, <1>5, <1>g DEF XDMAD_ConfigureTransfer, At, HolderInv, Steps
  <2>2. PICK t \in Transfers[HandledAlone] :
           CIM' = [CIM EXCEPT ![c] = IF t.list THEN t.mask ELSE @ \union t.mask]
    BY <1>5 DEF XDMAD_ConfigureTransfer
  <2>3. CIM'[c] = t.mask
    BY <1>0, <1>t, <2>1, <2>2
  <2>4. /\ CIS'[c] = {}
        /\ UNCHANGED <<state, fCallback, running, draining>>
    BY <1>0, <1>5, <1>t DEF XDMAD_ConfigureTransfer
  <2>5. "DIS" \notin t.mask
    <3>1. HandledAlone \in BOOLEAN
      BY DEF HandledAlone
    <3> QED
      BY <2>2, <3>1 DEF UnmaskedWithCare
  <2>6. AtRest(c)'
    BY <2>1, <2>4 DEF AtRest, Still
  <2>7. ChannelInv(c)'
    BY <1>0, <1>c, <1>h, <2>1, <2>3, <2>4, <2>5, <2>6 DEF ChannelInv, Steps
  <2> QED
    BY <1>0, <1>s, <2>1, <2>4, <2>6, <2>7 DEF HolderInv
<1>6. CASE MarkStarted(u)
  <2>1. step = "configured" /\ To("enable")
    BY <1>6, <1>g DEF MarkStarted, At, Steps
  <2>2. /\ state'[c] = "START"
        /\ UNCHANGED <<fCallback, running, draining, CIS, CIM>>
    BY <1>0, <1>6, <1>t DEF MarkStarted
  <2>3. AtRest(c)'
    BY <1>0, <2>1, <2>2 DEF HolderInv, AtRest, Still
  <2>4. ChannelInv(c)'
    BY <1>0, <1>1, <1>c, <1>h, <2>1, <2>2, <2>3 DEF Steps
  <2> QED
    BY <1>0, <1>s, <2>1, <2>2, <2>3, <2>4 DEF HolderInv
<1>7. CASE EnableChannel(u)
  <2>1. step = "enable" /\ ((To("unmask") /\ ~pollingMode) \/ To("started"))
    BY <1>7, <1>g DEF EnableChannel, At, Steps
  <2>2. state[c] = "START" /\ UNCHANGED <<state, fCallback, CIS, CIM>>
    BY <1>0, <1>7, <2>1 DEF EnableChannel, HolderInv
  <2>3. Holds(u, c)'
    BY <1>0, <1>h, <2>1 DEF Steps
  <2>4. ChannelInv(c)'
    BY <1>1, <2>2, <2>3 DEF ChannelInv
  <2> QED
    BY <1>0, <1>s, <2>1, <2>2, <2>4 DEF HolderInv
<1>8. CASE EnableInterrupt(u)
  <2>1. step = "unmask" /\ To("started")
    BY <1>8, <1>g DEF EnableInterrupt, At, Steps
  <2>2. UNCHANGED <<state, fCallback, running, draining, CIS, CIM>>
    BY <1>8 DEF EnableInterrupt
  <2>3. \A v \in Users : Holds(v, c) => Holds(v, c)'
    BY <1>8, <1>t, <2>1 DEF EnableInterrupt, Goto, Holds, UserType
  <2>4. ChannelInv(c)'
    BY <1>0, <2>2, <2>3, ChannelKept DEF UnchangedAt
  <2> QED
    BY <1>0, <1>s, <2>1, <2>2, <2>4 DEF HolderInv
<1>9. CASE XDMAD_IsTransferDone(u)
  <2>1. step = "started" /\ (To("over") \/ user' = user)
    BY <1>9, <1>g DEF XDMAD_IsTransferDone, At, Steps
  <2>2. UNCHANGED <<state, fCallback, running, draining, CIS, CIM>>
    BY <1>9 DEF XDMAD_IsTransferDone
  <2>3. ASSUME NEW v \in Users, Holds(v, c) PROVE Holds(v, c)'
    <3>1. v = u \/ user'[v] = user[v]
      BY <1>9, <1>t DEF XDMAD_IsTransferDone, Goto, UserType
    <3> QED
      BY <2>1, <2>3, <3>1 DEF Holds
  <2>4. ChannelInv(c)'
    BY <1>0, <2>2, <2>3, ChannelKept DEF UnchangedAt
  <2>5. CASE user' = user
    BY <1>0, <1>s, <2>2, <2>4, <2>5, HolderKept DEF UnchangedAt
  <2>6. CASE To("over") /\ state[c] = "DONE"
    <3>1. AtRest(c)'
      BY <1>0, <2>2, <2>6 DEF ChannelInv, AtRest, Still
    <3> QED
      BY <1>0, <1>s, <2>1, <2>2, <2>4, <2>6, <3>1 DEF HolderInv
  <2>7. state[c] = "DONE" \/ user' = user
    BY <1>0, <1>9, <2>1 DEF XDMAD_IsTransferDone, HolderInv
  <2> QED
    BY <2>1, <2>5, <2>6, <2>7
<1>10. CASE MarkHalted(u)
  <2>1. step = "started" /\ To("disable")
    BY <1>10, <1>g DEF MarkHalted, At, Steps
  <2>2. /\ state'[c] = "HALTED"
        /\ UNCHANGED <<fCallback, running, draining, CIS, CIM>>
    BY <1>0, <1>10, <1>t DEF MarkHalted
  <2>3. Holds(u, c)'
    BY <1>h, <2>1 DEF Steps
  <2>4. ChannelInv(c)'
    BY <1>0, <2>2, <2>3 DEF ChannelInv
  <2> QED
    BY <1>0, <1>s, <2>1, <2>2, <2>4 DEF HolderInv
<1>11. CASE DisableChannel(u)
  <2>1. step = "disable" /\ To("silence")
    BY <1>11, <1>g DEF DisableChannel, At, Steps
  <2>2. UNCHANGED <<state, fCallback, running, CIS, CIM>>
    BY <1>11 DEF DisableChannel
  <2>3. Holds(u, c)'
    BY <1>h, <2>1 DEF Steps
  <2>4. state[c] # "FREE"
    BY <1>0, <2>1 DEF AllocInv, Holds
  <2>5. ChannelInv(c)'
    BY <1>0, <2>2, <2>3, <2>4 DEF ChannelInv
  <2>6. Still(c)'
    BY <1>11, <2>2 DEF DisableChannel, RequestDisable, Still
  <2> QED
    BY <1>0, <1>s, <2>1, <2>2, <2>5, <2>6 DEF HolderInv
<1>12. CASE Silence(u)
  <2>1. step = "silence" /\ To("over")
    BY <1>12, <1>g DEF Silence, At, Steps
  <2>2. /\ CIS'[c] = {} /\ CIM'[c] = {}
        /\ UNCHANGED <<state, fCallback, running, draining>>
    BY <1>0, <1>12, <1>t DEF Silence
  <2>3. AtRest(c)'
    BY <1>0, <2>1, <2>2 DEF HolderInv, AtRest, Still
  <2>4. ChannelInv(c)'
    BY <1>0, <1>c, <1>h, <2>1, <2>2, <2>3 DEF ChannelInv, Steps
  <2> QED
    BY <1>0, <1>s, <2>1, <2>2, <2>3, <2>4 DEF HolderInv
<1>13. CASE XDMAD_FreeChannel(u)
  <2>1. step = "over" /\ user'[u].step = "out" /\ ~user'[u].provides
    BY <1>13, <1>t DEF XDMAD_FreeChannel, At, Outside, UserType
  <2>2. /\ state'[c] = "FREE"
        /\ UNCHANGED <<running, draining, CIS, CIM>>
    BY <1>0, <1>13, <1>t DEF XDMAD_FreeChannel
  <2>3. AtRest(c) /\ AtRest(c)'
    BY <1>0, <2>1, <2>2 DEF HolderInv, AtRest, Still
  <2>4. ChannelInv(c)'
    BY <1>1, <2>2, <2>3 DEF ChannelInv
  <2>5. HolderInv(u)'
    BY <2>1 DEF HolderInv
  <2> QED
    BY <2>4, <2>5
<1> QED
  BY <1>2, <1>3, <1>4, <1>5, <1>6, <1>7, <1>8, <1>9, <1>10, <1>11, <1>12, <1>13
  DEF OwnStep, HolderStep

\* A user's step calls no callback, and while it makes it nobody handles; a call
\* of the handler that it makes finds channels that are started.
LEMMA OwnStepHandler ==
    ASSUME TypeInv, TransferInv, HandledAlone, NEW u \in Users, OwnStep(u)
    PROVE  HandlerInv' /\ stray' = FALSE
<1>1. /\ stray' = stray /\ UNCHANGED setup
      /\ \E step \in Steps \ {"out"} : At(u, step)
      /\ handler' = handler \/ (XDMAD_IsTransferDone(u) /\ handler' # handler)
  BY DEF OwnStep, HolderStep, XDMAD_SetCallback, XDMAD_PrepareChannel,
         XDMAD_ConfigureTransfer, MarkStarted, EnableChannel, EnableInterrupt,
         XDMAD_IsTransferDone, MarkHalted, DisableChannel, Silence, Claim,
         XDMAD_FreeChannel, At, Steps
<1>2. u \in tasks
  BY <1>1 DEF At, TransferInv, HolderInv
<1>3. \A e \in Users \union {ISR} : handler[e].pc = "idle"
  BY <1>1, <1>2, NobodyHandles
<1>4. pollingMode /\ GIM = {} => GIM' = {}
  <2>1. CASE EnableInterrupt(u)
    <3>1. user[u].step = "unmask"
      BY <2>1 DEF EnableInterrupt, At
    <3> QED
      BY <3>1 DEF TransferInv, HolderInv
  <2>2. CASE ~EnableInterrupt(u)
    BY <2>2
    DEF OwnStep, HolderStep, XDMAD_SetCallback, XDMAD_PrepareChannel,
        XDMAD_ConfigureTransfer, MarkStarted, EnableChannel,
        XDMAD_IsTransferDone, MarkHalted, DisableChannel, Silence, Claim,
        XDMAD_FreeChannel
  <2> QED
    BY <2>1, <2>2
<1>5. CASE handler' = handler
  <2>1. \A e \in Users \union {ISR} : CallInv(e)'
    BY <1>3, <1>5 DEF CallInv
  <2> QED
    BY <1>1, <1>3, <1>4, <1>5, <2>1 DEF TransferInv, HandlerInv
<1>6. CASE XDMAD_IsTransferDone(u) /\ handler' # handler
  <2>1. /\ CallHandler(u) /\ pollingMode /\ user' = user /\ CIS' = CIS /\ CIM' = CIM
    BY <1>6 DEF XDMAD_IsTransferDone
  <2>2. /\ handler'[u].pc = "status" /\ handler'[u].gis = GIS
        /\ \A f \in (Users \union {ISR}) \ {u} : handler'[f].pc = "idle"
    BY <1>3, <1>6, <2>1, CallHandlerType
  <2>3. ASSUME NEW c \in GIS PROVE Started(c)'
    BY <2>1, PendingIsStarted DEF Started, Holds
  <2>4. CallInv(u)'
    BY <2>2, <2>3 DEF CallInv
  <2>5. \A f \in (Users \union {ISR}) \ {u} : CallInv(f)'
    BY <2>2 DEF CallInv
  <2>6. ISR # u
    BY MarkersAssumption
  <2> QED
    BY <1>1, <1>2, <1>4, <2>1, <2>2, <2>4, <2>5, <2>6 DEF TransferInv, HandlerInv
<1> QED
  BY <1>1, <1>5, <1>6

-----------------------------------------------------------------------------
(* XDMAD_Handler.                                                          *)

\* The handler clears the status of a channel, and marks it only if it is started
\* and has stopped.
LEMMA HandledChannel ==
    ASSUME TypeInv, AllocInv, TransferInv, NEW c \in Channels, Started(c),
           CIS' = CIS \/ CIS' = [CIS EXCEPT ![c] = {}],
           \/ state' = state
           \/ state' = [state EXCEPT ![c] = "DONE"] /\ c \notin running /\ CIS'[c] = {},
           UNCHANGED <<setup, fCallback, running, draining, CIM, user>>
    PROVE  /\ \A d \in Channels : ChannelInv(d)'
           /\ \A u \in Users : HolderInv(u)'
<1>1. PICK h \in Users : Holds(h, c) /\ user[h].step \notin RestingSteps
  BY DEF Started
<1>2. /\ CIS'[c] \in {CIS[c], {}} /\ state'[c] \in {state[c], "DONE"}
      /\ state'[c] = state[c] \/ (c \notin running /\ CIS'[c] = {})
  BY DEF TypeInv, TypeOK
<1>3. /\ \A d \in Channels \ {c} : ChannelInv(d)'
      /\ \A v \in Users \ {h} : HolderInv(v)'
  <2>1. \A d \in Channels \ {c} : UnchangedAt(d)
    BY DEF UnchangedAt, TypeInv, TypeOK
  <2>2. \A v \in Users \ {h} : ~Holds(v, c)
    BY <1>1 DEF AllocInv, OneHolder
  <2>3. \A d \in Channels : Holds(h, d) => Holds(h, d)'
    BY DEF Holds
  <2> QED
    BY <2>1, <2>2, <2>3, Elsewhere
<1>4. c = Mine(h) /\ ChannelInv(c) /\ HolderInv(h) /\ c = Mine(h)'
  BY <1>1 DEF Holds, Mine, TransferInv
<1>5. AtRest(c) => AtRest(c)'
  BY <1>2 DEF AtRest, Still
<1>6. Holds(h, c)' /\ user' = user
  BY <1>1 DEF Holds
<1>7. ChannelInv(c)'
  BY <1>2, <1>4, <1>5, <1>6 DEF ChannelInv
<1>8. HolderInv(h)'
  BY <1>1, <1>2, <1>4 DEF HolderInv, RestingSteps, Still, Mine
<1> QED
  BY <1>3, <1>7, <1>8

\* A step that leaves all channels and users alone.
LEMMA AllKept ==
    ASSUME TypeInv, TransferInv, UNCHANGED setup, user' = user,
           \A c \in Channels : UnchangedAt(c)
    PROVE  /\ \A c \in Channels : ChannelInv(c)'
           /\ \A u \in Users : HolderInv(u)'
<1>1. ASSUME NEW c \in Channels PROVE ChannelInv(c)'
  BY <1>1, ChannelKept DEF TransferInv, Holds
<1>2. ASSUME NEW u \in Users PROVE HolderInv(u)'
  BY <1>2, HolderKept, MineType DEF TransferInv, TypeInv
<1> QED
  BY <1>1, <1>2

\* Other calls of the handler stay as they are if no more channels run and the
\* status of those at rest stays clear.
LEMMA CallKept ==
    ASSUME NEW e \in Users \union {ISR}, CallInv(e), handler'[e] = handler[e],
           user' = user, running' \subseteq running,
           Channel(e) \notin running /\ CIS[Channel(e)] = {} => CIS'[Channel(e)] = {}
    PROVE  CallInv(e)'
<1>1. Channel(e)' = Channel(e)
  BY DEF Channel
<1>2. \A c : Started(c)' <=> Started(c)
  BY DEF Started, Holds
<1> QED
  BY <1>1, <1>2 DEF CallInv

\* A step of the handler keeps the calls that are under way in order.
LEMMA HandlerKept ==
    ASSUME TypeInv, TransferInv, NEW e \in Users \union {ISR}, handler[e].pc # "idle",
           UNCHANGED <<setup, running, GIM, user>>,
           CIS' = CIS \/ CIS' = [CIS EXCEPT ![Channel(e)] = {}],
           \A f \in (Users \union {ISR}) \ {e} : handler'[f] = handler[f],
           CallInv(e)'
    PROVE  HandlerInv'
<1>1. ASSUME NEW f \in (Users \union {ISR}) \ {e} PROVE CallInv(f)'
  <2>1. CallInv(f) /\ handler'[f] = handler[f]
    BY DEF TransferInv, HandlerInv
  <2>2. CASE handler[f].pc = "idle"
    BY <2>1, <2>2 DEF CallInv
  <2>3. CASE handler[f].pc # "idle"
    <3>1. Channel(f) \in Channels
      BY <2>3, AtPending
    <3>2. CIS[Channel(f)] = {} => CIS'[Channel(f)] = {}
      BY <3>1 DEF TypeInv, TypeOK
    <3> QED
      BY <2>1, <3>2, CallKept
  <2> QED
    BY <2>2, <2>3
<1>2. pollingMode' => GIM' = {} /\ handler'[ISR].pc = "idle"
  BY DEF TransferInv, HandlerInv
<1>3. ASSUME NEW u \in Users, handler'[u].pc # "idle"
      PROVE  pollingMode' /\ u \in tasks'
  BY <1>3 DEF TransferInv, HandlerInv
<1> QED
  BY <1>1, <1>2, <1>3 DEF HandlerInv

\* A call goes on at the same channel, to others of its own, or ends.
LEMMA CallGoesOn ==
    ASSUME TypeInv, TransferInv, NEW e \in Users \union {ISR}, handler[e].pc # "idle",
           UNCHANGED <<running, user>>,
           \/ handler'[e].pc = "idle"
           \/ /\ handler'[e].pc \in {"channels", "channel", "callback"}
              /\ handler'[e].gis \subseteq handler[e].gis
              /\ running \cap handler'[e].gis \subseteq handler'[e].gs
           \/ /\ handler'[e].pc \in {"mask", "list", "done"}
              /\ handler'[e].gis = handler[e].gis
              /\ running \cap handler'[e].gis \subseteq handler'[e].gs
              /\ Channel(e) \notin running /\ CIS'[Channel(e)] = {}
    PROVE  CallInv(e)'
<1>1. handler'[e].pc # "idle" => \A c \in handler'[e].gis : Started(c)
  BY DEF TransferInv, HandlerInv, CallInv
<1>2. \A c : Started(c)' <=> Started(c)
  BY DEF Started, Holds
<1>3. handler'[e].gis = handler[e].gis => Channel(e)' = Channel(e)
  BY DEF Channel
<1> QED
  BY <1>1, <1>2, <1>3 DEF CallInv

\* The handler keeps the invariant.
LEMMA HandleTransfer ==
    ASSUME TypeInv, AllocInv, TransferInv, NEW e \in Users \union {ISR}, Handle(e)
    PROVE  TransferInv'
<1> DEFINE c == Channel(e)
<1>0. /\ handler[e].pc # "idle" /\ CallInv(e)
      /\ UNCHANGED <<setup, fCallback, xdmad_lock, running, draining, CIM, GIM, user>>
  BY DEF Handle, Handling, HandlerOnly, ClearStatus, ReadGlobalStatus, CheckFree,
         ReadStatus, ReadMask, ReadListMask, MarkDone, CallBack, TransferInv, HandlerInv
<1>1. c \in handler[e].gis /\ c \in Channels /\ Started(c)
  BY <1>0, AtPending DEF CallInv
<1>2. handler[e].pc # "status" => running \cap handler[e].gis \subseteq handler[e].gs
  BY <1>0 DEF CallInv
<1>p. handler[e].seen \in SUBSET Flags /\ CIS[c] \in SUBSET Flags
  <2>1. handler[e] \in HandlerType
    BY DEF TypeInv, TypeOK, HandlerType
  <2> QED
    BY <1>1, <2>1 DEF HandlerType, TypeInv, TypeOK
<1>3. ASSUME \A f \in (Users \union {ISR}) \ {e} : handler'[f] = handler[f], CallInv(e)',
             stray' = FALSE,
             CIS' = CIS \/ CIS' = [CIS EXCEPT ![c] = {}],
             \/ state' = state
             \/ state' = [state EXCEPT ![c] = "DONE"] /\ c \notin running /\ CIS'[c] = {}
      PROVE  TransferInv'
  <2>1. (\A d \in Channels : ChannelInv(d)') /\ (\A u \in Users : HolderInv(u)')
    BY <1>0, <1>1, <1>3, HandledChannel
  <2>2. HandlerInv'
    BY <1>0, <1>3, HandlerKept
  <2> QED
    BY <1>3, <2>1, <2>2 DEF TransferInv
<1>4. stray = FALSE
  BY DEF TransferInv
<1>5. ASSUME handler' = Following(e), handler[e].pc # "status"
      PROVE  /\ \A f \in (Users \union {ISR}) \ {e} : handler'[f] = handler[f]
             /\ CallInv(e)'
  <2>1. \/ handler'[e].pc = "idle"
        \/ /\ handler'[e].pc = "channels"
           /\ handler'[e].gis \subseteq handler[e].gis
           /\ running \cap handler'[e].gis \subseteq handler'[e].gs
    BY <1>2, <1>5, FollowingType
  <2>2. CallInv(e)'
    BY <1>0, <2>1, CallGoesOn
  <2> QED
    BY <1>5, <2>2, FollowingType
<1>6. ASSUME NEW pc \in {"channel", "callback"}, NEW seen \in SUBSET Flags,
             handler' = Moved(e, pc, seen), handler[e].pc # "status"
      PROVE  /\ \A f \in (Users \union {ISR}) \ {e} : handler'[f] = handler[f]
             /\ CallInv(e)'
  <2>1. pc \in HandlerSteps
    BY DEF HandlerSteps
  <2>2. /\ \A f \in (Users \union {ISR}) \ {e} : handler'[f] = handler[f]
        /\ handler'[e].pc = pc
        /\ handler'[e].gis = handler[e].gis /\ handler'[e].gs = handler[e].gs
    BY <1>0, <1>6, <2>1, MovedType
  <2>3. CallInv(e)'
    BY <1>0, <1>2, <1>6, <2>2, CallGoesOn
  <2> QED
    BY <2>2, <2>3
<1>7. ASSUME NEW pc \in {"mask", "list", "done"}, NEW seen \in SUBSET Flags,
             handler' = Moved(e, pc, seen), handler[e].pc # "status",
             c \notin running, CIS'[c] = {}
      PROVE  /\ \A f \in (Users \union {ISR}) \ {e} : handler'[f] = handler[f]
             /\ CallInv(e)'
  <2>1. pc \in HandlerSteps
    BY DEF HandlerSteps
  <2>2. /\ \A f \in (Users \union {ISR}) \ {e} : handler'[f] = handler[f]
        /\ handler'[e].pc = pc
        /\ handler'[e].gis = handler[e].gis /\ handler'[e].gs = handler[e].gs
    BY <1>0, <1>7, <2>1, MovedType
  <2>3. CallInv(e)'
    BY <1>0, <1>2, <1>7, <2>2, CallGoesOn
  <2> QED
    BY <2>2, <2>3
<1>8. ASSUME NEW ends \in SUBSET Flags, handler' = Decide(e, ends),
             handler[e].pc # "status", c \notin running, CIS'[c] = {}
      PROVE  /\ \A f \in (Users \union {ISR}) \ {e} : handler'[f] = handler[f]
             /\ CallInv(e)'
  BY <1>5, <1>7, <1>8 DEF Decide
<1> HIDE DEF c
<1>9. CASE ReadGlobalStatus(e)
  <2>1. UNCHANGED HandlerOnly
    BY <1>9 DEF ReadGlobalStatus
  <2>2. /\ \A f \in (Users \union {ISR}) \ {e} : handler'[f] = handler[f]
        /\ handler'[e].pc = "channels" /\ handler'[e].gis = handler[e].gis
        /\ handler'[e].gs = running \cap handler[e].gis
    <3> DEFINE read == [handler[e] EXCEPT !.pc = "channels",
                                          !.gs = running \cap handler[e].gis]
    <3>1. handler \in [Users \union {ISR} -> HandlerType]
      BY DEF TypeInv, TypeOK, HandlerType
    <3>2. /\ read.pc = "channels" /\ read.gis = handler[e].gis
          /\ read.gs = running \cap handler[e].gis
      BY <3>1 DEF HandlerType
    <3>3. handler' = [handler EXCEPT ![e] = read]
      BY <1>9 DEF ReadGlobalStatus
    <3> HIDE DEF read
    <3> QED
      BY <3>1, <3>2, <3>3
  <2>3. CallInv(e)'
    BY <1>0, <2>2, CallGoesOn
  <2> QED
    BY <1>3, <1>4, <2>1, <2>2, <2>3 DEF HandlerOnly
<1>10. CASE CheckFree(e)
  <2>1. handler[e].pc = "channels" /\ UNCHANGED HandlerOnly
    BY <1>10 DEF CheckFree, Handling
  <2>2. /\ \A f \in (Users \union {ISR}) \ {e} : handler'[f] = handler[f]
        /\ CallInv(e)'
    <3>1. CASE handler' = [handler EXCEPT ![e] = NotCalled]
      BY <3>1, EndedType DEF CallInv
    <3>2. CASE handler' = Moved(e, "channel", {})
      BY <1>6, <2>1, <3>2
    <3> QED
      BY <1>10, <3>1, <3>2 DEF CheckFree
  <2> QED
    BY <1>3, <1>4, <2>1, <2>2 DEF HandlerOnly
<1>11. CASE ReadStatus(e)
  <2>1. /\ handler[e].pc = "channel" /\ state' = state /\ stray' = stray
        /\ CIS' = [CIS EXCEPT ![c] = {}] /\ CIS'[c] = {}
    BY <1>1, <1>11 DEF ReadStatus, Handling, ClearStatus, TypeInv, TypeOK, c
  <2>2. /\ \A f \in (Users \union {ISR}) \ {e} : handler'[f] = handler[f]
        /\ CallInv(e)'
    <3>1. CASE c \notin handler[e].gs /\ handler' = Moved(e, "mask", CIS[c])
      <4>1. c \notin running
        BY <1>1, <1>2, <2>1, <3>1
      <4> QED
        BY <1>7, <1>p, <2>1, <3>1, <4>1
    <3>2. CASE handler' = Moved(e, "callback", {})
      BY <1>6, <2>1, <3>2
    <3>3. CASE handler' = Following(e)
      BY <1>5, <2>1, <3>3
    <3> QED
      BY <1>11, <3>1, <3>2, <3>3 DEF ReadStatus, c
  <2> QED
    BY <1>3, <1>4, <2>1, <2>2
<1>12. CASE ReadMask(e)
  <2>1. /\ handler[e].pc = "mask" /\ UNCHANGED HandlerOnly
        /\ c \notin running /\ CIS'[c] = {}
    BY <1>0, <1>12 DEF ReadMask, Handling, HandlerOnly, CallInv, c
  <2>2. handler[e].seen \cap CIM[c] \in SUBSET Flags
    BY <1>p
  <2>3. /\ \A f \in (Users \union {ISR}) \ {e} : handler'[f] = handler[f]
        /\ CallInv(e)'
    <3>1. CASE handler' = Moved(e, "list", handler[e].seen \cap CIM[c])
      BY <1>7, <2>1, <2>2, <3>1
    <3>2. CASE handler' = Decide(e, handler[e].seen \cap CIM[c])
      BY <1>8, <2>1, <2>2, <3>2
    <3> QED
      BY <1>12, <3>1, <3>2 DEF ReadMask, c
  <2> QED
    BY <1>3, <1>4, <2>1, <2>3 DEF HandlerOnly
<1>13. CASE ReadListMask(e)
  <2>1. /\ handler[e].pc = "list" /\ UNCHANGED HandlerOnly
        /\ c \notin running /\ CIS'[c] = {}
    BY <1>0, <1>13 DEF ReadListMask, Handling, HandlerOnly, CallInv, c
  <2>2. \E ends \in SUBSET Flags : handler' = Decide(e, ends)
    <3>1. handler[e].seen \ {"BIS"} \in SUBSET Flags
      BY <1>p
    <3> QED
      BY <1>13, <1>p, <3>1 DEF ReadListMask
  <2> QED
    BY <1>3, <1>4, <1>8, <2>1, <2>2 DEF HandlerOnly
<1>14. CASE MarkDone(e)
  <2>1. /\ handler[e].pc = "done" /\ state' = [state EXCEPT ![c] = "DONE"]
        /\ CIS' = CIS /\ stray' = stray
        /\ c \notin running /\ CIS'[c] = {}
    BY <1>0, <1>14 DEF MarkDone, Handling, CallInv, c
  <2>2. /\ \A f \in (Users \union {ISR}) \ {e} : handler'[f] = handler[f]
        /\ CallInv(e)'
    <3>1. PICK flag \in handler[e].seen :
             handler' = Moved(e, IF handler[e].seen \ {flag} = {} THEN "callback"
                                 ELSE "done", handler[e].seen \ {flag})
      BY <1>14 DEF MarkDone
    <3>2. handler[e].seen \ {flag} \in SUBSET Flags
      BY <1>p
    <3>3. CASE handler[e].seen \ {flag} = {}
      <4>1. handler' = Moved(e, "callback", handler[e].seen \ {flag})
        BY <3>1, <3>3
      <4> QED
        BY <1>6, <2>1, <3>2, <4>1
    <3>4. CASE handler[e].seen \ {flag} # {}
      <4>1. handler' = Moved(e, "done", handler[e].seen \ {flag})
        BY <3>1, <3>4
      <4> QED
        BY <1>7, <2>1, <3>2, <4>1
    <3> QED
      BY <3>3, <3>4
  <2> QED
    BY <1>3, <1>4, <2>1, <2>2
<1>15. CASE CallBack(e)
  <2>1. handler[e].pc = "callback" /\ handler' = Following(e)
        /\ UNCHANGED <<state, CIS>>
    BY <1>15 DEF CallBack, Handling
  <2>2. fCallback[c] # NULL => Expects(c, fCallback[c])
    <3>1. PICK u \in Users : Holds(u, c)
      BY <1>1 DEF Started
    <3>2. user[u].provides => fCallback[c] = u
      BY <3>1 DEF TransferInv, HolderInv, Holds, Mine
    <3> QED
      BY <3>1, <3>2 DEF Expects
  <2>3. stray' = FALSE
    BY <1>4, <1>15, <2>2 DEF CallBack, c
  <2> QED
    BY <1>3, <1>5, <2>1, <2>3
<1> QED
  BY <1>9, <1>10, <1>11, <1>12, <1>13, <1>14, <1>15 DEF Handle

-----------------------------------------------------------------------------
(* The controller.                                                         *)

\* The controller changes the status only of channels that are enabled, and those
\* the handler takes for stopped are not.
LEMMA ControllerHandler ==
    ASSUME TypeInv, TransferInv, NEW c \in running,
           UNCHANGED <<setup, GIM, user, handler>>,
           running' \subseteq running,
           \A d \in Channels \ {c} : CIS'[d] = CIS[d]
    PROVE  HandlerInv'
<1>1. ASSUME NEW e \in Users \union {ISR} PROVE CallInv(e)'
  <2>1. CallInv(e)
    BY DEF TransferInv, HandlerInv
  <2>2. CASE handler[e].pc = "idle"
    BY <2>2 DEF CallInv
  <2>3. CASE handler[e].pc # "idle"
    <3>1. Channel(e) \in Channels
      BY <2>3, AtPending
    <3> QED
      BY <2>1, <3>1, CallKept
  <2> QED
    BY <2>2, <2>3
<1> QED
  BY <1>1 DEF TransferInv, HandlerInv

\* A block ends only in a transfer that its holder has started.
LEMMA EndBlockTransfer ==
    ASSUME TypeInv, AllocInv, TransferInv, NEW c \in Channels, EndBlock(c)
    PROVE  TransferInv'
<1>1. c \in running /\ c \notin draining /\ ~Still(c) /\ ~AtRest(c)
  BY DEF EndBlock, AtRest, Still
<1>2. state[c] # "FREE" /\ state[c] # "DONE" /\ "DIS" \notin CIM[c]
  BY <1>1 DEF TransferInv, ChannelInv
<1>3. PICK h \in Users : Holds(h, c)
  BY <1>2 DEF TransferInv, ChannelInv
<1>4. c = Mine(h) /\ c = Mine(h)' /\ HolderInv(h) /\ Holds(h, c)'
  BY <1>3 DEF Holds, Mine, TransferInv, EndBlock
<1>5. user[h].step \notin RestingSteps /\ user[h].step # "silence"
  BY <1>1, <1>4 DEF HolderInv
<1>6. /\ UNCHANGED <<setup, state, fCallback, draining, CIM, GIM, user, handler, stray>>
      /\ running' \subseteq running
  BY DEF EndBlock
<1>7. \A d \in Channels \ {c} : UnchangedAt(d)
  BY DEF EndBlock, UnchangedAt, TypeInv, TypeOK
<1>8. /\ \A d \in Channels \ {c} : ChannelInv(d)'
      /\ \A v \in Users \ {h} : HolderInv(v)'
  <2>1. \A v \in Users \ {h} : ~Holds(v, c)
    BY <1>3 DEF AllocInv, OneHolder
  <2>2. \A d \in Channels : Holds(h, d) => Holds(h, d)'
    BY <1>6 DEF Holds
  <2> QED
    BY <1>6, <1>7, <2>1, <2>2, Elsewhere
<1>9. ChannelInv(c)'
  BY <1>2, <1>4, <1>6 DEF ChannelInv
<1>10. HolderInv(h)'
  BY <1>4, <1>5, <1>6 DEF HolderInv, RestingSteps
<1>11. HandlerInv'
  BY <1>1, <1>6, <1>7, ControllerHandler DEF UnchangedAt
<1> QED
  BY <1>6, <1>8, <1>9, <1>10, <1>11 DEF TransferInv

\* The end of a channel that is asked to stop raises a flag that is masked.
LEMMA EndDisableTransfer ==
    ASSUME TypeInv, TransferInv, NEW c \in Channels, EndDisable(c)
    PROVE  TransferInv'
<1>1. /\ UNCHANGED <<setup, state, fCallback, CIM, GIM, user, handler, stray>>
      /\ c \in running /\ running' = running \ {c} /\ draining' = draining \ {c}
      /\ \A d \in Channels : CIS'[d] = IF d = c THEN CIS[c] \union {"DIS"} ELSE CIS[d]
  BY DEF EndDisable, TypeInv, TypeOK
<1>2. ASSUME NEW d \in Channels
      PROVE  /\ Still(d) => Still(d)'
             /\ AtRest(d) => AtRest(d)'
  BY <1>1 DEF Still, AtRest
<1>3. ASSUME NEW d \in Channels PROVE ChannelInv(d)'
  <2>1. ChannelInv(d)
    BY DEF TransferInv
  <2>2. d = c => state[d] # "DONE"
    BY <1>1, <2>1 DEF ChannelInv
  <2>3. \A u \in Users : Holds(u, d)' <=> Holds(u, d)
    BY <1>1 DEF Holds
  <2> QED
    BY <1>1, <1>2, <2>1, <2>2, <2>3 DEF ChannelInv
<1>4. ASSUME NEW u \in Users PROVE HolderInv(u)'
  <2>1. HolderInv(u) /\ Mine(u) \in Channels /\ Mine(u)' = Mine(u)
    BY <1>1, MineType DEF TransferInv, TypeInv, Mine
  <2> QED
    BY <1>1, <1>2, <2>1 DEF HolderInv, Mine
<1>5. HandlerInv'
  BY <1>1, ControllerHandler
<1> QED
  BY <1>1, <1>3, <1>4, <1>5 DEF TransferInv

-----------------------------------------------------------------------------
(* The theorems.                                                           *)

\* Who handles is decided when the driver is initialized.
LEMMA SetupIsKept ==
    ASSUME [Next]_vars
    PROVE  UNCHANGED setup
<1>1. ASSUME NEW u \in Users, UserStep(u) PROVE UNCHANGED setup
  BY <1>1
  DEF UserStep, CompleteCall, ObtainLock, FindFree, Claim, XDMAD_SetCallback,
      XDMAD_PrepareChannel, XDMAD_ConfigureTransfer, MarkStarted, EnableChannel,
      EnableInterrupt, XDMAD_IsTransferDone, MarkHalted, DisableChannel, Silence,
      XDMAD_FreeChannel
<1>2. ASSUME NEW e \in Users \union {ISR}, Handle(e) PROVE UNCHANGED setup
  BY <1>2 DEF Handle, HandlerOnly, ClearStatus, ReadGlobalStatus, CheckFree, ReadStatus,
              ReadMask, ReadListMask, MarkDone, CallBack
<1> QED
  BY <1>1, <1>2 DEF Next, Interrupt, EndBlock, EndDisable, vars

\* The invariant holds whatever users, controller and handler do.
LEMMA TransferInvariant ==
    UnmaskedWithCare => (Spec => [](HandledAlone => TransferInv))
<1> SUFFICES ASSUME UnmaskedWithCare PROVE Spec => [](HandledAlone => TransferInv)
  OBVIOUS
<1>1. Init => TransferInv
  <2> SUFFICES ASSUME Init PROVE TransferInv
    OBVIOUS
  <2>1. \A c \in Channels : ChannelInv(c)
    BY DEF Init, ChannelInv, AtRest, Still
  <2>2. \A u \in Users : HolderInv(u)
    BY HolderOfNone DEF Init, Outside
  <2>3. HandlerInv /\ stray = FALSE
    BY DEF Init, HandlerInv, CallInv, NotCalled
  <2> QED
    BY <2>1, <2>2, <2>3 DEF TransferInv
<1>2. TypeInv /\ AllocInv /\ (HandledAlone => TransferInv) /\ [Next]_vars
         => (HandledAlone => TransferInv)'
  <2> SUFFICES ASSUME TypeInv, AllocInv, HandledAlone => TransferInv, [Next]_vars,
                      HandledAlone'
               PROVE  TransferInv'
    OBVIOUS
  <2>0. UNCHANGED setup /\ HandledAlone /\ TransferInv
    BY SetupIsKept DEF HandledAlone
  <2>1. ASSUME NEW u \in Users, OwnStep(u) PROVE TransferInv'
    <3>1. Mine(u) \in Channels
      BY MineType DEF TypeInv
    <3>2. PICK c \in Channels : c = Mine(u)
      BY <3>1
    <3>3. ChannelInv(c)' /\ HolderInv(u)'
      BY <2>0, <2>1, <3>2, OwnStepOwn
    <3>4. /\ \A d \in Channels \ {c} : ChannelInv(d)'
          /\ \A v \in Users \ {u} : HolderInv(v)'
      BY <2>0, <2>1, <3>2, OwnStepElsewhere
    <3>5. HandlerInv' /\ stray' = FALSE
      BY <2>0, <2>1, OwnStepHandler
    <3> QED
      BY <3>3, <3>4, <3>5 DEF TransferInv
  <2>2. ASSUME NEW u \in Users, ObtainLock(u) \/ FindFree(u) PROVE TransferInv'
    <3>1. UNCHANGED <<driver, controller, handler, stray>>
      BY <2>2 DEF ObtainLock, FindFree
    <3>2. /\ user[u].step \in {"out", "scan"} /\ u \in tasks
          /\ \E step \in Steps : At(u, step)
          /\ HolderInv(u)
      BY <2>0, <2>2 DEF ObtainLock, FindFree, At, Steps, TransferInv, HolderInv
    <3>3. /\ user'[u].step \in {"out", "scan", "claim"} /\ ~user'[u].provides
          /\ \A v \in Users \ {u} : user'[v] = user[v]
      <4>1. ~user[u].provides
        BY <3>2 DEF HolderInv
      <4>2. \/ \E step \in {"out", "scan"} : Goto(u, step)
            \/ \E c \in Channels : Found(u, c)
        BY <2>2 DEF ObtainLock, FindFree, NoneFree
      <4> QED
        BY <4>1, <4>2 DEF Found, Goto, TypeInv, TypeOK
    <3>4. ASSUME NEW c \in Channels PROVE ChannelInv(c)'
      <4>1. \A v \in Users : Holds(v, c) => Holds(v, c)'
        BY <3>2, <3>3 DEF Holds
      <4> QED
        BY <2>0, <3>1, <4>1, ChannelKept DEF UnchangedAt, TransferInv
    <3>5. HolderInv(u)'
      BY <3>1, <3>2, <3>3 DEF HolderInv, RestingSteps
    <3>6. ASSUME NEW v \in Users \ {u} PROVE HolderInv(v)'
      BY <2>0, <3>1, <3>3, HolderKept DEF UnchangedAt, TransferInv
    <3>7. HandlerInv'
      <4>1. \A e \in Users \union {ISR} : handler[e].pc = "idle"
        BY <2>0, <3>2, NobodyHandles
      <4> QED
        BY <2>0, <3>1, <4>1 DEF TransferInv, HandlerInv, CallInv
    <3> QED
      BY <2>0, <3>1, <3>4, <3>5, <3>6, <3>7 DEF TransferInv
  <2>3. CASE Interrupt
    <3>1. UNCHANGED <<driver, controller, user, stray>> /\ ~pollingMode
      BY <2>0, <2>3 DEF Interrupt, TransferInv, HandlerInv
    <3>2. CallHandler(ISR)
      BY <2>3 DEF Interrupt
    <3>3. \A u \in Users : handler'[u] = handler[u]
      BY <3>2, CallHandlerType, MarkersAssumption
    <3>4. CallInv(ISR)'
      <4>1. CASE handler' = handler
        BY <2>0, <3>1, <4>1 DEF TransferInv, HandlerInv, CallInv, Channel, Started, Holds
      <4>2. CASE handler'[ISR].pc = "status" /\ handler'[ISR].gis = GIS
        <5>1. \A c \in GIS : Started(c)'
          BY <2>0, <3>1, PendingIsStarted DEF Started, Holds
        <5> QED
          BY <4>2, <5>1 DEF CallInv
      <4> QED
        BY <3>2, <4>1, <4>2, CallHandlerType
    <3>5. \A u \in Users : CallInv(u)'
      BY <2>0, <3>1, <3>3 DEF TransferInv, HandlerInv, CallInv
    <3>6. HandlerInv'
      BY <2>0, <3>1, <3>3, <3>4, <3>5 DEF TransferInv, HandlerInv
    <3>7. (\A c \in Channels : ChannelInv(c)') /\ (\A u \in Users : HolderInv(u)')
      BY <2>0, <3>1, AllKept DEF UnchangedAt
    <3> QED
      BY <2>0, <3>1, <3>6, <3>7 DEF TransferInv
  <2>4. ASSUME NEW e \in Users \union {ISR}, Handle(e) PROVE TransferInv'
    BY <2>0, <2>4, HandleTransfer
  <2>5. ASSUME NEW c \in Channels, EndBlock(c) \/ EndDisable(c) PROVE TransferInv'
    BY <2>0, <2>5, EndBlockTransfer, EndDisableTransfer
  <2>6. CASE UNCHANGED vars
    <3>1. (\A c \in Channels : ChannelInv(c)') /\ (\A u \in Users : HolderInv(u)')
      BY <2>0, <2>6, AllKept DEF UnchangedAt, vars
    <3>2. HandlerInv'
      BY <2>0, <2>6 DEF TransferInv, HandlerInv, CallInv, Channel, Started, Holds, vars
    <3> QED
      BY <2>0, <2>6, <3>1, <3>2 DEF TransferInv, vars
  <2> QED
    BY <2>1, <2>2, <2>3, <2>4, <2>5, <2>6
    DEF Next, UserStep, CompleteCall, OwnStep, HolderStep
<1> QED
  BY <1>1, <1>2, TypeInvariant, AllocInvariant, PTL DEF Spec

\* In the interrupt or in a single task that polls, a transfer is reported done
\* only if its channel has come to rest.
THEOREM DoneMeansIdleCorrect == UnmaskedWithCare => (Spec => []DoneMeansIdle)
<1> SUFFICES ASSUME UnmaskedWithCare PROVE Spec => []DoneMeansIdle
  OBVIOUS
<1>1. (HandledAlone => TransferInv) => DoneMeansIdle
  BY DEF TransferInv, ChannelInv, DoneMeansIdle, ReportedDoneIsIdle
<1> QED
  BY <1>1, TransferInvariant, PTL

\* In the interrupt or in a single task that polls, a channel that is free has
\* nothing pending, so XDMAD_Handler may stop its loop at the first free channel.
THEOREM FreeChannelsAreQuietCorrect ==
    UnmaskedWithCare => (Spec => []FreeChannelsAreQuiet)
<1> SUFFICES ASSUME UnmaskedWithCare PROVE Spec => []FreeChannelsAreQuiet
  OBVIOUS
<1>1. (HandledAlone => TransferInv) => FreeChannelsAreQuiet
  BY AtRestIsQuiet DEF TransferInv, ChannelInv, FreeChannelsAreQuiet, GIS
<1> QED
  BY <1>1, TransferInvariant, PTL

\* In the interrupt or in a single task that polls, a callback is called only
\* for a channel that is held, and its holder's if that has provided one.
THEOREM CallbackIsHoldersCorrect == UnmaskedWithCare => (Spec => []CallbackIsHolders)
<1> SUFFICES ASSUME UnmaskedWithCare PROVE Spec => []CallbackIsHolders
  OBVIOUS
<1>1. (HandledAlone => TransferInv) => CallbackIsHolders
  BY DEF TransferInv, CallbackIsHolders
<1> QED
  BY <1>1, TransferInvariant, PTL
=============================================================================
