---------------------------- MODULE RequestQueue ----------------------------
(***************************************************************************)
(* Requests on their way to one thread of the runtime: tasks that call     *)
(* ThreadsCommon_SendRequest, the cyclic timer that sends from the clock   *)
(* interrupt, the thread that takes requests from the queue, and the       *)
(* monitor's record of how full the queue has been.                        *)
(*                                                                         *)
(* One processor core: a task runs only while every task of a higher       *)
(* priority is idle (a sender between two calls, the thread waiting for a  *)
(* request or suspended in Hal_SleepNs or on a semaphore by the user's     *)
(* function); the interrupt preempts every task.                           *)
(***************************************************************************)
EXTENDS Naturals

CONSTANTS
    Senders,         \* the sending tasks, named by priority
    ThreadPriority,  \* the priority of the receiving thread
    Capacity,        \* the length of the thread's message queue
    Timers,          \* is a cyclic request attached to the queue?
    MaxSends,        \* bound: the requests sent by each sender
    MaxTicks,        \* bound: the requests sent by the timer
    Callbacks,       \* what the application passes to SetCallback, NULL to take
                     \* its callback back
    NULL, UINT32_MAX

ASSUME PrioritiesAssumption ==
    Senders \subseteq Nat /\ ThreadPriority \in Nat \ Senders
ASSUME BoundsAssumption ==
    Capacity \in Nat \ {0} /\ MaxSends \in Nat /\ MaxTicks \in Nat
ASSUME MarkersAssumption == Timers \in BOOLEAN /\ UINT32_MAX \notin Nat

VARIABLES
    mapped,     \* does interface_to_queue_map name the queue?
    pending,    \* the number of requests in the queue
    thread,     \* the receiving thread: about to receive, waiting for a
                \* request, working on one, or suspended while it does
    maximum_queued_items,
    Monitor_MessageQueueOverflowCallback,
    pc,         \* where each sender is in ThreadsCommon_SendRequest, "fault"
                \* once it has called a null pointer
    result,     \* what the kernel answered to its send
    queued_items_count,
    answer,     \* what its last call returned
    sends, ticks,
    peak,       \* history: the most requests the queue has held
    dropped,    \* history: the number of requests dropped, see fate
    reported,   \* history: the requests reported to the overflow callback
    fate,       \* history: what became of each sender's last request; "dropped"
                \* is one that found the queue full while there was a callback
                \* to tell, other losses are "lost"
    takenBack,  \* history: the callback was taken back between a drop and its
                \* report
    overtaken   \* history: the queue changed behind the back of a call, or by
                \* the timer, which counts nothing

monitor == <<maximum_queued_items, Monitor_MessageQueueOverflowCallback>>
locals == <<result, queued_items_count>>
history == <<dropped, reported, fate, takenBack, overtaken>>
bounds == <<sends, ticks>>
vars == <<mapped, pending, thread, monitor, pc, locals, answer, bounds, peak,
          history>>

Counts == 0..Capacity

TypeOK ==
    /\ mapped \in BOOLEAN
    /\ pending \in Counts
    /\ thread \in {"receiving", "waiting", "working", "suspended"}
    /\ maximum_queued_items \in Counts
    /\ Monitor_MessageQueueOverflowCallback \in Callbacks \union {NULL}
    /\ pc \in [Senders -> {"idle", "count", "compare", "store", "test", "call",
                           "fault"}]
    /\ result \in [Senders -> {"SUCCESSFUL", "TOO_MANY", "INVALID"}]
    /\ queued_items_count \in [Senders -> Counts \union {UINT32_MAX}]
    /\ answer \in [Senders -> BOOLEAN]
    /\ sends \in [Senders -> 0..MaxSends]
    /\ ticks \in 0..MaxTicks
    /\ peak \in Counts
    /\ dropped \in Nat /\ reported \in Nat
    /\ fate \in [Senders -> {"none", "queued", "reported", "lost", "dropped"}]
    /\ takenBack \in BOOLEAN
    /\ overtaken \in BOOLEAN

Init ==
    /\ mapped \in BOOLEAN
    /\ pending = 0
    /\ thread = "receiving"
    /\ maximum_queued_items = 0
    /\ Monitor_MessageQueueOverflowCallback = NULL
    /\ pc = [s \in Senders |-> "idle"]
    /\ result = [s \in Senders |-> "SUCCESSFUL"]
    /\ queued_items_count = [s \in Senders |-> 0]
    /\ answer = [s \in Senders |-> TRUE]
    /\ sends = [s \in Senders |-> 0]
    /\ ticks = 0
    /\ peak = 0
    /\ dropped = 0 /\ reported = 0
    /\ fate = [s \in Senders |-> "none"]
    /\ takenBack = FALSE
    /\ overtaken = FALSE

-----------------------------------------------------------------------------
(* Who may run.                                                            *)
ThreadReady == thread \in {"receiving", "working"}
SenderBusy(s) == pc[s] # "idle"

MayRun(s) ==
    /\ \A q \in Senders : q > s => ~SenderBusy(q)
    /\ ThreadPriority > s => ~ThreadReady
ThreadMayRun == \A q \in Senders : q > ThreadPriority => ~SenderBusy(q)

At(s, from, to) == MayRun(s) /\ pc[s] = from /\ pc' = [pc EXCEPT ![s] = to]

Larger(a, b) == IF a >= b THEN a ELSE b

\* The kernel's message queue: a send never waits, and hands the request
\* straight to a waiting thread.
Deliver ==
    /\ thread = "waiting"
    /\ thread' = "working"
    /\ UNCHANGED <<pending, peak>>
Enqueue ==
    /\ thread # "waiting"
    /\ pending < Capacity
    /\ pending' = pending + 1
    /\ peak' = Larger(peak, pending + 1)
    /\ UNCHANGED thread
Accept == Deliver \/ Enqueue
Reject ==
    /\ thread # "waiting"
    /\ pending = Capacity
    /\ UNCHANGED <<pending, peak, thread>>

\* No such queue, or a request that is too long for it.
Refuse == UNCHANGED <<pending, peak, thread>>

-----------------------------------------------------------------------------
(* ThreadsCommon_SendRequest.                                              *)
Send(s) ==
    /\ At(s, "idle", "count")
    /\ sends[s] < MaxSends
    /\ sends' = [sends EXCEPT ![s] = @ + 1]
    /\ \/ /\ Accept
          /\ result' = [result EXCEPT ![s] = "SUCCESSFUL"]
          /\ fate' = [fate EXCEPT ![s] = "queued"]
          /\ UNCHANGED dropped
       \/ /\ Reject
          /\ result' = [result EXCEPT ![s] = "TOO_MANY"]
          /\ IF Monitor_MessageQueueOverflowCallback = NULL
             THEN fate' = [fate EXCEPT ![s] = "lost"] /\ UNCHANGED dropped
             ELSE fate' = [fate EXCEPT ![s] = "dropped"] /\ dropped' = dropped + 1
       \/ /\ Refuse
          /\ result' = [result EXCEPT ![s] = "INVALID"]
          /\ fate' = [fate EXCEPT ![s] = "lost"]
          /\ UNCHANGED dropped
    /\ overtaken' = (overtaken \/ \E q \in Senders : SenderBusy(q))
    /\ UNCHANGED <<mapped, monitor, queued_items_count, answer, ticks,
                   reported, takenBack>>

Monitor_GetQueuedItemsCount == IF mapped THEN pending ELSE UINT32_MAX

CountQueued(s) ==
    /\ At(s, "count", "compare")
    /\ queued_items_count' =
          [queued_items_count EXCEPT ![s] = Monitor_GetQueuedItemsCount]
    /\ UNCHANGED <<mapped, pending, thread, monitor, result, answer, bounds,
                   peak, history>>

Exceeds(s) ==
    /\ queued_items_count[s] # UINT32_MAX
    /\ queued_items_count[s] > maximum_queued_items

CompareWithMaximum(s) ==
    /\ \/ Exceeds(s) /\ At(s, "compare", "store")
       \/ ~Exceeds(s) /\ At(s, "compare", "test")
    /\ UNCHANGED <<mapped, pending, thread, monitor, locals, answer, bounds,
                   peak, history>>

\* A mutated form: the request just sent is counted a second time.
StoreMaximum_CountsTwice(s) ==
    /\ At(s, "store", "test")
    /\ maximum_queued_items' = queued_items_count[s] + 1
    /\ UNCHANGED <<mapped, pending, thread, locals, answer, bounds, peak,
                   history, Monitor_MessageQueueOverflowCallback>>

\* A mutated form: the maximum is initialised and never raised.
StoreMaximum_NotStored(s) ==
    /\ At(s, "store", "test")
    /\ UNCHANGED <<mapped, pending, thread, monitor, locals, answer, bounds,
                   peak, history>>

StoreMaximum(s) ==
    /\ At(s, "store", "test")
    /\ maximum_queued_items' = queued_items_count[s]
    /\ UNCHANGED <<mapped, pending, thread, locals, answer, bounds, peak,
                   history, Monitor_MessageQueueOverflowCallback>>

\* A mutated form: the sender is told of the overflow, the callback is not.
TestOverflow_NotReported(s) ==
    /\ At(s, "test", "idle")
    /\ answer' = [answer EXCEPT ![s] = result[s] = "SUCCESSFUL"]
    /\ UNCHANGED <<mapped, pending, thread, monitor, locals, bounds, peak,
                   history>>

\* A mutated form: the result is not looked at without a callback.
TestOverflow_AlwaysTrue(s) ==
    /\ \/ /\ result[s] = "TOO_MANY" /\ Monitor_MessageQueueOverflowCallback # NULL
          /\ At(s, "test", "call")
          /\ UNCHANGED answer
       \/ /\ result[s] # "TOO_MANY" \/ Monitor_MessageQueueOverflowCallback = NULL
          /\ At(s, "test", "idle")
          /\ answer' = [answer EXCEPT ![s] = TRUE]
    /\ UNCHANGED <<mapped, pending, thread, monitor, locals, bounds, peak,
                   history>>

MustReport(s) ==
    result[s] = "TOO_MANY" /\ Monitor_MessageQueueOverflowCallback # NULL

TestOverflow(s) ==
    /\ \/ /\ MustReport(s)
          /\ At(s, "test", "call")
          /\ UNCHANGED answer
       \/ /\ ~MustReport(s)
          /\ At(s, "test", "idle")
          /\ answer' = [answer EXCEPT ![s] = result[s] = "SUCCESSFUL"]
    /\ UNCHANGED <<mapped, pending, thread, monitor, locals, bounds, peak,
                   history>>

(* The callback is read again for the call: if it has been taken back, the  *)
(* call of a null pointer is a fault, whose handler never returns.          *)
CallOverflowCallback(s) ==
    /\ \/ /\ Monitor_MessageQueueOverflowCallback # NULL
          /\ At(s, "call", "idle")
          /\ reported' = reported + 1
          /\ fate' = [fate EXCEPT ![s] = "reported"]
          /\ answer' = [answer EXCEPT ![s] = TRUE]
       \/ /\ Monitor_MessageQueueOverflowCallback = NULL
          /\ At(s, "call", "fault")
          /\ UNCHANGED <<reported, fate, answer>>
    /\ UNCHANGED <<mapped, pending, thread, monitor, locals, bounds, peak,
                   dropped, takenBack, overtaken>>

-----------------------------------------------------------------------------
(* timer_callback, in the clock interrupt: the result of the send is not   *)
(* used.  (When it fires is the subject of CyclicTimers.)                  *)
timer_callback ==
    /\ Timers
    /\ ticks < MaxTicks
    /\ ticks' = ticks + 1
    /\ \/ Accept /\ overtaken' = (overtaken \/ thread # "waiting")
       \/ Reject /\ UNCHANGED overtaken
    /\ UNCHANGED <<mapped, monitor, pc, locals, answer, sends, dropped,
                   reported, fate, takenBack>>

(* The thread: it receives a request, waiting for one if there is none,    *)
(* and hands it to ThreadsCommon_ProcessRequest, which calls the user's    *)
(* function; that function may suspend the thread.                         *)
threadOnly == <<mapped, monitor, pc, locals, answer, bounds, peak>>

ReceiveRequest ==
    /\ ThreadMayRun
    /\ thread = "receiving"
    /\ \/ /\ pending > 0
          /\ pending' = pending - 1
          /\ thread' = "working"
          /\ overtaken' = (overtaken \/ \E s \in Senders : SenderBusy(s))
       \/ /\ pending = 0
          /\ thread' = "waiting"
          /\ UNCHANGED <<pending, overtaken>>
    /\ UNCHANGED <<threadOnly, dropped, reported, fate, takenBack>>

Suspend ==
    /\ ThreadMayRun
    /\ thread = "working"
    /\ thread' = "suspended"
    /\ UNCHANGED <<pending, threadOnly, history>>

Resume ==
    /\ thread = "suspended"
    /\ thread' = "working"
    /\ UNCHANGED <<pending, threadOnly, history>>

ProcessRequest ==
    /\ ThreadMayRun
    /\ thread = "working"
    /\ thread' = "receiving"
    /\ UNCHANGED <<pending, threadOnly, history>>

\* The senders that still have a drop to report.
Unreported == {s \in Senders : SenderBusy(s) /\ fate[s] = "dropped"}

(* A task of any priority sets the callback, or takes it back.             *)
Monitor_SetMessageQueueOverflowCallback ==
    /\ \E callback \in Callbacks :
          /\ Monitor_MessageQueueOverflowCallback' = callback
          /\ takenBack' = (takenBack \/ (callback = NULL /\ Unreported # {}))
    /\ UNCHANGED <<mapped, pending, thread, maximum_queued_items, pc, locals,
                   answer, bounds, peak, dropped, reported, fate, overtaken>>

SenderStep(s) ==
    \/ Send(s)
    \/ CountQueued(s)
    \/ CompareWithMaximum(s)
    \/ StoreMaximum(s)
    \/ TestOverflow(s)
    \/ CallOverflowCallback(s)

Faulted == \E s \in Senders : pc[s] = "fault"

Next ==
    /\ ~Faulted
    /\ \/ \E s \in Senders : SenderStep(s)
       \/ timer_callback
       \/ ReceiveRequest
       \/ Suspend
       \/ Resume
       \/ ProcessRequest
       \/ Monitor_SetMessageQueueOverflowCallback

Spec == Init /\ [][Next]_vars

-----------------------------------------------------------------------------
(* Properties.                                                             *)

\* The answer of ThreadsCommon_SendRequest can be trusted (ThreadsCommon.c:
\* 187-193): true means that the request was queued or its loss reported,
\* false that it is not in the queue and may be sent again.  Setting the
\* callback or taking it back during the call changes nothing about that.
AnswerIsTruthful ==
    \A s \in Senders :
        pc[s] = "idle" =>
            /\ answer[s] => fate[s] \in {"none", "queued", "reported"}
            /\ ~answer[s] => fate[s] \in {"lost", "dropped"}

\* The recorded maximum was really reached: in whatever order the senders read
\* and write it, it never exceeds the most requests the queue has held.
MaximumWasReached == maximum_queued_items <= peak

\* The recorded maximum misses nothing that the calls could see: as long as no
\* other sender nor the thread has overtaken a call, and the timer put nothing
\* into the queue, it is the most requests the queue has held once no call is
\* under way (Monitor.h:171-179).
MaximumIsPeak ==
    mapped /\ ~overtaken /\ (\A s \in Senders : pc[s] = "idle")
        => maximum_queued_items = peak

\* Every request of a sender that found the queue full while a callback was in
\* place is reported to it by the end of the call, however the calls are
\* interleaved (Monitor.h:79-88), unless the application took the callback back
\* meanwhile.  It may do so at any other time.
DropsReported == ~takenBack /\ Unreported = {} => dropped <= reported
=============================================================================
