------------------------- MODULE RequestQueueProofs -------------------------
(***************************************************************************)
(* Proofs about requests, for any senders, any length of the queue, any    *)
(* number of requests and with or without a timer.                         *)
(***************************************************************************)
EXTENDS RequestQueue, FiniteSetTheorems, TLAPS

USE PrioritiesAssumption, BoundsAssumption, MarkersAssumption
    DEF monitor, locals, bounds, history

-----------------------------------------------------------------------------
(* The maximum of the queue monitor.                                       *)

\* Whatever a sender has counted was in the queue at some time.
CountsWereReached ==
    \A s \in Senders :
        queued_items_count[s] # UINT32_MAX => queued_items_count[s] <= peak

\* UINT32_MAX, the answer for a queue that is not mapped, is never stored.
StoresCounts ==
    \A s \in Senders : pc[s] = "store" => queued_items_count[s] # UINT32_MAX

MaximumInv ==
    /\ TypeOK
    /\ pending <= peak
    /\ MaximumWasReached
    /\ CountsWereReached
    /\ StoresCounts

\* The steps that leave the counts and the maximum alone.
LEMMA QueueStep ==
    ASSUME MaximumInv, Accept \/ Reject \/ Refuse
    PROVE  /\ pending' \in Counts /\ peak' \in Counts
           /\ thread' \in {"receiving", "waiting", "working", "suspended"}
           /\ pending' <= peak' /\ peak <= peak'
  BY DEF MaximumInv, TypeOK, Accept, Deliver, Enqueue, Reject, Refuse, Larger, Counts

\* Every variable keeps its type, and the count that a sender stores, however
\* old it is when it does, is one that the queue has had.
LEMMA MaximumInvariant == Spec => []MaximumInv
<1>1. Init => MaximumInv
  <2> SUFFICES ASSUME Init PROVE MaximumInv
    OBVIOUS
  <2> USE DEF Init
  <2>1. /\ pending \in Counts /\ peak \in Counts /\ maximum_queued_items \in Counts
        /\ queued_items_count \in [Senders -> Counts \union {UINT32_MAX}]
        /\ sends \in [Senders -> 0..MaxSends] /\ ticks \in 0..MaxTicks
    BY DEF Counts
  <2>2. /\ result \in [Senders -> {"SUCCESSFUL", "TOO_MANY", "INVALID"}]
        /\ answer \in [Senders -> BOOLEAN]
        /\ fate \in [Senders -> {"none", "queued", "reported", "lost", "dropped"}]
        /\ pc \in [Senders -> {"idle", "count", "compare", "store", "test", "call",
                             "fault"}]
    OBVIOUS
  <2>3. TypeOK
    BY <2>1, <2>2 DEF TypeOK
  <2>4. QED
    BY <2>3 DEF MaximumInv, MaximumWasReached, CountsWereReached, StoresCounts
<1>2. MaximumInv /\ [Next]_vars => MaximumInv'
  <2> SUFFICES ASSUME MaximumInv, [Next]_vars PROVE MaximumInv'
    OBVIOUS
  <2> USE DEF MaximumInv, MaximumWasReached, CountsWereReached, StoresCounts
  <2>1. ASSUME NEW s \in Senders, Send(s) PROVE MaximumInv'
    <3>1. Accept \/ Reject \/ Refuse
      BY <2>1 DEF Send
    <3>2. /\ pending' \in Counts /\ peak' \in Counts
          /\ thread' \in {"receiving", "waiting", "working", "suspended"}
          /\ pending' <= peak' /\ peak <= peak'
      BY <3>1, QueueStep
    <3>3. sends' \in [Senders -> 0..MaxSends]
      BY <2>1 DEF Send, TypeOK
    <3>4. /\ result' \in [Senders -> {"SUCCESSFUL", "TOO_MANY", "INVALID"}]
          /\ fate' \in [Senders -> {"none", "queued", "reported", "lost", "dropped"}]
          /\ dropped' \in Nat /\ overtaken' \in BOOLEAN
      BY <2>1 DEF Send, TypeOK
    <3>5. /\ pc' \in [Senders -> {"idle", "count", "compare", "store", "test", "call",
                             "fault"}]
          /\ \A q \in Senders : pc'[q] = "store" => pc[q] = "store"
      BY <2>1 DEF Send, At, TypeOK
    <3>6. UNCHANGED <<mapped, monitor, queued_items_count, answer, ticks,
                      reported, takenBack>>
      BY <2>1 DEF Send
    <3>7. TypeOK'
      BY <3>2, <3>3, <3>4, <3>5, <3>6 DEF TypeOK
    <3>8. QED
      BY <3>2, <3>5, <3>6, <3>7 DEF TypeOK, Counts
  <2>2. ASSUME NEW s \in Senders, CountQueued(s) PROVE MaximumInv'
    <3>1. queued_items_count' =
             [queued_items_count EXCEPT ![s] = Monitor_GetQueuedItemsCount]
      BY <2>2 DEF CountQueued
    <3>2. /\ Monitor_GetQueuedItemsCount \in Counts \union {UINT32_MAX}
          /\ Monitor_GetQueuedItemsCount # UINT32_MAX
                => Monitor_GetQueuedItemsCount <= peak
      BY DEF Monitor_GetQueuedItemsCount, TypeOK, Counts
    <3>3. TypeOK'
      BY <2>2, <3>1, <3>2 DEF CountQueued, At, TypeOK
    <3>4. CountsWereReached'
      BY <2>2, <3>1, <3>2 DEF CountQueued, TypeOK
    <3>5. StoresCounts'
      BY <2>2, <3>1 DEF CountQueued, At, TypeOK
    <3>6. QED
      BY <2>2, <3>3, <3>4, <3>5 DEF CountQueued
  <2>3. ASSUME NEW s \in Senders, CompareWithMaximum(s) PROVE MaximumInv'
    BY <2>3 DEF CompareWithMaximum, Exceeds, At, TypeOK
  <2>4. ASSUME NEW s \in Senders, StoreMaximum(s) PROVE MaximumInv'
    <3>1. queued_items_count[s] \in Counts /\ queued_items_count[s] <= peak
      BY <2>4 DEF StoreMaximum, At, TypeOK
    <3>2. QED
      BY <2>4, <3>1 DEF StoreMaximum, At, TypeOK
  <2>5. ASSUME NEW s \in Senders, TestOverflow(s) \/ CallOverflowCallback(s)
        PROVE  MaximumInv'
    <3>1. CASE TestOverflow(s)
      <4>1. answer' \in [Senders -> BOOLEAN]
        BY <3>1 DEF TestOverflow, TypeOK
      <4>2. QED
        BY <3>1, <4>1 DEF TestOverflow, At, TypeOK
    <3>2. CASE CallOverflowCallback(s)
      <4>1. /\ answer' \in [Senders -> BOOLEAN] /\ reported' \in Nat
            /\ fate' \in [Senders -> {"none", "queued", "reported", "lost", "dropped"}]
        <5>1. CASE Monitor_MessageQueueOverflowCallback # NULL
          <6>1. /\ answer' = [answer EXCEPT ![s] = TRUE] /\ reported' = reported + 1
                /\ fate' = [fate EXCEPT ![s] = "reported"]
            BY <3>2, <5>1 DEF CallOverflowCallback
          <6>2. QED
            BY <6>1 DEF TypeOK
        <5>2. CASE Monitor_MessageQueueOverflowCallback = NULL
          <6>1. UNCHANGED <<reported, fate, answer>>
            BY <3>2, <5>2 DEF CallOverflowCallback
          <6>2. QED
            BY <6>1 DEF TypeOK
        <5>3. QED
          BY <5>1, <5>2
      <4>2. pc' \in [Senders -> {"idle", "count", "compare", "store", "test", "call",
                               "fault"}]
            /\ \A q \in Senders : pc'[q] = "store" => pc[q] = "store"
        <5>1. PICK to \in {"idle", "fault"} : pc' = [pc EXCEPT ![s] = to]
          BY <3>2 DEF CallOverflowCallback, At
        <5>2. pc \in [Senders -> {"idle", "count", "compare", "store", "test", "call",
                                 "fault"}]
          BY DEF TypeOK
        <5>3. QED
          BY <5>1, <5>2
      <4>3. UNCHANGED <<mapped, pending, thread, monitor, locals, bounds, peak,
                        dropped, takenBack, overtaken>>
        BY <3>2 DEF CallOverflowCallback
      <4>4. TypeOK'
        BY <4>1, <4>2, <4>3 DEF TypeOK
      <4>5. QED
        BY <4>2, <4>3, <4>4
    <3>3. QED
      BY <2>5, <3>1, <3>2
  <2>6. CASE timer_callback
    <3>1. Accept \/ Reject
      BY <2>6 DEF timer_callback
    <3>2. /\ pending' \in Counts /\ peak' \in Counts
          /\ thread' \in {"receiving", "waiting", "working", "suspended"}
          /\ pending' <= peak' /\ peak <= peak'
      BY <3>1, QueueStep
    <3>3. ticks' \in 0..MaxTicks
      BY <2>6 DEF timer_callback, TypeOK
    <3>6. overtaken' \in BOOLEAN
      BY <2>6 DEF timer_callback, TypeOK
    <3>4. UNCHANGED <<mapped, monitor, pc, locals, answer, sends, dropped,
                      reported, fate, takenBack>>
      BY <2>6 DEF timer_callback
    <3>5. QED
      BY <3>2, <3>3, <3>4, <3>6 DEF TypeOK, Counts
  <2>7. CASE ReceiveRequest
    <3>1. /\ pending' \in Counts /\ pending' <= peak
          /\ thread' \in {"receiving", "waiting", "working", "suspended"}
      BY <2>7 DEF ReceiveRequest, TypeOK, Counts
    <3>2. overtaken' \in BOOLEAN
      BY <2>7 DEF ReceiveRequest, TypeOK
    <3>3. QED
      BY <2>7, <3>1, <3>2 DEF ReceiveRequest, threadOnly, TypeOK
  <2>8. CASE Suspend \/ Resume \/ ProcessRequest
    BY <2>8 DEF Suspend, Resume, ProcessRequest, threadOnly, TypeOK
  <2>9. CASE Monitor_SetMessageQueueOverflowCallback
    BY <2>9 DEF Monitor_SetMessageQueueOverflowCallback, TypeOK
  <2>10. CASE UNCHANGED vars
    BY <2>10 DEF vars, TypeOK
  <2>11. QED
    BY <2>1, <2>2, <2>3, <2>4, <2>5, <2>6, <2>7, <2>8, <2>9, <2>10
    DEF Next, SenderStep
<1>3. QED
  BY <1>1, <1>2, PTL DEF Spec

\* Every variable keeps its type: in particular the maximum is a number of
\* requests and never UINT32_MAX.
THEOREM TypeCorrect == Spec => []TypeOK
<1>1. MaximumInv => TypeOK
  BY DEF MaximumInv
<1>2. QED
  BY <1>1, MaximumInvariant, PTL

\* However the senders interleave, Monitor_GetMaximumQueuedItemsCount never
\* answers with more requests than the queue has held.
THEOREM MaximumWasReachedCorrect == Spec => []MaximumWasReached
<1>1. MaximumInv => MaximumWasReached
  BY DEF MaximumInv
<1>2. QED
  BY <1>1, MaximumInvariant, PTL

-----------------------------------------------------------------------------
(* The answer of ThreadsCommon_SendRequest.                                *)

\* Within a call, the result tells what became of the request.
ResultIsTruthful ==
    \A s \in Senders :
        pc[s] # "idle" =>
            /\ result[s] = "SUCCESSFUL" => fate[s] = "queued"
            /\ result[s] # "SUCCESSFUL" => fate[s] \in {"lost", "dropped"}
            /\ fate[s] = "dropped" => result[s] = "TOO_MANY"

AnswerInv == AnswerIsTruthful /\ ResultIsTruthful

\* A step in which no sender goes on.
LEMMA AnswerKept ==
    ASSUME AnswerInv, UNCHANGED <<pc, result, answer, fate>>
    PROVE  AnswerInv'
  BY DEF AnswerInv, AnswerIsTruthful, ResultIsTruthful

\* The answer agrees with what became of the request, whatever happens to the
\* callback between the test and the call.
LEMMA AnswerInvariant == Spec => []AnswerInv
<1>1. Init => AnswerInv
  BY DEF Init, AnswerInv, AnswerIsTruthful, ResultIsTruthful
<1>2. TypeOK /\ AnswerInv /\ [Next]_vars => AnswerInv'
  <2> SUFFICES ASSUME TypeOK, AnswerInv, [Next]_vars PROVE AnswerInv'
    OBVIOUS
  <2>1. ASSUME NEW s \in Senders, Send(s) PROVE AnswerInv'
    <3>1. /\ pc' = [pc EXCEPT ![s] = "count"]
          /\ \A q \in Senders \ {s} : fate'[q] = fate[q] /\ result'[q] = result[q]
          /\ UNCHANGED answer
      BY <2>1 DEF Send, At, TypeOK
    <3>2. \/ fate'[s] = "queued" /\ result'[s] = "SUCCESSFUL"
          \/ fate'[s] \in {"lost", "dropped"} /\ result'[s] = "TOO_MANY"
          \/ fate'[s] = "lost" /\ result'[s] = "INVALID"
      BY <2>1 DEF Send, TypeOK
    <3>3. QED
      BY <3>1, <3>2 DEF AnswerInv, AnswerIsTruthful, ResultIsTruthful, TypeOK
  <2>2. ASSUME NEW s \in Senders,
               CountQueued(s) \/ CompareWithMaximum(s) \/ StoreMaximum(s)
        PROVE  AnswerInv'
    <3>1. /\ pc[s] # "idle"
          /\ \E to \in {"compare", "store", "test"} : pc' = [pc EXCEPT ![s] = to]
          /\ UNCHANGED <<result, answer, fate>>
      BY <2>2 DEF CountQueued, CompareWithMaximum, StoreMaximum, At
    <3>2. QED
      BY <3>1 DEF AnswerInv, AnswerIsTruthful, ResultIsTruthful, TypeOK
  <2>3. ASSUME NEW s \in Senders, TestOverflow(s) PROVE AnswerInv'
    <3>0. UNCHANGED <<result, fate>>
      BY <2>3 DEF TestOverflow
    <3>1. /\ result[s] = "SUCCESSFUL" => fate[s] = "queued"
          /\ result[s] # "SUCCESSFUL" => fate[s] \in {"lost", "dropped"}
      BY <2>3 DEF TestOverflow, At, AnswerInv, ResultIsTruthful
    <3>2. CASE MustReport(s)
      <4>1. pc' = [pc EXCEPT ![s] = "call"] /\ answer' = answer /\ pc[s] = "test"
        BY <2>3, <3>2 DEF TestOverflow, At
      <4>2. QED
        BY <3>0, <4>1 DEF AnswerInv, AnswerIsTruthful, ResultIsTruthful, TypeOK
    <3>3. CASE ~MustReport(s)
      <4>1. /\ pc' = [pc EXCEPT ![s] = "idle"]
            /\ answer' = [answer EXCEPT ![s] = (result[s] = "SUCCESSFUL")]
        BY <2>3, <3>3 DEF TestOverflow, At
      <4>2. answer'[s] <=> result[s] = "SUCCESSFUL"
        BY <4>1 DEF TypeOK
      <4>3. \A q \in Senders \ {s} : answer'[q] = answer[q] /\ pc'[q] = pc[q]
        BY <4>1 DEF TypeOK
      <4>4. pc'[s] = "idle"
        BY <4>1 DEF TypeOK
      <4>5. AnswerIsTruthful'
        BY <3>0, <3>1, <4>2, <4>3, <4>4 DEF AnswerInv, AnswerIsTruthful, TypeOK
      <4>6. ResultIsTruthful'
        BY <3>0, <4>3, <4>4 DEF AnswerInv, ResultIsTruthful
      <4>7. QED
        BY <4>5, <4>6 DEF AnswerInv
    <3>4. QED
      BY <3>2, <3>3
  <2>4. ASSUME NEW s \in Senders, CallOverflowCallback(s) PROVE AnswerInv'
    <3>1. CASE Monitor_MessageQueueOverflowCallback # NULL
      <4>1. /\ pc' = [pc EXCEPT ![s] = "idle"]
            /\ fate' = [fate EXCEPT ![s] = "reported"]
            /\ answer' = [answer EXCEPT ![s] = TRUE]
            /\ UNCHANGED result
        BY <2>4, <3>1 DEF CallOverflowCallback, At
      <4>2. QED
        BY <4>1 DEF AnswerInv, AnswerIsTruthful, ResultIsTruthful, TypeOK
    <3>2. CASE Monitor_MessageQueueOverflowCallback = NULL
      <4>1. /\ pc[s] = "call" /\ pc' = [pc EXCEPT ![s] = "fault"]
            /\ UNCHANGED <<fate, answer, result>>
        BY <2>4, <3>2 DEF CallOverflowCallback, At
      <4>2. QED
        BY <4>1 DEF AnswerInv, AnswerIsTruthful, ResultIsTruthful, TypeOK
    <3>3. QED
      BY <3>1, <3>2
  <2>5. CASE Monitor_SetMessageQueueOverflowCallback
    BY <2>5, AnswerKept DEF Monitor_SetMessageQueueOverflowCallback
  <2>6. CASE timer_callback \/ ReceiveRequest \/ Suspend \/ Resume \/ ProcessRequest
    BY <2>6, AnswerKept DEF timer_callback, ReceiveRequest, Suspend, Resume,
                            ProcessRequest, threadOnly
  <2>7. CASE UNCHANGED vars
    BY <2>7, AnswerKept DEF vars
  <2>8. QED
    BY <2>1, <2>2, <2>3, <2>4, <2>5, <2>6, <2>7 DEF Next, SenderStep
<1>3. QED
  BY <1>1, <1>2, TypeCorrect, PTL DEF Spec

\* What ThreadsCommon_SendRequest returns is true, however the calls interleave
\* and whenever the application sets its callback or takes it back.
THEOREM AnswerIsTruthfulCorrect == Spec => []AnswerIsTruthful
<1>1. AnswerInv => AnswerIsTruthful
  BY DEF AnswerInv
<1>2. QED
  BY <1>1, AnswerInvariant, PTL

-----------------------------------------------------------------------------
(* The maximum misses nothing that the calls could see.                    *)

\* A lone call carries the peak of the queue into the maximum.
PeakInv ==
    mapped /\ ~overtaken =>
        /\ \A s, q \in Senders : SenderBusy(s) /\ SenderBusy(q) => s = q
        /\ (\A s \in Senders : ~SenderBusy(s)) => maximum_queued_items = peak
        /\ \A s \in Senders :
              /\ pc[s] = "count" => peak = Larger(maximum_queued_items, pending)
              /\ pc[s] = "compare" =>
                    /\ queued_items_count[s] \in Counts
                    /\ peak = Larger(maximum_queued_items, queued_items_count[s])
              /\ pc[s] = "store" => queued_items_count[s] = peak
              /\ pc[s] \in {"test", "call"} => maximum_queued_items = peak

\* A step behind the back of a call that nobody can see in the queue.
LEMMA PeakKept ==
    ASSUME PeakInv, ~overtaken,
           pending' = pending \/ \A s \in Senders : ~SenderBusy(s),
           UNCHANGED <<peak, mapped, maximum_queued_items, pc, queued_items_count>>
    PROVE  PeakInv'
  BY DEF PeakInv, SenderBusy

\* A call makes the maximum what the queue has held, unless another call, the
\* thread or the timer changes the queue meanwhile.
LEMMA PeakInvariant == Spec => []PeakInv
<1>1. Init => PeakInv
  BY DEF Init, PeakInv, SenderBusy
<1>2. MaximumInv /\ PeakInv /\ [Next]_vars => PeakInv'
  <2> SUFFICES ASSUME MaximumInv, PeakInv, [Next]_vars, mapped', ~overtaken'
               PROVE  PeakInv'
    BY DEF PeakInv
  <2>0. /\ pending \in Nat /\ peak \in Nat /\ maximum_queued_items \in Nat
        /\ pending \in Counts /\ pending <= peak
    BY DEF MaximumInv, TypeOK, Counts
  <2>1. ASSUME NEW s \in Senders, Send(s) PROVE PeakInv'
    <3>1. /\ mapped /\ ~overtaken /\ \A q \in Senders : ~SenderBusy(q)
          /\ maximum_queued_items = peak /\ maximum_queued_items' = peak
      BY <2>1 DEF Send, PeakInv
    <3>2. pc'[s] = "count" /\ \A q \in Senders : q # s => pc'[q] = "idle"
      BY <2>1, <3>1 DEF Send, At, MaximumInv, TypeOK, SenderBusy
    <3>3. peak' = Larger(peak, pending')
      BY <2>0, <2>1 DEF Send, Accept, Deliver, Enqueue, Reject, Refuse, Larger
    <3>4. QED
      BY <3>1, <3>2, <3>3 DEF PeakInv, SenderBusy
  <2>2. ASSUME NEW s \in Senders, CountQueued(s) PROVE PeakInv'
    <3>1. /\ mapped /\ ~overtaken /\ pc[s] = "count" /\ SenderBusy(s)
          /\ UNCHANGED <<pending, peak, maximum_queued_items>>
      BY <2>2 DEF CountQueued, At, SenderBusy
    <3>2. pc'[s] = "compare" /\ \A q \in Senders : q # s => pc'[q] = "idle"
      BY <2>2, <3>1 DEF CountQueued, At, MaximumInv, TypeOK, SenderBusy, PeakInv
    <3>3. queued_items_count'[s] = pending
      BY <2>2, <3>1 DEF CountQueued, Monitor_GetQueuedItemsCount, MaximumInv, TypeOK
    <3>4. QED
      BY <2>0, <3>1, <3>2, <3>3 DEF PeakInv, SenderBusy, Larger
  <2>3. ASSUME NEW s \in Senders, CompareWithMaximum(s) PROVE PeakInv'
    <3>1. /\ mapped /\ ~overtaken /\ pc[s] = "compare" /\ SenderBusy(s)
          /\ UNCHANGED <<pending, peak, maximum_queued_items, queued_items_count>>
      BY <2>3 DEF CompareWithMaximum, At, SenderBusy
    <3>2. /\ queued_items_count[s] \in Nat /\ queued_items_count[s] # UINT32_MAX
          /\ peak = Larger(maximum_queued_items, queued_items_count[s])
      BY <3>1 DEF PeakInv, Counts
    <3>3. /\ pc'[s] = IF Exceeds(s) THEN "store" ELSE "test"
          /\ \A q \in Senders : q # s => pc'[q] = "idle"
      BY <2>3, <3>1 DEF CompareWithMaximum, At, MaximumInv, TypeOK, SenderBusy, PeakInv
    <3>4. /\ Exceeds(s) => queued_items_count[s] = peak
          /\ ~Exceeds(s) => maximum_queued_items = peak
      BY <2>0, <3>2 DEF Exceeds, Larger
    <3>5. QED
      BY <3>1, <3>3, <3>4 DEF PeakInv, SenderBusy
  <2>4. ASSUME NEW s \in Senders, StoreMaximum(s) PROVE PeakInv'
    <3>1. /\ mapped /\ ~overtaken /\ pc[s] = "store" /\ SenderBusy(s)
          /\ UNCHANGED <<pending, peak>>
          /\ maximum_queued_items' = queued_items_count[s]
      BY <2>4 DEF StoreMaximum, At, SenderBusy
    <3>2. pc'[s] = "test" /\ \A q \in Senders : q # s => pc'[q] = "idle"
      BY <2>4, <3>1 DEF StoreMaximum, At, MaximumInv, TypeOK, SenderBusy, PeakInv
    <3>3. queued_items_count[s] = peak
      BY <3>1 DEF PeakInv
    <3>4. QED
      BY <3>1, <3>2, <3>3 DEF PeakInv, SenderBusy
  <2>5. ASSUME NEW s \in Senders, TestOverflow(s) \/ CallOverflowCallback(s)
        PROVE  PeakInv'
    <3>1. /\ mapped /\ ~overtaken /\ pc[s] \in {"test", "call"} /\ SenderBusy(s)
          /\ UNCHANGED <<pending, peak, maximum_queued_items>>
      <4>1. CASE TestOverflow(s)
        BY <4>1 DEF TestOverflow, At, SenderBusy
      <4>2. CASE CallOverflowCallback(s)
        BY <4>2 DEF CallOverflowCallback, At, SenderBusy
      <4>3. QED
        BY <2>5, <4>1, <4>2
    <3>2. /\ pc'[s] \in {"call", "idle", "fault"}
          /\ \A q \in Senders : q # s => pc'[q] = "idle"
      BY <2>5, <3>1
      DEF TestOverflow, CallOverflowCallback, At, MaximumInv, TypeOK, SenderBusy, PeakInv
    <3>3. maximum_queued_items = peak
      BY <3>1 DEF PeakInv
    <3>4. QED
      BY <3>1, <3>2, <3>3 DEF PeakInv, SenderBusy
  <2>6. CASE timer_callback
    <3>1. ~overtaken /\ (Deliver \/ Reject)
      <4>1. CASE Accept /\ overtaken' = (overtaken \/ thread # "waiting")
        BY <4>1 DEF Accept, Enqueue
      <4>2. CASE Reject /\ UNCHANGED overtaken
        BY <4>2
      <4>3. QED
        BY <2>6, <4>1, <4>2 DEF timer_callback
    <3>2. UNCHANGED <<pending, peak>>
      BY <3>1 DEF Deliver, Reject
    <3>3. UNCHANGED <<mapped, maximum_queued_items, pc, queued_items_count>>
      BY <2>6 DEF timer_callback
    <3>4. QED
      BY <3>1, <3>2, <3>3, PeakKept
  <2>7. CASE ReceiveRequest
    <3>1. ~overtaken /\ (pending' = pending \/ \A s \in Senders : ~SenderBusy(s))
      <4>1. CASE overtaken' = (overtaken \/ \E s \in Senders : SenderBusy(s))
        BY <4>1
      <4>2. CASE UNCHANGED <<pending, overtaken>>
        BY <4>2
      <4>3. QED
        BY <2>7, <4>1, <4>2 DEF ReceiveRequest
    <3>2. UNCHANGED <<peak, mapped, maximum_queued_items, pc, queued_items_count>>
      BY <2>7 DEF ReceiveRequest, threadOnly
    <3>3. QED
      BY <3>1, <3>2, PeakKept
  <2>8. CASE \/ Suspend \/ Resume \/ ProcessRequest
             \/ Monitor_SetMessageQueueOverflowCallback \/ UNCHANGED vars
    <3>1. UNCHANGED <<pending, overtaken>>
      BY <2>8 DEF Suspend, Resume, ProcessRequest, vars,
                  Monitor_SetMessageQueueOverflowCallback
    <3>2. UNCHANGED <<peak, mapped, maximum_queued_items, pc, queued_items_count>>
      BY <2>8 DEF Suspend, Resume, ProcessRequest, threadOnly, vars,
                  Monitor_SetMessageQueueOverflowCallback
    <3>3. QED
      BY <3>1, <3>2, PeakKept
  <2>9. QED
    BY <2>1, <2>2, <2>3, <2>4, <2>5, <2>6, <2>7, <2>8 DEF Next, SenderStep
<1>3. QED
  BY <1>1, <1>2, MaximumInvariant, PTL DEF Spec

\* Between calls, Monitor_GetMaximumQueuedItemsCount answers with the most
\* requests the queue has held, if nobody has overtaken a call.
THEOREM MaximumIsPeakCorrect == Spec => []MaximumIsPeak
<1>1. PeakInv => MaximumIsPeak
  BY DEF PeakInv, MaximumIsPeak, SenderBusy
<1>2. QED
  BY <1>1, PeakInvariant, PTL

-----------------------------------------------------------------------------
(* Every drop is reported.                                                 *)

\* As long as the callback was not taken back over a drop, every drop has been
\* reported or is still to be, by the sender itself, which finds the callback.
DropsInv ==
    /\ dropped \in Nat /\ reported \in Nat /\ IsFiniteSet(Unreported)
    /\ ~takenBack =>
          /\ dropped <= reported + Cardinality(Unreported)
          /\ Unreported # {} => Monitor_MessageQueueOverflowCallback # NULL

\* A step that drops and reports nothing.
LEMMA DropsKept ==
    ASSUME DropsInv, Unreported' = Unreported,
           UNCHANGED <<dropped, reported, takenBack,
                       Monitor_MessageQueueOverflowCallback>>
    PROVE  DropsInv'
  BY DEF DropsInv

\* The drops that happen while there is a callback are all going to be reported.
LEMMA DropsInvariant == Spec => []DropsInv
<1>1. Init => DropsInv
  <2> SUFFICES ASSUME Init PROVE DropsInv
    OBVIOUS
  <2>1. Unreported = {}
    BY DEF Init, Unreported, SenderBusy
  <2>2. IsFiniteSet(Unreported) /\ Cardinality(Unreported) = 0
    BY <2>1, FS_EmptySet
  <2>3. QED
    BY <2>1, <2>2 DEF Init, DropsInv
<1>2. TypeOK /\ AnswerInv /\ DropsInv /\ [Next]_vars => DropsInv'
  <2> SUFFICES ASSUME TypeOK, AnswerInv, DropsInv, [Next]_vars PROVE DropsInv'
    OBVIOUS
  <2>0. Cardinality(Unreported) \in Nat
    BY FS_CardinalityType DEF DropsInv
  <2>1. ASSUME NEW s \in Senders, Send(s) PROVE DropsInv'
    <3>1. /\ pc[s] = "idle" /\ pc'[s] = "count" /\ s \notin Unreported
          /\ \A q \in Senders : q # s => pc'[q] = pc[q] /\ fate'[q] = fate[q]
          /\ UNCHANGED <<reported, takenBack, Monitor_MessageQueueOverflowCallback>>
      BY <2>1 DEF Send, At, TypeOK, Unreported, SenderBusy
    <3>2. CASE fate'[s] \in {"queued", "lost"} /\ UNCHANGED dropped
      <4>1. Unreported' = Unreported
        BY <3>1, <3>2 DEF Unreported, SenderBusy
      <4>2. QED
        BY <3>1, <3>2, <4>1, DropsKept
    <3>3. CASE /\ fate'[s] = "dropped" /\ dropped' = dropped + 1
               /\ Monitor_MessageQueueOverflowCallback # NULL
      <4>1. Unreported' = Unreported \union {s}
        BY <3>1, <3>3 DEF Unreported, SenderBusy
      <4>2. /\ IsFiniteSet(Unreported')
            /\ Cardinality(Unreported') = Cardinality(Unreported) + 1
        BY <3>1, <4>1, FS_AddElement DEF DropsInv
      <4>3. QED
        BY <2>0, <3>1, <3>3, <4>2 DEF DropsInv
    <3>4. QED
      BY <2>1, <3>2, <3>3 DEF Send, TypeOK
  <2>2. ASSUME NEW s \in Senders,
               CountQueued(s) \/ CompareWithMaximum(s) \/ StoreMaximum(s)
        PROVE  DropsInv'
    <3>1. /\ \A q \in Senders : SenderBusy(q)' <=> SenderBusy(q)
          /\ UNCHANGED <<fate, dropped, reported, takenBack,
                         Monitor_MessageQueueOverflowCallback>>
      BY <2>2 DEF CountQueued, CompareWithMaximum, StoreMaximum, At, SenderBusy, TypeOK
    <3>2. QED
      BY <3>1, DropsKept DEF Unreported
  <2>3. ASSUME NEW s \in Senders, TestOverflow(s) PROVE DropsInv'
    <3>0. UNCHANGED <<fate, dropped, reported, takenBack,
                      Monitor_MessageQueueOverflowCallback>>
      BY <2>3 DEF TestOverflow
    <3>1. CASE MustReport(s)
      <4>1. \A q \in Senders : SenderBusy(q)' <=> SenderBusy(q)
        BY <2>3, <3>1 DEF TestOverflow, At, SenderBusy, TypeOK
      <4>2. QED
        BY <3>0, <4>1, DropsKept DEF Unreported
    <3>2. CASE ~MustReport(s)
      <4>1. /\ pc[s] = "test" /\ pc'[s] = "idle"
            /\ \A q \in Senders : q # s => pc'[q] = pc[q]
        BY <2>3, <3>2 DEF TestOverflow, At, TypeOK
      <4>2. CASE fate[s] # "dropped"
        <5>1. Unreported' = Unreported
          BY <3>0, <4>1, <4>2 DEF Unreported, SenderBusy
        <5>2. QED
          BY <3>0, <5>1, DropsKept
      <4>3. CASE fate[s] = "dropped"
        <5>1. result[s] = "TOO_MANY" /\ s \in Unreported
          BY <4>1, <4>3 DEF AnswerInv, ResultIsTruthful, Unreported, SenderBusy
        <5>2. takenBack
          BY <3>2, <5>1 DEF MustReport, DropsInv, TypeOK
        <5>3. Unreported' = Unreported \ {s}
          BY <3>0, <4>1 DEF Unreported, SenderBusy
        <5>4. IsFiniteSet(Unreported')
          BY <5>3, FS_RemoveElement DEF DropsInv
        <5>5. QED
          BY <3>0, <5>2, <5>4 DEF DropsInv
      <4>4. QED
        BY <4>2, <4>3
    <3>3. QED
      BY <3>1, <3>2
  <2>4. ASSUME NEW s \in Senders, CallOverflowCallback(s) PROVE DropsInv'
    <3>0. /\ pc[s] = "call"
          /\ UNCHANGED <<dropped, takenBack, Monitor_MessageQueueOverflowCallback>>
      BY <2>4 DEF CallOverflowCallback, At
    <3>1. CASE Monitor_MessageQueueOverflowCallback # NULL
      <4>1. /\ pc' = [pc EXCEPT ![s] = "idle"]
            /\ fate' = [fate EXCEPT ![s] = "reported"]
            /\ reported' = reported + 1
        BY <2>4, <3>1 DEF CallOverflowCallback, At
      <4>2. Unreported' = Unreported \ {s}
        BY <4>1 DEF Unreported, SenderBusy, TypeOK
      <4>3. /\ IsFiniteSet(Unreported') /\ Cardinality(Unreported') \in Nat
            /\ Cardinality(Unreported') >= Cardinality(Unreported) - 1
        <5>1. CASE s \in Unreported
          <6>1. /\ IsFiniteSet(Unreported \ {s})
                /\ Cardinality(Unreported \ {s}) = Cardinality(Unreported) - 1
            BY <5>1, FS_RemoveElement DEF DropsInv
          <6>2. Cardinality(Unreported \ {s}) \in Nat
            BY <6>1, FS_CardinalityType
          <6>3. QED
            BY <2>0, <4>2, <6>1, <6>2
        <5>2. CASE s \notin Unreported
          <6>1. Unreported' = Unreported
            BY <4>2, <5>2
          <6>2. QED
            BY <2>0, <6>1 DEF DropsInv
        <5>3. QED
          BY <5>1, <5>2
      <4>4. QED
        BY <2>0, <3>0, <3>1, <4>1, <4>3 DEF DropsInv
    <3>2. CASE Monitor_MessageQueueOverflowCallback = NULL
      <4>1. pc' = [pc EXCEPT ![s] = "fault"] /\ UNCHANGED <<fate, reported>>
        BY <2>4, <3>2 DEF CallOverflowCallback, At
      <4>2. \A q \in Senders : SenderBusy(q)' <=> SenderBusy(q)
        BY <3>0, <4>1 DEF SenderBusy, TypeOK
      <4>3. Unreported' = Unreported
        BY <4>1, <4>2 DEF Unreported
      <4>4. QED
        BY <3>0, <4>1, <4>3, DropsKept
    <3>3. QED
      BY <3>1, <3>2
  <2>5. CASE Monitor_SetMessageQueueOverflowCallback
    <3>1. UNCHANGED <<pc, fate, dropped, reported>>
      BY <2>5 DEF Monitor_SetMessageQueueOverflowCallback
    <3>2. Unreported' = Unreported
      BY <3>1 DEF Unreported, SenderBusy
    <3>3. /\ ~takenBack' => ~takenBack
          /\ ~takenBack' /\ Unreported # {}
                => Monitor_MessageQueueOverflowCallback' # NULL
      BY <2>5 DEF Monitor_SetMessageQueueOverflowCallback
    <3>4. QED
      BY <3>1, <3>2, <3>3 DEF DropsInv
  <2>6. CASE timer_callback \/ ReceiveRequest \/ Suspend \/ Resume \/ ProcessRequest
    BY <2>6, DropsKept DEF timer_callback, ReceiveRequest, Suspend, Resume,
       ProcessRequest, threadOnly, Unreported, SenderBusy
  <2>7. CASE UNCHANGED vars
    BY <2>7, DropsKept DEF vars, Unreported, SenderBusy
  <2>8. QED
    BY <2>1, <2>2, <2>3, <2>4, <2>5, <2>6, <2>7 DEF Next, SenderStep
<1>3. QED
  BY <1>1, <1>2, TypeCorrect, AnswerInvariant, PTL DEF Spec

\* Unless the application takes its callback back between a drop and its report,
\* every request dropped in the presence of a callback is reported by the end of
\* the call that sent it.
THEOREM DropsReportedCorrect == Spec => []DropsReported
<1>1. DropsInv => DropsReported
  <2> SUFFICES ASSUME DropsInv, ~takenBack, Unreported = {} PROVE dropped <= reported
    BY DEF DropsReported
  <2>1. Cardinality(Unreported) = 0
    BY FS_EmptySet
  <2>2. QED
    BY <2>1 DEF DropsInv
<1>2. QED
  BY <1>1, DropsInvariant, PTL
=============================================================================
