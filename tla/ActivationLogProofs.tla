-------------------------- MODULE ActivationLogProofs --------------------------
(***************************************************************************)
(* Proofs about the activation log, for any threads and priorities, any    *)
(* size of the buffer and any number of entries: what the log counts and   *)
(* holds, with and without threads that preempt each other, and how        *)
(* freezing ends it.                                                       *)
(***************************************************************************)
EXTENDS ActivationLog, FiniteSetTheorems, SequenceTheorems, TLAPS

USE WritersAssumption, BufferAssumption, EntriesAssumption
    DEF store, locals, history

-----------------------------------------------------------------------------
\* The threads that are writing an entry, and those of them up to w.
Busy == {v \in Writers : Writing(v)}
BusyUpTo(w) == {v \in Writers : v <= w /\ Writing(v)}

\* The counter lags behind the entries begun by those not yet stored; what a
\* thread is about to store lags behind by the entries it has preempted.
CountInv ==
    /\ IsFiniteSet(Busy)
    /\ activation_entry_counter + Cardinality(Busy) <= written
    /\ \A w \in Writers :
           pc[w] = "store" => loaded[w] + Cardinality(BusyUpTo(w)) <= written

\* A thread completes one entry in a frozen log, if it was writing it before.
FrozenInv ==
    /\ \A w \in Writers : late[w] \in {0, 1}
    /\ \A w \in Writers : Writing(w) \/ ~is_frozen => late[w] = 0

TypeInv == TypeOK /\ CountInv /\ FrozenInv

\* Neither the counter nor what a thread is about to store in it runs ahead of
\* the entries completed, unless a clear came in between.
AtMostSize(n) == IF n > Size THEN Size ELSE n
PhantomInv ==
    "clear" \notin clashes =>
        /\ AtMostSize(activation_entry_counter) <= Len(recent)
        /\ \A w \in Writers :
               pc[w] = "store" => AtMostSize(loaded[w]) <= Len(recent)

\* The slot of the counter holds as much of a thread's entry as it has written.
SlotHolds(w) ==
    LET slot == activation_log_buffer[Slot]
    IN  /\ entry[w].interface = w
        /\ pc[w] # "interface" => slot.interface = w
        /\ pc[w] \in {"time", "load", "store"}
               => slot.entry_type = entry[w].entry_type
        /\ pc[w] \in {"load", "store"} => slot.timestamp = entry[w].timestamp

\* The k-th entry before the counter is the k-th of the last ones completed.
Holds(k) == activation_log_buffer[(activation_entry_counter - k) % Size]
                = recent[Len(recent) + 1 - k]

\* Without clashes one thread writes at a time, into a slot that holds no entry
\* or the oldest one.
BufferInv ==
    clashes = {} =>
        /\ \A v, w \in Writers : Writing(v) /\ Writing(w) => v = w
        /\ Len(recent) = AtMostSize(activation_entry_counter)
        /\ \A w \in Writers : pc[w] = "store" => loaded[w] = activation_entry_counter
        /\ \A w \in Writers : Writing(w) => SlotHolds(w)
        /\ \A k \in 1..Len(recent) : k < Size \/ NobodyWrites => Holds(k)

-----------------------------------------------------------------------------
\* A slot is one of the buffer, and a thread that writes is one of Busy.
LEMMA SlotType == TypeOK => Slot \in Slots
  BY DEF TypeOK, Slot, Slots, Size

\* Every step but the first and the last of an entry leaves the writers writing.
LEMMA SameBusy ==
    ASSUME \A v \in Writers : Writing(v)' <=> Writing(v)
    PROVE  Busy' = Busy /\ \A w \in Writers : BusyUpTo(w)' = BusyUpTo(w)
  BY DEF Busy, BusyUpTo

\* A step of an entry changes where its thread is, and nobody else.
LEMMA AtStep ==
    ASSUME TypeOK, NEW w \in Writers, NEW from, NEW to, At(w, from, to),
           from # "idle", to # "idle"
    PROVE  /\ \A v \in Writers : Writing(v)' <=> Writing(v)
           /\ \A v \in Writers : v # w => pc'[v] = pc[v]
           /\ pc[w] = from /\ pc'[w] = to
           /\ Busy' = Busy /\ \A v \in Writers : BusyUpTo(v)' = BusyUpTo(v)
<1>1. /\ \A v \in Writers : v # w => pc'[v] = pc[v]
      /\ pc[w] = from /\ pc'[w] = to
  BY DEF At, TypeOK
<1>2. \A v \in Writers : Writing(v)' <=> Writing(v)
  BY <1>1 DEF Writing
<1> QED
  BY <1>1, <1>2, SameBusy

\* The thread that runs has preempted all the others that are writing.
LEMMA RunningIsTop ==
    ASSUME NEW w \in Writers, MayRun(w)
    PROVE  BusyUpTo(w) = Busy
<1>1. ASSUME NEW v \in Writers, Writing(v)
      PROVE  v <= w
  <2>1. ~(v > w) /\ v \in Nat /\ w \in Nat
    BY <1>1 DEF MayRun
  <2> QED
    BY <2>1
<1> QED
  BY <1>1 DEF Busy, BusyUpTo

\* What is counted does not change while entries are being written.
LEMMA CountKept ==
    ASSUME TypeInv, Busy' = Busy,
           \A v \in Writers : BusyUpTo(v)' = BusyUpTo(v),
           activation_entry_counter' <= activation_entry_counter,
           activation_entry_counter' \in Nat, UNCHANGED written,
           \A v \in Writers : pc'[v] = "store" =>
               pc[v] = "store" /\ loaded'[v] = loaded[v]
    PROVE  CountInv'
<1>1. Cardinality(Busy) \in Nat
  BY FS_CardinalityType DEF TypeInv, CountInv
<1>2. activation_entry_counter \in Nat /\ written \in Nat
  BY DEF TypeInv, TypeOK
<1> QED
  BY <1>1, <1>2 DEF TypeInv, CountInv

\* The number of writers, and how a first and a last step change it.
LEMMA BusyType ==
    ASSUME TypeInv
    PROVE  /\ IsFiniteSet(Busy) /\ Cardinality(Busy) \in Nat
           /\ \A w \in Writers : /\ IsFiniteSet(BusyUpTo(w))
                                 /\ Cardinality(BusyUpTo(w)) \in Nat
           /\ \A w \in Writers : Writing(w) => Cardinality(BusyUpTo(w)) > 0
<1>1. IsFiniteSet(Busy) /\ Cardinality(Busy) \in Nat
  BY FS_CardinalityType DEF TypeInv, CountInv
<1>2. ASSUME NEW w \in Writers
      PROVE  IsFiniteSet(BusyUpTo(w)) /\ Cardinality(BusyUpTo(w)) \in Nat
  <2>1. BusyUpTo(w) \in SUBSET Busy
    BY DEF BusyUpTo, Busy
  <2> QED
    BY <1>1, <2>1, FS_Subset, FS_CardinalityType
<1>3. ASSUME NEW w \in Writers, Writing(w)
      PROVE  Cardinality(BusyUpTo(w)) > 0
  <2>1. w \in BusyUpTo(w)
    BY <1>3 DEF BusyUpTo
  <2> QED
    BY <1>2, <2>1, FS_EmptySet
<1> QED
  BY <1>1, <1>2, <1>3

\* A thread begins an entry.
LEMMA BeginStep ==
    ASSUME TypeInv, NEW w \in Writers, Begin(w),
           UNCHANGED <<activation_entry_counter, loaded>>
    PROVE  CountInv'
<1>1. /\ pc[w] = "idle" /\ pc' = [pc EXCEPT ![w] = "interface"] /\ MayRun(w)
      /\ written' = written + 1
  BY DEF Begin, At
<1>2. pc'[w] = "interface" /\ \A v \in Writers : v # w => pc'[v] = pc[v]
  BY <1>1 DEF TypeInv, TypeOK
<1>3. Busy' = Busy \cup {w} /\ w \notin Busy
  BY <1>1, <1>2 DEF Busy, Writing
<1>4. IsFiniteSet(Busy') /\ Cardinality(Busy') = Cardinality(Busy) + 1
  BY <1>3, BusyType, FS_AddElement
<1>5. ASSUME NEW v \in Writers, pc'[v] = "store"
      PROVE  loaded'[v] + Cardinality(BusyUpTo(v))' <= written'
  <2>1. v # w /\ pc[v] = "store" /\ ~(v > w)
    BY <1>1, <1>2, <1>5 DEF MayRun, Writing
  <2>2. \A u \in Writers : u <= v => u # w
    <3>1. v \in Nat /\ w \in Nat
      OBVIOUS
    <3> QED
      BY <2>1, <3>1
  <2>3. \A u \in Writers : u <= v => (Writing(u)' <=> Writing(u))
    BY <1>2, <2>2 DEF Writing
  <2>4. BusyUpTo(v)' = BusyUpTo(v)
    BY <2>3 DEF BusyUpTo
  <2>5. loaded[v] + Cardinality(BusyUpTo(v)) <= written
    BY <2>1 DEF TypeInv, CountInv
  <2>6. loaded[v] \in Nat /\ Cardinality(BusyUpTo(v)) \in Nat /\ written \in Nat
    BY BusyType DEF TypeInv, TypeOK
  <2> QED
    BY <1>1, <2>4, <2>5, <2>6
<1>6. activation_entry_counter' + Cardinality(Busy)' <= written'
  <2>1. /\ activation_entry_counter \in Nat /\ Cardinality(Busy) \in Nat
        /\ written \in Nat
        /\ activation_entry_counter + Cardinality(Busy) <= written
    BY BusyType DEF TypeInv, TypeOK, CountInv
  <2> QED
    BY <1>1, <1>4, <2>1
<1> QED
  BY <1>4, <1>5, <1>6 DEF CountInv

\* A thread stores the counter; what it counts is one of the entries begun.
LEMMA StoreStep ==
    ASSUME TypeInv, NEW w \in Writers, StoreCounter(w)
    PROVE  CountInv' /\ activation_entry_counter' \in 0..MaxEntries
<1>1. /\ pc[w] = "store" /\ pc' = [pc EXCEPT ![w] = "idle"] /\ MayRun(w)
      /\ activation_entry_counter' = loaded[w] + 1
      /\ loaded' = [loaded EXCEPT ![w] = 0] /\ written' = written
  BY DEF StoreCounter, At, history
<1>2. pc'[w] = "idle" /\ \A v \in Writers : v # w => pc'[v] = pc[v]
  BY <1>1 DEF TypeInv, TypeOK
<1>3. Busy' = Busy \ {w} /\ w \in Busy
  BY <1>1, <1>2 DEF Busy, Writing
<1>4. IsFiniteSet(Busy') /\ Cardinality(Busy') = Cardinality(Busy) - 1
  BY <1>3, BusyType, FS_RemoveElement
<1>5. /\ loaded[w] + Cardinality(Busy) <= written
      /\ loaded[w] \in Nat /\ Cardinality(Busy) \in Nat \ {0}
      /\ written \in 0..MaxEntries
  <2>1. BusyUpTo(w) = Busy
    BY <1>1, RunningIsTop
  <2>2. Writing(w)
    BY <1>1 DEF Writing
  <2>3. Cardinality(Busy) \in Nat /\ Cardinality(Busy) > 0
    BY <2>1, <2>2, BusyType
  <2> QED
    BY <1>1, <2>1, <2>3 DEF TypeInv, TypeOK, CountInv
<1>6. /\ activation_entry_counter' + Cardinality(Busy)' <= written'
      /\ activation_entry_counter' \in 0..MaxEntries
  BY <1>1, <1>4, <1>5
<1>7. ASSUME NEW v \in Writers, pc'[v] = "store"
      PROVE  loaded'[v] + Cardinality(BusyUpTo(v))' <= written'
  <2>1. v # w /\ pc[v] = "store" /\ ~(v > w)
    BY <1>1, <1>2, <1>7 DEF MayRun, Writing
  <2>2. \A u \in Writers : u <= v => u # w
    <3>1. v \in Nat /\ w \in Nat
      OBVIOUS
    <3> QED
      BY <2>1, <3>1
  <2>3. \A u \in Writers : u <= v => (Writing(u)' <=> Writing(u))
    BY <1>2, <2>2 DEF Writing
  <2>4. BusyUpTo(v)' = BusyUpTo(v)
    BY <2>3 DEF BusyUpTo
  <2>5. loaded'[v] = loaded[v]
    BY <1>1, <2>1 DEF TypeInv, TypeOK
  <2> QED
    BY <1>1, <2>1, <2>4, <2>5 DEF TypeInv, CountInv
<1> QED
  BY <1>4, <1>6, <1>7 DEF CountInv

-----------------------------------------------------------------------------
\* The operator's and the threads' steps that write no counter keep the types.
LEMMA FreezeStep ==
    ASSUME TypeInv, \/ Monitor_FreezeInterfaceActivationLogging
                    \/ Monitor_UnfreezeInterfaceActivationLogging
    PROVE  TypeInv'
<1>1. UNCHANGED <<store, locals, clock, written, recent, clashes, log_view>>
  BY DEF Monitor_FreezeInterfaceActivationLogging,
         Monitor_UnfreezeInterfaceActivationLogging
<1>2. is_frozen' \in BOOLEAN
  BY DEF Monitor_FreezeInterfaceActivationLogging,
         Monitor_UnfreezeInterfaceActivationLogging
<1>3. \/ is_frozen' = TRUE /\ late' = late
      \/ is_frozen' = FALSE /\ late' = [w \in Writers |-> 0]
  BY DEF Monitor_FreezeInterfaceActivationLogging,
         Monitor_UnfreezeInterfaceActivationLogging
<1>4. FrozenInv' /\ late' \in [Writers -> 0..MaxEntries]
  BY <1>1, <1>3 DEF TypeInv, TypeOK, FrozenInv, Writing
<1>5. TypeOK'
  BY <1>1, <1>2, <1>4 DEF TypeInv, TypeOK
<1>6. CountInv'
  BY <1>1 DEF TypeInv, CountInv, Busy, BusyUpTo, Writing
<1> QED
  BY <1>4, <1>5, <1>6 DEF TypeInv

\* Clearing the log resets the counter but none of the entries being written.
LEMMA ClearStep ==
    ASSUME TypeInv, Monitor_ClearInterfaceActivationLog
    PROVE  TypeInv'
<1>1. /\ activation_entry_counter' = 0 /\ recent' = <<>>
      /\ clashes' \subseteq clashes \cup {"clear"}
      /\ UNCHANGED <<is_frozen, activation_log_buffer, locals, clock, written,
                     late, log_view>>
  BY DEF Monitor_ClearInterfaceActivationLog
<1>2. recent' \in Seq(Entries) /\ Len(recent') <= Size
  BY <1>1, EmptySeq DEF Size
<1>3. TypeOK'
  BY <1>1, <1>2 DEF TypeInv, TypeOK
<1>4. CountInv'
  <2>1. \A w \in Writers : Writing(w)' <=> Writing(w)
    BY <1>1 DEF Writing
  <2>2. activation_entry_counter \in Nat
    BY DEF TypeInv, TypeOK
  <2> QED
    BY <1>1, <2>1, <2>2, SameBusy, CountKept
<1>5. FrozenInv'
  BY <1>1 DEF TypeInv, FrozenInv, Writing
<1> QED
  BY <1>3, <1>4, <1>5 DEF TypeInv

\* Reading the log changes nothing but the answer.
LEMMA GetStep ==
    ASSUME TypeInv, Monitor_GetInterfaceActivationEntryLog
    PROVE  TypeInv'
<1>1. log_view' = LogView
      /\ UNCHANGED <<is_frozen, store, locals, clock, history>>
  BY DEF Monitor_GetInterfaceActivationEntryLog
<1>2. LogView \in [index : Int, size : 0..Size]
  BY SlotType DEF TypeInv, TypeOK, LogView, Slots, Size
<1>3. TypeOK'
  BY <1>1, <1>2 DEF TypeInv, TypeOK
<1>4. CountInv' /\ FrozenInv'
  BY <1>1 DEF TypeInv, CountInv, FrozenInv, Busy, BusyUpTo, Writing
<1> QED
  BY <1>3, <1>4 DEF TypeInv

\* An interface is indicated: in a frozen log nothing else happens.
LEMMA IndicateStep ==
    ASSUME TypeInv, NEW w \in Writers, IndicateInterface(w)
    PROVE  TypeInv'
<1>1. /\ inside' = [inside EXCEPT ![w] = ~@]
      /\ UNCHANGED <<is_frozen, store, loaded, clock, recent, late, log_view>>
  BY DEF IndicateInterface
<1>2. inside' \in [Writers -> BOOLEAN]
  BY <1>1 DEF TypeInv, TypeOK
<1>3. CASE is_frozen /\ UNCHANGED <<written, pc, clashes, entry>>
  <2>1. TypeOK'
    BY <1>1, <1>2, <1>3 DEF TypeInv, TypeOK
  <2>2. CountInv' /\ FrozenInv'
    BY <1>1, <1>3 DEF TypeInv, CountInv, FrozenInv, Busy, BusyUpTo, Writing
  <2> QED
    BY <2>1, <2>2 DEF TypeInv
<1>4. CASE ~is_frozen /\ Begin(w)
  <2>1. CountInv'
    BY <1>1, <1>4, BeginStep
  <2>2. FrozenInv'
    BY <1>1, <1>4 DEF TypeInv, FrozenInv, Writing
  <2>3. /\ pc' \in [Writers -> {"idle", "interface", "type", "time", "load", "store"}]
        /\ written' \in 0..MaxEntries
        /\ clashes' \subseteq {"thread", "clear"}
    BY <1>4 DEF Begin, At, TypeInv, TypeOK
  <2>4. entry' \in [Writers -> Entries]
    <3> DEFINE e == [interface |-> w, timestamp |-> NoValue,
                     entry_type |-> IF inside[w] THEN "deactivation"
                                    ELSE "activation"]
    <3>1. e \in Entries
      BY DEF Entries, EntryTypes
    <3> QED
      BY <1>4, <3>1 DEF Begin, TypeInv, TypeOK
  <2>5. TypeOK'
    BY <1>1, <1>2, <2>3, <2>4 DEF TypeInv, TypeOK
  <2> QED
    BY <2>1, <2>2, <2>5 DEF TypeInv
<1> QED
  BY <1>3, <1>4 DEF IndicateInterface

\* A field of the entry is written to the slot.
LEMMA FieldStep ==
    ASSUME TypeInv, NEW w \in Writers,
           WriteInterface(w) \/ WriteEntryType(w) \/ WriteTimestamp(w)
    PROVE  TypeInv'
<1>1. /\ UNCHANGED <<is_frozen, activation_entry_counter, loaded, inside,
                     history, log_view>>
      /\ \/ At(w, "interface", "type")
         \/ At(w, "type", "time")
         \/ At(w, "time", "load")
  BY DEF WriteInterface, WriteEntryType, WriteTimestamp
<1>2. /\ \A v \in Writers : Writing(v)' <=> Writing(v)
      /\ Busy' = Busy /\ \A v \in Writers : BusyUpTo(v)' = BusyUpTo(v)
      /\ \A v \in Writers : v # w => pc'[v] = pc[v]
      /\ pc'[w] \in {"type", "time", "load"}
  BY <1>1, AtStep DEF TypeInv
<1>3. CountInv'
  <2>1. activation_entry_counter \in Nat
    BY DEF TypeInv, TypeOK
  <2> QED
    BY <1>1, <1>2, <2>1, CountKept
<1>4. FrozenInv'
  BY <1>1, <1>2 DEF TypeInv, FrozenInv
<1>5. pc' \in [Writers -> {"idle", "interface", "type", "time", "load", "store"}]
  BY <1>1 DEF At, TypeInv, TypeOK
<1>6. clock' \in Nat /\ entry' \in [Writers -> Entries]
  <2>1. CASE UNCHANGED <<entry, clock>>
    BY <2>1 DEF TypeInv, TypeOK
  <2>2. CASE WriteTimestamp(w)
    <3>1. /\ clock' = clock + 1 /\ clock \in Nat
          /\ entry' = [entry EXCEPT ![w].timestamp = clock]
      BY <2>2 DEF WriteTimestamp, TypeInv, TypeOK
    <3>2. entry[w] \in Entries
      BY DEF TypeInv, TypeOK
    <3>3. \A e \in Entries : [e EXCEPT !.timestamp = clock] \in Entries
      BY <3>1 DEF Entries
    <3>4. entry' = [entry EXCEPT ![w] = [entry[w] EXCEPT !.timestamp = clock]]
      BY <3>1
    <3> QED
      BY <3>1, <3>2, <3>3, <3>4 DEF TypeInv, TypeOK
  <2> QED
    BY <2>1, <2>2 DEF WriteInterface, WriteEntryType
<1>7. activation_log_buffer' \in [Slots -> Entries]
  <2> DEFINE old == activation_log_buffer[Slot]
  <2>1. old \in Entries /\ Slot \in Slots
    BY SlotType DEF TypeInv, TypeOK
  <2>2. clock \in Nat /\ entry[w] \in Entries
    BY DEF TypeInv, TypeOK
  <2>3. /\ [old EXCEPT !.interface = w] \in Entries
        /\ [old EXCEPT !.entry_type = entry[w].entry_type] \in Entries
        /\ [old EXCEPT !.timestamp = clock] \in Entries
    BY <2>1, <2>2 DEF Entries
  <2>4. \E e \in Entries :
            activation_log_buffer' = [activation_log_buffer EXCEPT ![Slot] = e]
    BY <2>3 DEF WriteInterface, WriteEntryType, WriteTimestamp
  <2> QED
    BY <2>1, <2>4 DEF TypeInv, TypeOK
<1>8. TypeOK'
  BY <1>1, <1>5, <1>6, <1>7 DEF TypeInv, TypeOK
<1> QED
  BY <1>3, <1>4, <1>8 DEF TypeInv

\* A thread loads the counter, having preempted all others that write.
LEMMA LoadStep ==
    ASSUME TypeInv, NEW w \in Writers, LoadCounter(w)
    PROVE  TypeInv'
<1>1. /\ At(w, "load", "store") /\ MayRun(w)
      /\ loaded' = [loaded EXCEPT ![w] = activation_entry_counter]
      /\ UNCHANGED <<is_frozen, store, entry, inside, clock, history, log_view>>
  BY DEF LoadCounter, At
<1>2. /\ \A v \in Writers : Writing(v)' <=> Writing(v)
      /\ Busy' = Busy /\ \A v \in Writers : BusyUpTo(v)' = BusyUpTo(v)
      /\ \A v \in Writers : v # w => pc'[v] = pc[v]
  BY <1>1, AtStep DEF TypeInv
<1>3. /\ loaded'[w] = activation_entry_counter
      /\ \A v \in Writers : v # w => loaded'[v] = loaded[v]
  BY <1>1 DEF TypeInv, TypeOK
<1>4. CountInv'
  BY <1>1, <1>2, <1>3, RunningIsTop DEF TypeInv, CountInv
<1>5. FrozenInv'
  BY <1>1, <1>2 DEF TypeInv, FrozenInv
<1>6. pc' \in [Writers -> {"idle", "interface", "type", "time", "load", "store"}]
  BY <1>1 DEF At, TypeInv, TypeOK
<1>7. TypeOK'
  BY <1>1, <1>6 DEF TypeInv, TypeOK
<1> QED
  BY <1>4, <1>5, <1>7 DEF TypeInv

\* What the history remembers is a sequence that fits the buffer.
LEMMA RecentType ==
    ASSUME TypeInv, NEW e \in Entries
    PROVE  /\ LastEntries(Append(recent, e)) \in Seq(Entries)
           /\ Len(LastEntries(Append(recent, e))) = AtMostSize(Len(recent) + 1)
<1> DEFINE s == Append(recent, e)
<1>1. s \in Seq(Entries) /\ Len(s) = Len(recent) + 1
  BY AppendProperties DEF TypeInv, TypeOK
<1>2. s # <<>> /\ Tail(s) \in Seq(Entries) /\ Len(Tail(s)) = Len(recent)
  BY <1>1, HeadTailProperties DEF TypeInv, TypeOK
<1>3. Len(recent) \in Nat /\ Len(recent) <= Size /\ Size \in Nat
  BY DEF TypeInv, TypeOK, Size
<1> QED
  BY <1>1, <1>2, <1>3 DEF LastEntries, AtMostSize

\* Storing the counter ends an entry.
LEMMA StoreKeepsTypes ==
    ASSUME TypeInv, NEW w \in Writers, StoreCounter(w)
    PROVE  TypeInv'
<1>1. /\ pc[w] = "store" /\ pc' = [pc EXCEPT ![w] = "idle"]
      /\ loaded' = [loaded EXCEPT ![w] = 0]
      /\ entry' = [entry EXCEPT ![w] = Blank]
      /\ late' = [late EXCEPT ![w] = IF is_frozen THEN @ + 1 ELSE 0]
      /\ recent' = LastEntries(Append(recent, entry[w]))
      /\ UNCHANGED <<is_frozen, activation_log_buffer, inside, clock, written,
                     clashes, log_view>>
  BY DEF StoreCounter, At
<1>2. CountInv' /\ activation_entry_counter' \in 0..MaxEntries
  BY StoreStep
<1>3. pc' \in [Writers -> {"idle", "interface", "type", "time", "load", "store"}]
  BY <1>1 DEF TypeInv, TypeOK
<1>4. loaded' \in [Writers -> 0..MaxEntries]
  BY <1>1 DEF TypeInv, TypeOK
<1>5. entry' \in [Writers -> Entries]
  <2>1. Blank \in Entries
    BY DEF Blank, Entries
  <2> QED
    BY <1>1, <2>1 DEF TypeInv, TypeOK
<1>6. recent' \in Seq(Entries) /\ Len(recent') <= Size
  <2>1. entry[w] \in Entries /\ Len(recent) \in Nat /\ Size \in Nat
    BY DEF TypeInv, TypeOK, Size
  <2> QED
    BY <1>1, <2>1, RecentType DEF AtMostSize
<1>7. late[w] = 0 /\ Writing(w) /\ 1 \in 0..MaxEntries
  <2>1. Writing(w) /\ late[w] = 0
    BY <1>1 DEF Writing, TypeInv, FrozenInv
  <2>2. Cardinality(BusyUpTo(w)) > 0 /\ Cardinality(BusyUpTo(w)) \in Nat
    BY <2>1, BusyType
  <2>3. /\ loaded[w] + Cardinality(BusyUpTo(w)) <= written
        /\ loaded[w] \in Nat /\ written \in 0..MaxEntries
    BY <1>1 DEF TypeInv, TypeOK, CountInv
  <2> QED
    BY <2>1, <2>2, <2>3
<1>8. FrozenInv' /\ late' \in [Writers -> 0..MaxEntries]
  BY <1>1, <1>7 DEF TypeInv, TypeOK, FrozenInv, Writing
<1>9. TypeOK'
  BY <1>1, <1>2, <1>3, <1>4, <1>5, <1>6, <1>8 DEF TypeInv, TypeOK
<1> QED
  BY <1>2, <1>8, <1>9 DEF TypeInv

-----------------------------------------------------------------------------
\* Every variable keeps its type; in particular the counter never exceeds the
\* number of entries begun, whatever preempts its increment.
LEMMA TypeInvariant == Spec => []TypeInv
<1>1. Init => TypeInv
  <2> SUFFICES ASSUME Init PROVE TypeInv
    OBVIOUS
  <2>1. Blank \in Entries /\ <<>> \in Seq(Entries) /\ Len(<<>>) = 0
    BY EmptySeq DEF Blank, Entries
  <2>2. TypeOK
    BY <2>1 DEF Init, TypeOK, Size
  <2>3. Busy = {}
    BY DEF Init, Busy, Writing
  <2>4. CountInv
    BY <2>3, FS_EmptySet DEF Init, CountInv
  <2>5. FrozenInv
    BY DEF Init, FrozenInv
  <2> QED
    BY <2>2, <2>4, <2>5 DEF TypeInv
<1>2. TypeInv /\ [Next]_vars => TypeInv'
  <2> SUFFICES ASSUME TypeInv, [Next]_vars PROVE TypeInv'
    OBVIOUS
  <2>1. ASSUME NEW w \in Writers, WriterStep(w)
        PROVE  TypeInv'
    BY <2>1, IndicateStep, FieldStep, LoadStep, StoreKeepsTypes DEF WriterStep
  <2>2. CASE OperatorStep
    BY <2>2, FreezeStep, ClearStep, GetStep DEF OperatorStep
  <2>3. CASE UNCHANGED vars
    <3>1. TypeOK'
      BY <2>3 DEF vars, TypeInv, TypeOK
    <3> QED
      BY <2>3, <3>1 DEF vars, TypeInv, CountInv, FrozenInv, Busy, BusyUpTo, Writing
  <2> QED
    BY <2>1, <2>2, <2>3 DEF Next
<1> QED
  BY <1>1, <1>2, PTL DEF Spec

\* The type invariant of the log, for every number of entries.
THEOREM TypeCorrect == Spec => []TypeOK
<1>1. TypeInv => TypeOK
  BY DEF TypeInv
<1> QED
  BY <1>1, TypeInvariant, PTL

\* A frozen log comes to rest: no thread completes more than the one entry that
\* it was writing when Monitor_FreezeInterfaceActivationLogging was called.
THEOREM FrozenLogComesToRestCorrect == Spec => []FrozenLogComesToRest
<1>1. TypeInv => FrozenLogComesToRest
  BY DEF TypeInv, FrozenInv, FrozenLogComesToRest
<1> QED
  BY <1>1, TypeInvariant, PTL

-----------------------------------------------------------------------------
\* No step makes the log count an entry that was not completed, unless the log
\* is cleared within an entry.
LEMMA PhantomInvariant ==
    ASSUME TypeInv, PhantomInv, [Next]_vars
    PROVE  PhantomInv'
<1>1. /\ activation_entry_counter \in Nat /\ Len(recent) \in Nat
      /\ Len(recent) <= Size /\ Size \in Nat \ {0}
      /\ \A w \in Writers : loaded[w] \in Nat
  BY DEF TypeInv, TypeOK, Size
<1>2. ASSUME NEW w \in Writers, StoreCounter(w), "clear" \notin clashes'
      PROVE  PhantomInv'
  <2>1. /\ pc[w] = "store" /\ pc' = [pc EXCEPT ![w] = "idle"]
        /\ activation_entry_counter' = loaded[w] + 1
        /\ loaded' = [loaded EXCEPT ![w] = 0]
        /\ recent' = LastEntries(Append(recent, entry[w]))
        /\ clashes' = clashes
    BY <1>2 DEF StoreCounter, At
  <2>2. Len(recent') = AtMostSize(Len(recent) + 1)
    <3>1. entry[w] \in Entries
      BY DEF TypeInv, TypeOK
    <3> QED
      BY <2>1, <3>1, RecentType
  <2>3. AtMostSize(loaded[w]) <= Len(recent)
    BY <1>2, <2>1 DEF PhantomInv
  <2>4. AtMostSize(activation_entry_counter') <= Len(recent')
    BY <1>1, <2>1, <2>2, <2>3 DEF AtMostSize
  <2>5. ASSUME NEW v \in Writers, pc'[v] = "store"
        PROVE  AtMostSize(loaded'[v]) <= Len(recent')
    <3>1. v # w /\ pc[v] = "store" /\ loaded'[v] = loaded[v]
      BY <2>1, <2>5 DEF TypeInv, TypeOK
    <3>2. AtMostSize(loaded[v]) <= Len(recent)
      BY <1>2, <2>1, <3>1 DEF PhantomInv
    <3> QED
      BY <1>1, <2>2, <3>1, <3>2 DEF AtMostSize
  <2> QED
    BY <2>4, <2>5 DEF PhantomInv, AtMostSize, Size
<1>3. ASSUME NEW w \in Writers, LoadCounter(w)
      PROVE  PhantomInv'
  <2>1. /\ pc' = [pc EXCEPT ![w] = "store"]
        /\ loaded' = [loaded EXCEPT ![w] = activation_entry_counter]
        /\ UNCHANGED <<store, history>>
    BY <1>3 DEF LoadCounter, At
  <2> QED
    BY <2>1 DEF PhantomInv, AtMostSize, TypeInv, TypeOK, Size
<1>4. ASSUME Monitor_ClearInterfaceActivationLog, "clear" \notin clashes'
      PROVE  PhantomInv'
  <2>1. /\ NobodyWrites /\ activation_entry_counter' = 0 /\ recent' = <<>>
        /\ pc' = pc
    BY <1>4 DEF Monitor_ClearInterfaceActivationLog
  <2>2. \A w \in Writers : pc'[w] # "store"
    BY <2>1 DEF NobodyWrites, Writing
  <2>3. Len(recent') = 0
    BY <2>1, EmptySeq
  <2> QED
    BY <1>1, <2>1, <2>2, <2>3 DEF PhantomInv, AtMostSize, Size
<1>5. ASSUME UNCHANGED <<activation_entry_counter, recent, loaded>>,
             "clear" \notin clashes' => "clear" \notin clashes,
             \A v \in Writers : pc'[v] = "store" => pc[v] = "store"
      PROVE  PhantomInv'
  BY <1>5 DEF PhantomInv, AtMostSize, Size
<1>6. ASSUME NEW w \in Writers, NEW from, NEW to, At(w, from, to),
             to # "store"
      PROVE  \A v \in Writers : pc'[v] = "store" => pc[v] = "store"
  BY <1>6 DEF At, TypeInv, TypeOK
<1>7. ASSUME NEW w \in Writers, IndicateInterface(w)
      PROVE  PhantomInv'
  BY <1>5, <1>6, <1>7 DEF IndicateInterface, Begin
<1>8. ASSUME NEW w \in Writers,
             WriteInterface(w) \/ WriteEntryType(w) \/ WriteTimestamp(w)
      PROVE  PhantomInv'
  BY <1>5, <1>6, <1>8 DEF WriteInterface, WriteEntryType, WriteTimestamp
<1>9. CASE \/ Monitor_FreezeInterfaceActivationLogging
           \/ Monitor_UnfreezeInterfaceActivationLogging
           \/ Monitor_GetInterfaceActivationEntryLog
           \/ UNCHANGED vars
  BY <1>5, <1>9 DEF Monitor_FreezeInterfaceActivationLogging,
     Monitor_UnfreezeInterfaceActivationLogging,
     Monitor_GetInterfaceActivationEntryLog, vars
<1>10. CASE "clear" \in clashes'
  BY <1>10 DEF PhantomInv
<1> QED
  BY <1>2, <1>3, <1>4, <1>7, <1>8, <1>9, <1>10
  DEF Next, OperatorStep, WriterStep

\* Threads that preempt each other never make the log report more entries than
\* were completed since it was cleared.
THEOREM NoPhantomEntriesCorrect == Spec => []NoPhantomEntries
<1>1. Init => PhantomInv
  BY EmptySeq DEF Init, PhantomInv, AtMostSize, Size
<1>2. TypeInv /\ PhantomInv => NoPhantomEntries
  <2> SUFFICES ASSUME TypeInv, PhantomInv, "clear" \notin clashes
               PROVE  LogView.size <= Len(recent)
    BY DEF NoPhantomEntries
  <2>1. /\ AtMostSize(activation_entry_counter) <= Len(recent)
        /\ activation_entry_counter \in Nat /\ Len(recent) \in Nat
    BY DEF PhantomInv, TypeInv, TypeOK
  <2> QED
    BY <2>1 DEF LogView, AtMostSize, Size
<1> QED
  BY <1>1, <1>2, TypeInvariant, PhantomInvariant, PTL DEF Spec

-----------------------------------------------------------------------------
\* Fewer than Size entries apart, two values of the counter have different slots.
LEMMA SlotsDiffer ==
    ASSUME NEW n \in Nat, NEW k \in 1..(Size - 1), k <= n
    PROVE  (n - k) % Size # n % Size /\ (n - k) % Size \in Slots /\ n % Size \in Slots
<1>1. Size \in Nat \ {0} /\ n - k \in Nat
  BY DEF Size
<1> HIDE DEF Size
<1> DEFINE a == n - k
           p == n \div Size
           q == a \div Size
<1>2. ASSUME NEW m \in Nat
      PROVE  /\ m % Size \in 0..(Size - 1) /\ m \div Size \in Nat
             /\ m = Size * (m \div Size) + (m % Size)
  BY <1>1
<1>3. ASSUME a % Size = n % Size
      PROVE  FALSE
  <2>1. p \in Int /\ q \in Int /\ n - a = Size * p - Size * q
    BY <1>1, <1>2, <1>3
  <2>2. Size * p - Size * q = Size * (p - q)
    BY <1>1, <2>1
  <2>3. n - a = k
    BY <1>1
  <2> HIDE DEF p, q, a
  <2>4. k = Size * (p - q) /\ k \in Nat /\ 0 < k /\ k < Size
    BY <1>1, <2>1, <2>2, <2>3
  <2>5. p - q <= 0 => Size * (p - q) <= 0
    BY <1>1, <2>1
  <2>6. p - q >= 1 => Size * (p - q) >= Size
    BY <1>1, <2>1
  <2> QED
    BY <1>1, <2>1, <2>4, <2>5, <2>6
<1> QED
  BY <1>1, <1>2, <1>3 DEF Slots

\* What the history remembers, read backwards: the new entry, then the old ones.
LEMMA RecentShifted ==
    ASSUME TypeInv, NEW e \in Entries
    PROVE  LET new == LastEntries(Append(recent, e))
           IN  /\ new[Len(new)] = e
               /\ \A k \in 2..Len(new) :
                      new[Len(new) + 1 - k] = recent[Len(recent) + 1 - (k - 1)]
<1> DEFINE s == Append(recent, e)
           n == Len(recent)
<1>1. /\ s \in Seq(Entries) /\ s # <<>> /\ Len(s) = n + 1 /\ n \in Nat
      /\ s[n + 1] = e /\ \A i \in 1..n : s[i] = recent[i]
  BY AppendProperties DEF TypeInv, TypeOK
<1>2. /\ Len(Tail(s)) = n
      /\ \A i \in 1..n : Tail(s)[i] = s[i + 1]
  BY <1>1, HeadTailProperties
<1>3. n <= Size /\ Size \in Nat \ {0}
  BY DEF TypeInv, TypeOK, Size
<1> HIDE DEF s, n
<1>4. CASE n + 1 > Size
  <2>1. LastEntries(s) = Tail(s) /\ n >= 1
    BY <1>1, <1>3, <1>4 DEF LastEntries
  <2>2. Tail(s)[n] = e
    BY <1>1, <1>2, <2>1
  <2>3. ASSUME NEW k \in 2..n
        PROVE  Tail(s)[n + 1 - k] = recent[n + 1 - (k - 1)]
    <3>1. /\ n + 1 - k \in 1..n /\ n + 1 - (k - 1) \in 1..n
          /\ (n + 1 - k) + 1 = n + 1 - (k - 1)
      BY <1>1, <2>3
    <3> QED
      BY <1>1, <1>2, <3>1
  <2> QED
    BY <1>2, <2>1, <2>2, <2>3 DEF s, n
<1>5. CASE ~(n + 1 > Size)
  <2>1. LastEntries(s) = s
    BY <1>1, <1>5 DEF LastEntries
  <2>2. ASSUME NEW k \in 2..(n + 1)
        PROVE  s[(n + 1) + 1 - k] = recent[n + 1 - (k - 1)]
    <3>1. (n + 1) + 1 - k = n + 1 - (k - 1) /\ n + 1 - (k - 1) \in 1..n
      BY <1>1, <2>2
    <3> QED
      BY <1>1, <3>1
  <2> QED
    BY <1>1, <2>1, <2>2 DEF s, n
<1> QED
  BY <1>4, <1>5

-----------------------------------------------------------------------------
\* A thread that begins an entry while nobody writes finds an intact log.
LEMMA BufferBegin ==
    ASSUME TypeInv, BufferInv, NEW w \in Writers, Begin(w), clashes' = {},
           UNCHANGED <<store, recent, loaded>>
    PROVE  BufferInv'
<1>1. /\ NobodyWrites /\ clashes = {}
      /\ pc' = [pc EXCEPT ![w] = "interface"]
      /\ entry'[w].interface = w
  BY DEF Begin, At, TypeInv, TypeOK
<1>2. pc'[w] = "interface" /\ \A v \in Writers : v # w => pc'[v] = "idle"
  BY <1>1 DEF NobodyWrites, Writing, TypeInv, TypeOK
<1>3. SlotHolds(w)'
  BY <1>1, <1>2 DEF SlotHolds
<1>4. /\ Len(recent) = AtMostSize(activation_entry_counter)
      /\ \A k \in 1..Len(recent) : Holds(k)
  BY <1>1 DEF BufferInv
<1> QED
  BY <1>2, <1>3, <1>4 DEF BufferInv, Writing, Holds, AtMostSize, Size

\* A field written to the slot of the counter touches no other entry.
LEMMA BufferField ==
    ASSUME TypeInv, BufferInv, NEW w \in Writers, clashes' = {},
           WriteInterface(w) \/ WriteEntryType(w) \/ WriteTimestamp(w)
    PROVE  BufferInv'
<1>1. /\ UNCHANGED <<activation_entry_counter, loaded, recent, clashes>>
      /\ clashes = {}
      /\ \E to \in {"type", "time", "load"} : pc' = [pc EXCEPT ![w] = to]
      /\ Writing(w)
  BY DEF WriteInterface, WriteEntryType, WriteTimestamp, At, Writing
<1>2. /\ pc'[w] \in {"type", "time", "load"}
      /\ \A v \in Writers : v # w => pc'[v] = pc[v] /\ pc'[v] = "idle"
  <2>1. \A v \in Writers : v # w => pc[v] = "idle"
    BY <1>1 DEF BufferInv, Writing
  <2> QED
    BY <1>1, <2>1 DEF TypeInv, TypeOK
<1>3. \A i \in Slots : i # Slot => activation_log_buffer'[i] = activation_log_buffer[i]
  BY DEF WriteInterface, WriteEntryType, WriteTimestamp, TypeInv, TypeOK
<1>4. SlotHolds(w) /\ Slot' = Slot /\ Slot \in Slots
  BY <1>1, SlotType DEF BufferInv, Slot, TypeInv, Size
<1>5. SlotHolds(w)'
  <2>1. CASE WriteInterface(w)
    BY <1>4, <2>1 DEF WriteInterface, At, SlotHolds, TypeInv, TypeOK, Entries
  <2>2. CASE WriteEntryType(w)
    BY <1>4, <2>2 DEF WriteEntryType, At, SlotHolds, TypeInv, TypeOK, Entries
  <2>3. CASE WriteTimestamp(w)
    BY <1>4, <2>3 DEF WriteTimestamp, At, SlotHolds, TypeInv, TypeOK, Entries
  <2> QED
    BY <2>1, <2>2, <2>3
<1>6. ASSUME NEW k \in 1..Len(recent), k < Size
      PROVE  Holds(k)'
  <2>1. /\ Len(recent) = AtMostSize(activation_entry_counter)
        /\ activation_entry_counter \in Nat /\ Size \in Nat \ {0}
        /\ Len(recent) \in Nat /\ Holds(k)
    BY <1>1, <1>6 DEF BufferInv, TypeInv, TypeOK, Size
  <2>2. k <= activation_entry_counter /\ k \in 1..(Size - 1)
    BY <1>6, <2>1 DEF AtMostSize
  <2>3. /\ (activation_entry_counter - k) % Size \in Slots
        /\ (activation_entry_counter - k) % Size # Slot
    BY <2>1, <2>2, SlotsDiffer DEF Slot
  <2> QED
    BY <1>1, <1>3, <2>1, <2>3 DEF Holds, Size
<1> QED
  BY <1>1, <1>2, <1>5, <1>6 DEF BufferInv, Writing, NobodyWrites, AtMostSize, Size

\* The counter that a lone thread loads is the one it increments.
LEMMA BufferLoad ==
    ASSUME TypeInv, BufferInv, NEW w \in Writers, LoadCounter(w), clashes' = {}
    PROVE  BufferInv'
<1>1. /\ UNCHANGED <<store, entry, recent, clashes>> /\ clashes = {}
      /\ pc[w] = "load" /\ pc' = [pc EXCEPT ![w] = "store"]
      /\ loaded' = [loaded EXCEPT ![w] = activation_entry_counter]
  BY DEF LoadCounter, At
<1>2. /\ pc'[w] = "store" /\ loaded'[w] = activation_entry_counter /\ Writing(w)
      /\ \A v \in Writers : v # w => pc'[v] = "idle"
  BY <1>1 DEF BufferInv, Writing, TypeInv, TypeOK
<1>3. SlotHolds(w)'
  BY <1>1, <1>2 DEF BufferInv, SlotHolds, Slot, Size
<1>4. /\ Len(recent) = AtMostSize(activation_entry_counter)
      /\ \A k \in 1..Len(recent) : k < Size => Holds(k)
  BY <1>1 DEF BufferInv
<1> QED
  BY <1>1, <1>2, <1>3, <1>4
  DEF BufferInv, Writing, NobodyWrites, Holds, AtMostSize, Size

\* A lone thread that stores the counter makes its slot the latest entry.
LEMMA BufferStore ==
    ASSUME TypeInv, BufferInv, NEW w \in Writers, StoreCounter(w), clashes' = {}
    PROVE  BufferInv'
<1>1. /\ UNCHANGED <<activation_log_buffer, clashes>> /\ clashes = {}
      /\ pc[w] = "store" /\ pc' = [pc EXCEPT ![w] = "idle"]
      /\ activation_entry_counter' = loaded[w] + 1
      /\ recent' = LastEntries(Append(recent, entry[w]))
  BY DEF StoreCounter, At
<1>2. /\ \A v \in Writers : pc'[v] = "idle"
      /\ loaded[w] = activation_entry_counter /\ SlotHolds(w)
  BY <1>1 DEF BufferInv, Writing, TypeInv, TypeOK
<1>3. /\ entry[w] \in Entries /\ activation_log_buffer[Slot] \in Entries
      /\ activation_entry_counter \in Nat /\ Size \in Nat \ {0}
      /\ Len(recent) \in Nat
      /\ Len(recent) = AtMostSize(activation_entry_counter)
  BY <1>1, SlotType DEF BufferInv, TypeInv, TypeOK, Size
<1>4. activation_log_buffer[Slot] = entry[w]
  BY <1>1, <1>2, <1>3 DEF SlotHolds, Entries
<1>5. /\ Len(recent') = AtMostSize(Len(recent) + 1)
      /\ recent'[Len(recent')] = entry[w]
      /\ \A k \in 2..Len(recent') :
             recent'[Len(recent') + 1 - k] = recent[Len(recent) + 1 - (k - 1)]
  BY <1>1, <1>3, RecentType, RecentShifted
<1>6. Len(recent') = AtMostSize(activation_entry_counter')
  BY <1>1, <1>2, <1>3, <1>5 DEF AtMostSize
<1>7. ASSUME NEW k \in 1..Len(recent')
      PROVE  Holds(k)'
  <2>1. CASE k = 1
    <3>1. activation_entry_counter' - k = activation_entry_counter
      BY <1>1, <1>2, <1>3, <2>1
    <3>2. recent'[Len(recent') + 1 - k] = entry[w]
      <4>1. Len(recent') \in Nat
        BY <1>3, <1>5 DEF AtMostSize
      <4> QED
        BY <1>5, <2>1, <4>1
    <3> QED
      BY <1>1, <1>4, <3>1, <3>2 DEF Holds, Slot, Size
  <2>2. CASE k # 1
    <3>1. /\ Len(recent') \in Nat /\ k \in 2..Len(recent')
          /\ k - 1 \in 1..Len(recent) /\ k - 1 < Size
      BY <1>3, <1>5, <2>2 DEF AtMostSize
    <3>2. Holds(k - 1)
      BY <1>1, <3>1 DEF BufferInv
    <3>3. activation_entry_counter' - k = activation_entry_counter - (k - 1)
      BY <1>1, <1>2, <1>3, <3>1
    <3> QED
      BY <1>1, <1>5, <3>1, <3>2, <3>3 DEF Holds, Size
  <2> QED
    BY <2>1, <2>2
<1> QED
  BY <1>2, <1>6, <1>7 DEF BufferInv, Writing, AtMostSize, Size

\* Without clashes no step damages the entries that the log still holds.
LEMMA BufferInvariant ==
    ASSUME TypeInv, BufferInv, [Next]_vars
    PROVE  BufferInv'
<1>1. CASE clashes' # {}
  BY <1>1 DEF BufferInv
<1>2. ASSUME clashes' = {}, UNCHANGED <<store, pc, entry, loaded, recent, clashes>>
      PROVE  BufferInv'
  BY <1>2 DEF BufferInv, NobodyWrites, Writing, SlotHolds, Slot, Holds,
     AtMostSize, Size
<1>3. ASSUME clashes' = {}, NEW w \in Writers, WriterStep(w)
      PROVE  BufferInv'
  <2>1. CASE IndicateInterface(w)
    BY <1>2, <1>3, <2>1, BufferBegin DEF IndicateInterface
  <2> QED
    BY <1>3, <2>1, BufferField, BufferLoad, BufferStore DEF WriterStep
<1>4. ASSUME clashes' = {}, Monitor_ClearInterfaceActivationLog
      PROVE  BufferInv'
  <2>1. /\ NobodyWrites /\ activation_entry_counter' = 0 /\ recent' = <<>>
        /\ pc' = pc
    BY <1>4 DEF Monitor_ClearInterfaceActivationLog
  <2>2. \A v \in Writers : pc'[v] = "idle"
    BY <2>1 DEF NobodyWrites, Writing
  <2>3. Len(recent') = 0 /\ Size \in Nat \ {0}
    BY <2>1, EmptySeq DEF Size
  <2> QED
    BY <2>1, <2>2, <2>3 DEF BufferInv, Writing, AtMostSize, Size
<1>5. CASE \/ Monitor_FreezeInterfaceActivationLogging
           \/ Monitor_UnfreezeInterfaceActivationLogging
           \/ Monitor_GetInterfaceActivationEntryLog
           \/ UNCHANGED vars
  BY <1>1, <1>2, <1>5 DEF Monitor_FreezeInterfaceActivationLogging,
     Monitor_UnfreezeInterfaceActivationLogging,
     Monitor_GetInterfaceActivationEntryLog, vars
<1> QED
  BY <1>1, <1>3, <1>4, <1>5 DEF Next, OperatorStep

\* The invariant of the buffer, in every state.
LEMMA BufferIntact == Spec => [](TypeInv /\ BufferInv)
<1>1. Init => BufferInv
  <2> SUFFICES ASSUME Init PROVE BufferInv
    OBVIOUS
  <2>1. /\ \A v \in Writers : pc[v] = "idle"
        /\ Len(recent) = 0 /\ activation_entry_counter = 0
        /\ Size \in Nat \ {0}
    BY EmptySeq DEF Init, Size
  <2> QED
    BY <2>1 DEF BufferInv, Writing, AtMostSize
<1> QED
  BY <1>1, TypeInvariant, BufferInvariant, PTL DEF Spec

\* Read backwards from the counter, the buffer holds the last entries completed,
\* whole and in order, as long as no entry and no clear fell within another.
THEOREM BufferHoldsRecentCorrect == Spec => []BufferHoldsRecent
<1>1. TypeInv /\ BufferInv => BufferHoldsRecent
  <2> SUFFICES ASSUME TypeInv, BufferInv, NobodyWrites, clashes = {},
                      NEW k \in 1..Len(recent)
               PROVE  k <= activation_entry_counter /\ Holds(k)
    BY DEF BufferHoldsRecent, Holds
  <2>1. /\ Len(recent) = AtMostSize(activation_entry_counter)
        /\ activation_entry_counter \in Nat /\ Size \in Nat
    BY DEF BufferInv, TypeInv, TypeOK, Size
  <2> QED
    BY <2>1 DEF BufferInv, AtMostSize
<1> QED
  BY <1>1, BufferIntact, PTL

\* Under the same condition, the size that Monitor_GetInterfaceActivationEntryLog
\* reports is the number of the entries completed since the last clear.
THEOREM SizeIsNumberOfEntriesCorrect == Spec => []SizeIsNumberOfEntries
<1>1. TypeInv /\ BufferInv => SizeIsNumberOfEntries
  <2> SUFFICES ASSUME TypeInv, BufferInv, clashes = {}
               PROVE  LogView.size = Len(recent)
    BY DEF SizeIsNumberOfEntries
  <2>1. /\ Len(recent) = AtMostSize(activation_entry_counter)
        /\ activation_entry_counter \in Nat /\ Size \in Nat \ {0}
    BY DEF BufferInv, TypeInv, TypeOK, Size
  <2> QED
    BY <2>1 DEF LogView, AtMostSize
<1> QED
  BY <1>1, BufferIntact, PTL

=============================================================================
