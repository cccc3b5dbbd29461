--------------------------- MODULE ActivationLog ---------------------------
(***************************************************************************)
(* The activation log of Monitor.c: the threads of the runtime write an    *)
(* entry into a cyclic buffer before and after each request; an operator   *)
(* task freezes, unfreezes, clears and reads the log.                      *)
(*                                                                         *)
(* One processor core: a task, named by its priority, runs only while no   *)
(* task of a higher priority is writing an entry.                          *)
(***************************************************************************)
EXTENDS Integers, Sequences

CONSTANTS
    Writers,           \* the threads, each serving the interface of its name
    OperatorPriority,  \* the priority of the operator task
    RT_EXEC_LOG_BUFFER_SIZE,
    MaxEntries,        \* bound: the entries written
    NoValue            \* a field of the buffer never written

ASSUME WritersAssumption ==
    Writers \subseteq Nat /\ OperatorPriority \in Nat \ Writers
ASSUME BufferAssumption == RT_EXEC_LOG_BUFFER_SIZE \in Nat \ {0}
ASSUME EntriesAssumption == MaxEntries \in Nat /\ NoValue \notin Nat

VARIABLES
    is_frozen,
    activation_entry_counter,
    activation_log_buffer,
    pc,             \* where each writer is in handle_activation_log_...
    entry,          \* the entry each writer is writing
    loaded,         \* the counter as loaded by its increment
    inside,         \* history: is each thread's interface active?
    clock,          \* what Hal_GetElapsedTimeInNs returns next
    written,        \* history: the entries begun
    recent,         \* history: the last entries completed since a clear
    clashes,        \* history, since the last clear: did a thread begin an
                    \* entry, or was the log cleared, within another's entry?
    late,           \* history: the entries each thread has completed since the
                    \* log was frozen
    log_view        \* the last answer of GetInterfaceActivationEntryLog

store == <<activation_entry_counter, activation_log_buffer>>
locals == <<pc, entry, loaded, inside>>
history == <<written, recent, clashes, late>>
vars == <<is_frozen, store, locals, clock, history, log_view>>

Size == RT_EXEC_LOG_BUFFER_SIZE
Slots == 0..(Size - 1)
EntryTypes == {"activation", "deactivation"}
Entries == [interface : Writers \union {NoValue},
            entry_type : EntryTypes \union {NoValue},
            timestamp : Nat \union {NoValue}]
Blank == [interface |-> NoValue, entry_type |-> NoValue, timestamp |-> NoValue]

TypeOK ==
    /\ is_frozen \in BOOLEAN
    /\ activation_entry_counter \in 0..MaxEntries
    /\ activation_log_buffer \in [Slots -> Entries]
    /\ pc \in [Writers -> {"idle", "interface", "type", "time", "load", "store"}]
    /\ entry \in [Writers -> Entries]
    /\ loaded \in [Writers -> 0..MaxEntries]
    /\ inside \in [Writers -> BOOLEAN]
    /\ clock \in Nat
    /\ written \in 0..MaxEntries
    /\ recent \in Seq(Entries) /\ Len(recent) <= Size
    /\ clashes \subseteq {"thread", "clear"}
    /\ late \in [Writers -> 0..MaxEntries]
    /\ log_view \in [index : Int, size : 0..Size]

Init ==
    /\ is_frozen = TRUE
    /\ activation_entry_counter = 0
    /\ activation_log_buffer = [i \in Slots |-> Blank]
    /\ pc = [w \in Writers |-> "idle"]
    /\ entry = [w \in Writers |-> Blank]
    /\ loaded = [w \in Writers |-> 0]
    /\ inside = [w \in Writers |-> FALSE]
    /\ clock = 1
    /\ written = 0
    /\ recent = <<>>
    /\ clashes = {}
    /\ late = [w \in Writers |-> 0]
    /\ log_view = [index |-> 0, size |-> 0]

-----------------------------------------------------------------------------
Writing(w) == pc[w] # "idle"
NobodyWrites == \A w \in Writers : ~Writing(w)
MayRun(task) == \A w \in Writers : w > task => ~Writing(w)

At(w, from, to) == MayRun(w) /\ pc[w] = from /\ pc' = [pc EXCEPT ![w] = to]

\* The slot is computed from the counter for every field anew.
Slot == activation_entry_counter % Size

(* Monitor_IndicateInterfaceActivated and ...Deactivated, in turn.         *)

Begin(w) ==
    /\ At(w, "idle", "interface")
    /\ written < MaxEntries
    /\ written' = written + 1
    /\ entry' = [entry EXCEPT
          ![w] = [interface |-> w, timestamp |-> NoValue,
                  entry_type |-> IF inside[w] THEN "deactivation"
                                 ELSE "activation"]]
    /\ clashes' = IF NobodyWrites THEN clashes ELSE clashes \union {"thread"}

\* A mutated form: the log is written although it is frozen.
IndicateInterface_FrozenIgnored(w) ==
    /\ Begin(w)
    /\ inside' = [inside EXCEPT ![w] = ~@]
    /\ UNCHANGED <<is_frozen, store, loaded, clock, recent, late, log_view>>

IndicateInterface(w) ==
    /\ \/ ~is_frozen /\ Begin(w)
       \/ /\ is_frozen
          /\ MayRun(w) /\ ~Writing(w)
          /\ UNCHANGED <<written, pc, clashes, entry>>
    /\ inside' = [inside EXCEPT ![w] = ~@]
    /\ UNCHANGED <<is_frozen, store, loaded, clock, recent, late, log_view>>

(* handle_activation_log_cyclic_buffer, one action per assignment.         *)
WriteInterface(w) ==
    /\ At(w, "interface", "type")
    /\ activation_log_buffer' =
          [activation_log_buffer EXCEPT ![Slot].interface = w]
    /\ UNCHANGED <<is_frozen, activation_entry_counter, entry, loaded, inside,
                   clock, history, log_view>>

WriteEntryType(w) ==
    /\ At(w, "type", "time")
    /\ activation_log_buffer' =
          [activation_log_buffer EXCEPT ![Slot].entry_type = entry[w].entry_type]
    /\ UNCHANGED <<is_frozen, activation_entry_counter, entry, loaded, inside,
                   clock, history, log_view>>

WriteTimestamp(w) ==
    /\ At(w, "time", "load")
    /\ clock' = clock + 1
    /\ entry' = [entry EXCEPT ![w].timestamp = clock]
    /\ activation_log_buffer' =
          [activation_log_buffer EXCEPT ![Slot].timestamp = clock]
    /\ UNCHANGED <<is_frozen, activation_entry_counter, loaded, inside,
                   history, log_view>>

LoadCounter(w) ==
    /\ At(w, "load", "store")
    /\ loaded' = [loaded EXCEPT ![w] = activation_entry_counter]
    /\ UNCHANGED <<is_frozen, store, entry, inside, clock,
                   history, log_view>>

\* What the history remembers: as many of the last entries as fit the buffer.
LastEntries(s) == IF Len(s) > Size THEN Tail(s) ELSE s

\* A mutated form: the counter is reset where the buffer ends.
StoreCounter_Wrapped(w) ==
    /\ At(w, "store", "idle")
    /\ activation_entry_counter' = (loaded[w] + 1) % Size
    /\ loaded' = [loaded EXCEPT ![w] = 0]
    /\ entry' = [entry EXCEPT ![w] = Blank]
    /\ late' = [late EXCEPT ![w] = IF is_frozen THEN @ + 1 ELSE 0]
    /\ recent' = LastEntries(Append(recent, entry[w]))
    /\ UNCHANGED <<is_frozen, activation_log_buffer, inside, clock, written,
                   clashes, log_view>>

StoreCounter(w) ==
    /\ At(w, "store", "idle")
    /\ activation_entry_counter' = loaded[w] + 1
    /\ loaded' = [loaded EXCEPT ![w] = 0]
    /\ entry' = [entry EXCEPT ![w] = Blank]
    /\ late' = [late EXCEPT ![w] = IF is_frozen THEN @ + 1 ELSE 0]
    /\ recent' = LastEntries(Append(recent, entry[w]))
    /\ UNCHANGED <<is_frozen, activation_log_buffer, inside, clock, written,
                   clashes, log_view>>

-----------------------------------------------------------------------------
(* The operator.                                                           *)
Monitor_FreezeInterfaceActivationLogging ==
    /\ MayRun(OperatorPriority)
    /\ is_frozen' = TRUE
    /\ UNCHANGED <<store, locals, clock, history, log_view>>

Monitor_UnfreezeInterfaceActivationLogging ==
    /\ MayRun(OperatorPriority)
    /\ is_frozen' = FALSE
    /\ late' = [w \in Writers |-> 0]
    /\ UNCHANGED <<store, locals, clock, written, recent, clashes,
                   log_view>>

\* A mutated form: clearing blanks nothing and keeps the counter.
Monitor_ClearInterfaceActivationLog_CounterKept ==
    /\ MayRun(OperatorPriority)
    /\ recent' = <<>>
    /\ clashes' = IF NobodyWrites THEN {} ELSE clashes \union {"clear"}
    /\ UNCHANGED <<is_frozen, store, locals, clock, written, late, log_view>>

Monitor_ClearInterfaceActivationLog ==
    /\ MayRun(OperatorPriority)
    /\ activation_entry_counter' = 0
    /\ recent' = <<>>
    /\ clashes' = IF NobodyWrites THEN {} ELSE clashes \union {"clear"}
    /\ UNCHANGED <<is_frozen, activation_log_buffer, locals, clock, written,
                   late, log_view>>

\* A mutated form: the size of the buffer is not looked at.
LogView_NotLimited ==
    IF activation_entry_counter = 0 THEN [index |-> 0, size |-> 0]
    ELSE [index |-> Slot - 1, size |-> activation_entry_counter]

\* A mutated form: the size is taken to be the index of the latest entry.
LogView_SizeFromIndex ==
    IF activation_entry_counter = 0 THEN [index |-> 0, size |-> 0]
    ELSE [index |-> Slot - 1, size |-> Slot]

\* The index is an unsigned number in the code: -1 stands for UINT32_MAX.
LogView ==
    IF activation_entry_counter = 0 THEN [index |-> 0, size |-> 0]
    ELSE [index |-> Slot - 1,
          size |-> IF activation_entry_counter > Size THEN Size
                   ELSE activation_entry_counter]

Monitor_GetInterfaceActivationEntryLog ==
    /\ MayRun(OperatorPriority)
    /\ log_view' = LogView
    /\ UNCHANGED <<is_frozen, store, locals, clock, history>>

WriterStep(w) ==
    \/ IndicateInterface(w)
    \/ WriteInterface(w)
    \/ WriteEntryType(w)
    \/ WriteTimestamp(w)
    \/ LoadCounter(w)
    \/ StoreCounter(w)

OperatorStep ==
    \/ Monitor_FreezeInterfaceActivationLogging
    \/ Monitor_UnfreezeInterfaceActivationLogging
    \/ Monitor_ClearInterfaceActivationLog
    \/ Monitor_GetInterfaceActivationEntryLog

Next == OperatorStep \/ \E w \in Writers : WriterStep(w)

Spec == Init /\ [][Next]_vars

-----------------------------------------------------------------------------
(* Properties.                                                             *)
\* Unless threads or a clear have clashed since the last clear, the buffer, read
\* backwards from the counter between two entries, holds the last entries
\* completed, whole and in order.
BufferHoldsRecent ==
    NobodyWrites /\ clashes = {} =>
        \A k \in 1..Len(recent) :
            /\ k <= activation_entry_counter
            /\ activation_log_buffer[(activation_entry_counter - k) % Size]
                  = recent[Len(recent) + 1 - k]

\* Threads that preempt each other may lose entries of the log, but never make
\* it count one that was not written since the last clear; only a clear within
\* an entry can, when the thread then stores the counter it has loaded before.
NoPhantomEntries ==
    NobodyWrites /\ "clear" \notin clashes => LogView.size <= Len(recent)

\* Without a clash, the size reported for the log is the number of entries
\* completed since the last clear, up to the size of the buffer
\* (Monitor.h:237-243).
SizeIsNumberOfEntries ==
    NobodyWrites /\ clashes = {} => LogView.size = Len(recent)

\* A frozen log soon comes to rest: whatever is preempted where, no thread adds
\* more than the one entry it was writing when the log was frozen.
FrozenLogComesToRest == \A w \in Writers : is_frozen => late[w] <= 1
=============================================================================
