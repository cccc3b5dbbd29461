--------------------------- MODULE HalSemaphores ---------------------------
(***************************************************************************)
(* The semaphores of Hal.c and the broker lock of BrokerLock.c, over the   *)
(* binary semaphores of the kernel.  The Init task creates the semaphores  *)
(* before any other task runs (Hal.h:63-70); the tasks then obtain and     *)
(* release them.  A task takes semaphores in the order of their ids, never *)
(* one it holds, and takes the broker lock last.                           *)
(***************************************************************************)
EXTENDS Naturals, Sequences

CONSTANTS
    Tasks,
    RT_MAX_HAL_SEMAPHORES,  \* the size of hal_semaphore_ids
    KernelSemaphores,       \* bound: how many semaphores the kernel can create
    MaxCreates,             \* bound: the calls of Hal_SemaphoreCreate
    NoTask

ASSUME TasksAssumption == NoTask \notin Tasks
ASSUME SizesAssumption ==
    /\ RT_MAX_HAL_SEMAPHORES \in Nat \ {0}
    /\ KernelSemaphores \in Nat \ {0}
    /\ MaxCreates \in Nat

\* Kernel objects; no kernel object has id 0, which the code returns for "no
\* semaphore".  The broker's own semaphore comes after all others.
HalIds == 1..KernelSemaphores
broker_Semaphore == KernelSemaphores + 1
Ids == HalIds \union {broker_Semaphore}

VARIABLES
    started,                   \* the tasks run: initialisation is over
    answers,                   \* history: what each call of
                               \* Hal_SemaphoreCreate returned
    created_semaphores_count,
    hal_semaphore_ids,
    existing,                  \* kernel: the semaphores it has created
    owner,                     \* kernel: who holds each semaphore
    waiters,                   \* kernel: who waits for it, in order
    holds,                     \* the semaphores each task was told it has
    refused                    \* history: tasks refused a semaphore that exists

kernel == <<existing, owner, waiters>>
hal == <<created_semaphores_count, hal_semaphore_ids>>
vars == <<started, answers, hal, kernel, holds, refused>>

Slots == 0..(RT_MAX_HAL_SEMAPHORES - 1)

TypeOK ==
    /\ started \in BOOLEAN
    /\ answers \in Seq(HalIds \union {0}) /\ Len(answers) <= MaxCreates
    /\ created_semaphores_count \in 0..RT_MAX_HAL_SEMAPHORES
    /\ hal_semaphore_ids \in [Slots -> HalIds \union {0}]
    /\ existing \subseteq Ids
    /\ owner \in [Ids -> Tasks \union {NoTask}]
    /\ waiters \in [Ids -> Seq(Tasks)]
    /\ holds \in [Tasks -> SUBSET Ids]
    /\ refused \subseteq Tasks

Init ==
    /\ started = FALSE
    /\ answers = <<>>
    /\ created_semaphores_count = 0
    /\ hal_semaphore_ids = [i \in Slots |-> 0]
    /\ existing = {broker_Semaphore}
    /\ owner = [id \in Ids |-> NoTask]
    /\ waiters = [id \in Ids |-> <<>>]
    /\ holds = [t \in Tasks |-> {}]
    /\ refused = {}

-----------------------------------------------------------------------------
(* Initialisation.                                                         *)

\* The kernel creates a semaphore, or has no object or memory for one and leaves
\* the slot as it was.
KernelRefuses == UNCHANGED <<existing, hal_semaphore_ids>>
KernelCreates(slot) ==
    \E id \in HalIds \ existing :
        /\ existing' = existing \union {id}
        /\ hal_semaphore_ids' = [hal_semaphore_ids EXCEPT ![slot] = id]

Creates == ~started /\ Len(answers) < MaxCreates
Answer(id) == answers' = Append(answers, id)

\* A mutated form: the slot is used up even if the kernel creates nothing.
Hal_SemaphoreCreate_CountsFailures ==
    /\ Creates
    /\ created_semaphores_count < RT_MAX_HAL_SEMAPHORES
    /\ created_semaphores_count' = created_semaphores_count + 1
    /\ KernelCreates(created_semaphores_count) \/ KernelRefuses
    /\ Answer(hal_semaphore_ids'[created_semaphores_count])
    /\ UNCHANGED <<started, owner, waiters, holds, refused>>

\* A mutated form: the limit is not looked at, nor what the kernel says of a
\* slot beyond the table.
Hal_SemaphoreCreate_NoLimit ==
    /\ Creates
    /\ \/ /\ created_semaphores_count \in Slots
          /\ KernelCreates(created_semaphores_count)
          /\ Answer(hal_semaphore_ids'[created_semaphores_count])
       \/ created_semaphores_count \notin Slots /\ KernelRefuses /\ Answer(0)
    /\ created_semaphores_count' = created_semaphores_count + 1
    /\ UNCHANGED <<started, owner, waiters, holds, refused>>

Hal_SemaphoreCreate ==
    /\ Creates
    /\ \/ /\ created_semaphores_count < RT_MAX_HAL_SEMAPHORES
          /\ KernelCreates(created_semaphores_count)
          /\ Answer(hal_semaphore_ids'[created_semaphores_count])
          /\ created_semaphores_count' = created_semaphores_count + 1
       \/ /\ created_semaphores_count < RT_MAX_HAL_SEMAPHORES
          /\ KernelRefuses
          /\ Answer(0)
          /\ UNCHANGED created_semaphores_count
       \/ /\ created_semaphores_count >= RT_MAX_HAL_SEMAPHORES
          /\ Answer(0)
          /\ UNCHANGED <<hal, existing>>
    /\ UNCHANGED <<started, owner, waiters, holds, refused>>

StartTasks ==
    /\ ~started
    /\ started' = TRUE
    /\ UNCHANGED <<answers, hal, kernel, holds, refused>>

-----------------------------------------------------------------------------
(* The kernel: binary semaphores with first-come, first-served queues.     *)

Waiting(t) == \E id \in Ids : \E i \in DOMAIN waiters[id] : waiters[id][i] = t

rtems_semaphore_obtain(t, id) ==
    \/ /\ owner[id] = NoTask
       /\ owner' = [owner EXCEPT ![id] = t]
       /\ holds' = [holds EXCEPT ![t] = @ \union {id}]
       /\ UNCHANGED waiters
    \/ /\ owner[id] # NoTask
       /\ waiters' = [waiters EXCEPT ![id] = Append(@, t)]
       /\ UNCHANGED <<owner, holds>>

\* The first waiter returns from its own call as the new owner.
rtems_semaphore_release(t, id) ==
    \/ /\ waiters[id] = <<>>
       /\ owner' = [owner EXCEPT ![id] = NoTask]
       /\ holds' = [holds EXCEPT ![t] = @ \ {id}]
       /\ UNCHANGED waiters
    \/ /\ waiters[id] # <<>>
       /\ LET next == Head(waiters[id])
          IN  /\ owner' = [owner EXCEPT ![id] = next]
              /\ holds' = [holds EXCEPT ![t] = @ \ {id}, ![next] = @ \union {id}]
       /\ waiters' = [waiters EXCEPT ![id] = Tail(@)]

Runs(t) == started /\ ~Waiting(t)
InOrder(t, id) == \A h \in holds[t] : h < id

-----------------------------------------------------------------------------
(* Hal_SemaphoreObtain and Hal_SemaphoreRelease: both refuse to work once  *)
(* the table is full.                                                      *)
TableFull == created_semaphores_count >= RT_MAX_HAL_SEMAPHORES

Refuse(t) ==
    /\ TableFull
    /\ refused' = refused \union {t}
    /\ UNCHANGED <<owner, waiters, holds>>

\* A mutated form: the call gives up at once instead of waiting, and its
\* result is not looked at.
Hal_SemaphoreObtain_ResultIgnored(t, id) ==
    /\ Runs(t) /\ InOrder(t, id)
    /\ id \in existing
    /\ ~TableFull
    /\ owner' = [owner EXCEPT ![id] = IF @ = NoTask THEN t ELSE @]
    /\ holds' = [holds EXCEPT ![t] = @ \union {id}]
    /\ UNCHANGED <<started, answers, hal, existing, waiters, refused>>

\* A mutated form: only the release still refuses to work with a full table.
Hal_SemaphoreObtain_LimitDropped(t, id) ==
    /\ Runs(t) /\ InOrder(t, id)
    /\ id \in existing
    /\ rtems_semaphore_obtain(t, id)
    /\ UNCHANGED <<started, answers, hal, existing, refused>>

Hal_SemaphoreObtain(t, id) ==
    /\ Runs(t) /\ InOrder(t, id)
    /\ id \in existing
    /\ \/ Refuse(t)
       \/ ~TableFull /\ rtems_semaphore_obtain(t, id) /\ UNCHANGED refused
    /\ UNCHANGED <<started, answers, hal, existing>>

\* A mutated form: the task goes on without giving the semaphore back.
Hal_SemaphoreRelease_NotReleased(t, id) ==
    /\ Runs(t)
    /\ id \in holds[t]
    /\ holds' = [holds EXCEPT ![t] = @ \ {id}]
    /\ UNCHANGED <<started, answers, hal, kernel, refused>>

Hal_SemaphoreRelease(t, id) ==
    /\ Runs(t)
    /\ id \in holds[t]
    /\ \/ Refuse(t)
       \/ ~TableFull /\ rtems_semaphore_release(t, id) /\ UNCHANGED refused
    /\ UNCHANGED <<started, answers, hal, existing>>

-----------------------------------------------------------------------------
(* BrokerLock.c goes to the kernel directly.                               *)
Broker_acquire_lock(t) ==
    /\ Runs(t) /\ InOrder(t, broker_Semaphore)
    /\ rtems_semaphore_obtain(t, broker_Semaphore)
    /\ UNCHANGED <<started, answers, hal, existing, refused>>

Broker_release_lock(t) ==
    /\ Runs(t)
    /\ broker_Semaphore \in holds[t]
    /\ rtems_semaphore_release(t, broker_Semaphore)
    /\ UNCHANGED <<started, answers, hal, existing, refused>>

TaskStep(t) ==
    \/ \E id \in HalIds : Hal_SemaphoreObtain(t, id) \/ Hal_SemaphoreRelease(t, id)
    \/ Broker_acquire_lock(t)
    \/ Broker_release_lock(t)

Next ==
    \/ Hal_SemaphoreCreate
    \/ StartTasks
    \/ \E t \in Tasks : TaskStep(t)

(* Every critical section ends: a task that keeps being able to release a  *)
(* semaphore does release it.                                              *)
Fairness ==
    \A t \in Tasks :
        /\ \A id \in HalIds : SF_vars(Hal_SemaphoreRelease(t, id))
        /\ SF_vars(Broker_release_lock(t))

Spec == Init /\ [][Next]_vars /\ Fairness

-----------------------------------------------------------------------------
(* Properties.                                                             *)

\* Creation: the used slots of the table hold distinct semaphores that exist,
\* and nothing else was created; a failed creation leaves no trace.  The callers
\* were told the same: each semaphore is the answer of just one call, and a call
\* for which there was none has been answered with 0.
TableHoldsCreated ==
    LET used == 0..(created_semaphores_count - 1)
        created == existing \ {broker_Semaphore}
    IN  /\ {hal_semaphore_ids[i] : i \in used} = created
        /\ \A i, j \in used :
              hal_semaphore_ids[i] = hal_semaphore_ids[j] => i = j
        /\ {answers[k] : k \in DOMAIN answers} \ {0} = created
        /\ \A k, l \in DOMAIN answers :
              answers[k] = answers[l] /\ answers[k] # 0 => k = l

\* Mutual exclusion, as the callers see it: no two tasks have both been told
\* that a semaphore is theirs, and the one that has is the kernel's owner.
MutualExclusion ==
    \A t \in Tasks : \A id \in holds[t] : owner[id] = t

\* A semaphore that a task has, that it may give back at once, and that the
\* calls of Hal.c and BrokerLock.c do not refuse to give back.
CanGiveBack(t, id) ==
    /\ started /\ ~Waiting(t) /\ id \in holds[t]
    /\ id = broker_Semaphore \/ ~TableFull

\* Tasks do not wait on each other in a ring, nor for a semaphore whose release
\* is refused: if tasks wait, some task that does not wait can give back a
\* semaphore for which one of them waits.
NoDeadlock ==
    (\E t \in Tasks : Waiting(t)) =>
        \E u \in Tasks, id \in Ids : CanGiveBack(u, id) /\ waiters[id] # <<>>

\* Whoever waits for a semaphore obtains it in the end.
WaitersServed ==
    \A t \in Tasks : Waiting(t) ~> ~Waiting(t)

\* A task that asks for a semaphore that was created, or gives one back, is
\* not refused (Hal.h:72-90).
NeverRefused == refused = {}
=============================================================================
