------------------------------ MODULE HalProofs ------------------------------
(***************************************************************************)
(* Proofs about the hardware abstraction: about the semaphores, for any    *)
(* tasks, any size of the table and any number of semaphores that the      *)
(* kernel is able to create; and about the core clocks, for builds of any  *)
(* number of macros, any settings that the boot software may leave and any *)
(* tick that the reload value has room for.                                *)
(***************************************************************************)
EXTENDS HalSemaphores, ClockTree, TLAPS, WellFoundedInduction

USE DEF hal, kernel

-----------------------------------------------------------------------------
(* The semaphores: type correctness.                                       *)

\* The broker's semaphore is none of those created for the application.
LEMMA IdsType ==
    /\ HalIds \subseteq Ids /\ broker_Semaphore \in Ids
    /\ broker_Semaphore \notin HalIds /\ 0 \notin Ids
    /\ RT_MAX_HAL_SEMAPHORES \in Nat \ {0}
  BY SizesAssumption DEF Ids, HalIds, broker_Semaphore

\* The kernel's obtain keeps the types of what it changes.
LEMMA ObtainType ==
    ASSUME TypeOK, NEW t \in Tasks, NEW id \in Ids, rtems_semaphore_obtain(t, id)
    PROVE  /\ owner' \in [Ids -> Tasks \union {NoTask}]
           /\ waiters' \in [Ids -> Seq(Tasks)]
           /\ holds' \in [Tasks -> SUBSET Ids]
<1> USE DEF TypeOK
<1>1. CASE owner[id] = NoTask
  <2>1. /\ owner' = [owner EXCEPT ![id] = t]
        /\ holds' = [holds EXCEPT ![t] = holds[t] \union {id}]
        /\ waiters' = waiters
    BY <1>1 DEF rtems_semaphore_obtain
  <2>2. holds[t] \union {id} \in SUBSET Ids
    OBVIOUS
  <2>3. holds' \in [Tasks -> SUBSET Ids]
    BY <2>1, <2>2
  <2>4. QED
    BY <2>1, <2>3
<1>2. CASE owner[id] # NoTask
  <2>1. Append(waiters[id], t) \in Seq(Tasks)
    OBVIOUS
  <2>2. waiters' = [waiters EXCEPT ![id] = Append(waiters[id], t)]
        /\ UNCHANGED <<owner, holds>>
    BY <1>2 DEF rtems_semaphore_obtain
  <2>3. QED
    BY <2>1, <2>2
<1>3. QED
  BY <1>1, <1>2

\* So does its release, which hands the semaphore to the first waiter.
LEMMA ReleaseType ==
    ASSUME TypeOK, NEW t \in Tasks, NEW id \in Ids, rtems_semaphore_release(t, id)
    PROVE  /\ owner' \in [Ids -> Tasks \union {NoTask}]
           /\ waiters' \in [Ids -> Seq(Tasks)]
           /\ holds' \in [Tasks -> SUBSET Ids]
<1> USE DEF TypeOK
<1>1. CASE waiters[id] = <<>>
  BY <1>1 DEF rtems_semaphore_release
<1>2. CASE waiters[id] # <<>>
  <2>1. Head(waiters[id]) \in Tasks /\ Tail(waiters[id]) \in Seq(Tasks)
    BY <1>2
  <2>2. /\ owner' = [owner EXCEPT ![id] = Head(waiters[id])]
        /\ holds' = [holds EXCEPT ![t] = @ \ {id},
                                  ![Head(waiters[id])] = @ \union {id}]
        /\ waiters' = [waiters EXCEPT ![id] = Tail(waiters[id])]
    BY <1>2 DEF rtems_semaphore_release
  <2>3. QED
    BY <2>1, <2>2
<1>3. QED
  BY <1>1, <1>2

\* One more answer follows those that were given before.
LEMMA AnswersGrow ==
    ASSUME NEW S, NEW old \in Seq(S), NEW id \in S, NEW new, new = Append(old, id)
    PROVE  /\ new \in Seq(S) /\ Len(new) = Len(old) + 1
           /\ Len(old) < MaxCreates => Len(new) <= MaxCreates
           /\ DOMAIN new = DOMAIN old \union {Len(old) + 1}
           /\ Len(old) + 1 \notin DOMAIN old
           /\ \A k \in DOMAIN old : new[k] = old[k]
           /\ new[Len(old) + 1] = id
  BY SizesAssumption

\* Every variable keeps its type; the count never passes the table's size.
THEOREM TypeCorrect == Spec => []TypeOK
<1>1. Init => TypeOK
  <2> SUFFICES ASSUME Init PROVE TypeOK
    OBVIOUS
  <2> USE IdsType, SizesAssumption DEF Init
  <2>1. answers \in Seq(HalIds \union {0}) /\ Len(answers) <= MaxCreates
        /\ created_semaphores_count \in 0..RT_MAX_HAL_SEMAPHORES
    OBVIOUS
  <2>2. hal_semaphore_ids \in [Slots -> HalIds \union {0}] /\ existing \subseteq Ids
    OBVIOUS
  <2>3. owner \in [Ids -> Tasks \union {NoTask}] /\ holds \in [Tasks -> SUBSET Ids]
    OBVIOUS
  <2>4. waiters \in [Ids -> Seq(Tasks)]
    <3>1. <<>> \in Seq(Tasks)
      OBVIOUS
    <3>2. QED
      BY <3>1
  <2>5. started \in BOOLEAN /\ refused \subseteq Tasks
    OBVIOUS
  <2>6. QED
    BY <2>1, <2>2, <2>3, <2>4, <2>5 DEF TypeOK
<1>2. TypeOK /\ [Next]_vars => TypeOK'
  <2> SUFFICES ASSUME TypeOK, [Next]_vars PROVE TypeOK'
    OBVIOUS
  <2>1. CASE Hal_SemaphoreCreate
    <3>2. /\ created_semaphores_count' \in 0..RT_MAX_HAL_SEMAPHORES
          /\ hal_semaphore_ids' \in [Slots -> HalIds \union {0}]
          /\ existing' \subseteq Ids
      BY <2>1, IdsType
      DEF Hal_SemaphoreCreate, KernelCreates, KernelRefuses, TypeOK, Slots
    <3>1. \E id \in HalIds \union {0} : Answer(id)
      <4>1. CASE created_semaphores_count < RT_MAX_HAL_SEMAPHORES
        <5>1. created_semaphores_count \in Slots
          BY <4>1, IdsType DEF TypeOK, Slots
        <5>2. QED
          BY <2>1, <3>2, <5>1 DEF Hal_SemaphoreCreate
      <4>2. CASE created_semaphores_count >= RT_MAX_HAL_SEMAPHORES
        BY <2>1, <4>2, IdsType DEF Hal_SemaphoreCreate, TypeOK
      <4>3. QED
        BY <2>1, <4>1, <4>2 DEF Hal_SemaphoreCreate
    <3>4. answers' \in Seq(HalIds \union {0}) /\ Len(answers') <= MaxCreates
      <4>1. PICK id \in HalIds \union {0} : answers' = Append(answers, id)
        BY <3>1 DEF Answer
      <4>2. Len(answers) < MaxCreates
        BY <2>1 DEF Hal_SemaphoreCreate, Creates
      <4>3. answers \in Seq(HalIds \union {0})
        BY DEF TypeOK
      <4>4. QED
        BY <4>1, <4>2, <4>3, AnswersGrow
    <3>3. QED
      BY <2>1, <3>2, <3>4 DEF Hal_SemaphoreCreate, TypeOK
  <2>2. CASE StartTasks
    BY <2>2 DEF StartTasks, TypeOK
  <2>3. ASSUME NEW t \in Tasks, NEW id \in HalIds, Hal_SemaphoreObtain(t, id)
        PROVE  TypeOK'
    BY <2>3, IdsType, ObtainType DEF Hal_SemaphoreObtain, Refuse, TypeOK
  <2>4. ASSUME NEW t \in Tasks, NEW id \in HalIds, Hal_SemaphoreRelease(t, id)
        PROVE  TypeOK'
    BY <2>4, IdsType, ReleaseType DEF Hal_SemaphoreRelease, Refuse, TypeOK
  <2>5. ASSUME NEW t \in Tasks, Broker_acquire_lock(t) PROVE TypeOK'
    BY <2>5, IdsType, ObtainType DEF Broker_acquire_lock, TypeOK
  <2>6. ASSUME NEW t \in Tasks, Broker_release_lock(t) PROVE TypeOK'
    BY <2>6, IdsType, ReleaseType DEF Broker_release_lock, TypeOK
  <2>7. CASE UNCHANGED vars
    BY <2>7 DEF vars, TypeOK
  <2>8. QED
    BY <2>1, <2>2, <2>3, <2>4, <2>5, <2>6, <2>7 DEF Next, TaskStep
<1>3. QED
  BY <1>1, <1>2, PTL DEF Spec

-----------------------------------------------------------------------------
(* The semaphores: creation.                                               *)

\* What the answers say once one more is given.
LEMMA AnswersSay ==
    ASSUME NEW S, NEW old \in Seq(S), NEW id \in S, NEW new, new = Append(old, id),
           \A k, l \in DOMAIN old : old[k] = old[l] /\ old[k] # 0 => k = l,
           id = 0 \/ id \notin {old[k] : k \in DOMAIN old}
    PROVE  /\ {new[k] : k \in DOMAIN new} = {old[k] : k \in DOMAIN old} \union {id}
           /\ \A k, l \in DOMAIN new : new[k] = new[l] /\ new[k] # 0 => k = l
<1> DEFINE last == Len(old) + 1
<1>1. /\ DOMAIN new = DOMAIN old \union {last}
      /\ last \notin DOMAIN old
      /\ \A k \in DOMAIN old : new[k] = old[k]
      /\ new[last] = id
  BY AnswersGrow
<1> HIDE DEF last
<1>2. QED
  BY <1>1

\* Whatever the kernel refuses, the used slots hold, each a different one, just
\* the semaphores that were created, and the callers were told just those.
THEOREM TableHoldsCreatedCorrect == Spec => []TableHoldsCreated
<1>1. Init => TableHoldsCreated
  BY DEF Init, TableHoldsCreated
<1>2. TypeOK /\ TableHoldsCreated /\ [Next]_vars => TableHoldsCreated'
  <2> SUFFICES ASSUME TypeOK, TableHoldsCreated, [Next]_vars
               PROVE  TableHoldsCreated'
    OBVIOUS
  <2>1. CASE UNCHANGED <<hal, existing, answers>>
    BY <2>1 DEF TableHoldsCreated
  <2>a. CASE Hal_SemaphoreCreate /\ UNCHANGED <<hal, existing>>
    <3>1. Answer(0)
      <4>1. CASE KernelCreates(created_semaphores_count)
        BY <2>a, <4>1 DEF KernelCreates
      <4>2. QED
        BY <2>a, <4>1 DEF Hal_SemaphoreCreate
    <3>2. answers \in Seq(HalIds \union {0}) /\ 0 \in HalIds \union {0}
      BY DEF TypeOK
    <3>3. \A k, l \in DOMAIN answers :
              answers[k] = answers[l] /\ answers[k] # 0 => k = l
      BY DEF TableHoldsCreated
    <3>4. /\ {answers'[k] : k \in DOMAIN answers'}
                = {answers[k] : k \in DOMAIN answers} \union {0}
          /\ \A k, l \in DOMAIN answers' :
                answers'[k] = answers'[l] /\ answers'[k] # 0 => k = l
      BY <3>1, <3>2, <3>3, AnswersSay DEF Answer
    <3>5. /\ {answers[k] : k \in DOMAIN answers} \ {0} = existing \ {broker_Semaphore}
          /\ existing' = existing
      BY <2>a DEF TableHoldsCreated
    <3>6. {answers'[k] : k \in DOMAIN answers'} \ {0} = existing' \ {broker_Semaphore}
      BY <3>4, <3>5
    <3>7. QED
      BY <2>a, <3>4, <3>6 DEF TableHoldsCreated
  <2>2. CASE Hal_SemaphoreCreate /\ ~UNCHANGED <<hal, existing>>
    <3> DEFINE c == created_semaphores_count
    <3>0. c \in Nat
      BY IdsType DEF TypeOK
    <3>1. /\ c \in Slots
          /\ KernelCreates(c)
          /\ created_semaphores_count' = c + 1
          /\ Answer(hal_semaphore_ids'[c])
      <4>1. /\ c < RT_MAX_HAL_SEMAPHORES
            /\ KernelCreates(c)
            /\ Answer(hal_semaphore_ids'[c])
            /\ created_semaphores_count' = c + 1
        BY <2>2 DEF Hal_SemaphoreCreate, KernelRefuses
      <4>2. QED
        BY <3>0, <4>1, IdsType DEF Slots
    <3>2. PICK id \in HalIds \ existing :
             /\ existing' = existing \union {id}
             /\ hal_semaphore_ids' = [hal_semaphore_ids EXCEPT ![c] = id]
      BY <3>1 DEF KernelCreates
    <3>3. \A i \in 0..(c - 1) : i \in Slots /\ i # c
      BY <3>0, <3>1, IdsType DEF Slots
    <3>4. /\ \A i \in 0..(c - 1) : hal_semaphore_ids'[i] = hal_semaphore_ids[i]
          /\ hal_semaphore_ids'[c] = id
      BY <3>1, <3>2, <3>3 DEF TypeOK
    <3>5. 0..(created_semaphores_count' - 1) = (0..(c - 1)) \union {c}
      BY <3>0, <3>1
    <3>6. {hal_semaphore_ids[i] : i \in 0..(c - 1)} = existing \ {broker_Semaphore}
      BY DEF TableHoldsCreated
    <3>7. {hal_semaphore_ids'[i] : i \in 0..(created_semaphores_count' - 1)}
             = existing' \ {broker_Semaphore}
      <4>1. {hal_semaphore_ids'[i] : i \in (0..(c - 1)) \union {c}}
               = {hal_semaphore_ids'[i] : i \in 0..(c - 1)}
                    \union {hal_semaphore_ids'[c]}
        OBVIOUS
      <4>2. {hal_semaphore_ids'[i] : i \in 0..(c - 1)}
               = {hal_semaphore_ids[i] : i \in 0..(c - 1)}
        BY <3>4
      <4>3. id # broker_Semaphore
        BY <3>2, IdsType
      <4>4. existing' \ {broker_Semaphore}
               = (existing \ {broker_Semaphore}) \union {id}
        BY <3>2, <4>3
      <4>5. QED
        BY <3>4, <3>5, <3>6, <4>1, <4>2, <4>4
    <3>8. \A i \in 0..(c - 1) : hal_semaphore_ids[i] # id
      BY <3>2, <3>6
    <3>9. \A i, j \in 0..(created_semaphores_count' - 1) :
             hal_semaphore_ids'[i] = hal_semaphore_ids'[j] => i = j
      <4>1. \A i, j \in 0..(c - 1) :
               hal_semaphore_ids[i] = hal_semaphore_ids[j] => i = j
        BY DEF TableHoldsCreated
      <4> HIDE DEF c
      <4>2. QED
        BY <3>4, <3>5, <3>8, <4>1
    <3>10. /\ {answers'[k] : k \in DOMAIN answers'} \ {0}
                 = existing' \ {broker_Semaphore}
           /\ \A k, l \in DOMAIN answers' :
                 answers'[k] = answers'[l] /\ answers'[k] # 0 => k = l
      <4>1. answers \in Seq(HalIds \union {0}) /\ id \in HalIds \union {0}
        BY <3>2 DEF TypeOK
      <4>2. answers' = Append(answers, id)
        BY <3>1, <3>4 DEF Answer
      <4>3. /\ {answers[k] : k \in DOMAIN answers} \ {0} = existing \ {broker_Semaphore}
            /\ \A k, l \in DOMAIN answers :
                  answers[k] = answers[l] /\ answers[k] # 0 => k = l
        BY DEF TableHoldsCreated
      <4>4. id # 0 /\ id # broker_Semaphore
        BY <3>2, IdsType
      <4>5. id \notin {answers[k] : k \in DOMAIN answers}
        BY <3>2, <4>3, <4>4
      <4>6. /\ {answers'[k] : k \in DOMAIN answers'}
                  = {answers[k] : k \in DOMAIN answers} \union {id}
            /\ \A k, l \in DOMAIN answers' :
                  answers'[k] = answers'[l] /\ answers'[k] # 0 => k = l
        BY <4>1, <4>2, <4>3, <4>5, AnswersSay
      <4>7. QED
        BY <3>2, <4>3, <4>4, <4>6
    <3>11. QED
      BY <3>7, <3>9, <3>10 DEF TableHoldsCreated
  <2>3. CASE \E t \in Tasks : TaskStep(t)
    BY <2>1, <2>3 DEF TaskStep, Hal_SemaphoreObtain, Hal_SemaphoreRelease,
                      Broker_acquire_lock, Broker_release_lock
  <2>4. QED
    BY <2>1, <2>a, <2>2, <2>3 DEF Next, StartTasks, vars
<1>3. QED
  BY <1>1, <1>2, TypeCorrect, PTL DEF Spec

-----------------------------------------------------------------------------
(* The semaphores: mutual exclusion.                                       *)

\* Only the owner believes to hold a semaphore, so that an obtain that succeeds
\* adds a holder where there was none.
LEMMA ObtainExcludes ==
    ASSUME TypeOK, MutualExclusion,
           NEW t \in Tasks, NEW id \in Ids, rtems_semaphore_obtain(t, id)
    PROVE  MutualExclusion'
<1>1. CASE owner[id] = NoTask
  <2>1. \A u \in Tasks : id \notin holds[u]
    BY <1>1, TasksAssumption DEF MutualExclusion
  <2>2. QED
    BY <1>1, <2>1 DEF rtems_semaphore_obtain, MutualExclusion, TypeOK
<1>2. CASE owner[id] # NoTask
  BY <1>2 DEF rtems_semaphore_obtain, MutualExclusion
<1>3. QED
  BY <1>1, <1>2

\* A release by a holder leaves none, or the first waiter as the only one.
LEMMA ReleaseExcludes ==
    ASSUME TypeOK, MutualExclusion,
           NEW t \in Tasks, NEW id \in holds[t], rtems_semaphore_release(t, id)
    PROVE  MutualExclusion'
<1>1. id \in Ids /\ \A u \in Tasks : id \in holds[u] => u = t
  BY DEF MutualExclusion, TypeOK
<1>2. CASE waiters[id] = <<>>
  <2>1. /\ owner' = [owner EXCEPT ![id] = NoTask]
        /\ holds' = [holds EXCEPT ![t] = holds[t] \ {id}]
    BY <1>2 DEF rtems_semaphore_release
  <2>2. \A u \in Tasks : \A h \in holds'[u] : h # id /\ h \in holds[u]
    BY <1>1, <2>1 DEF TypeOK
  <2>3. QED
    BY <1>1, <2>1, <2>2 DEF MutualExclusion, TypeOK
<1>3. CASE waiters[id] # <<>>
  <2>1. Head(waiters[id]) \in Tasks
    BY <1>1, <1>3 DEF TypeOK
  <2>2. PICK next \in Tasks :
           /\ owner' = [owner EXCEPT ![id] = next]
           /\ holds' = [holds EXCEPT ![t] = @ \ {id}, ![next] = @ \union {id}]
    BY <1>3, <2>1 DEF rtems_semaphore_release
  <2>3. \A u \in Tasks : \A h \in holds'[u] :
           IF h = id THEN u = next ELSE h \in holds[u]
    BY <1>1, <2>2 DEF TypeOK
  <2>4. QED
    BY <1>1, <2>2, <2>3 DEF MutualExclusion, TypeOK
<1>4. QED
  BY <1>2, <1>3

\* No two tasks have both been told that a semaphore, or the broker lock, is
\* theirs, in whatever order they ask for it and give it back.
THEOREM MutualExclusionCorrect == Spec => []MutualExclusion
<1>1. Init => MutualExclusion
  BY DEF Init, MutualExclusion
<1>2. TypeOK /\ MutualExclusion /\ [Next]_vars => MutualExclusion'
  <2> SUFFICES ASSUME TypeOK, MutualExclusion, [Next]_vars
               PROVE  MutualExclusion'
    OBVIOUS
  <2>1. CASE UNCHANGED <<owner, holds>>
    BY <2>1 DEF MutualExclusion
  <2>2. ASSUME NEW t \in Tasks, NEW id \in HalIds, Hal_SemaphoreObtain(t, id)
        PROVE  MutualExclusion'
    BY <2>1, <2>2, IdsType, ObtainExcludes DEF Hal_SemaphoreObtain, Refuse
  <2>3. ASSUME NEW t \in Tasks, NEW id \in HalIds, Hal_SemaphoreRelease(t, id)
        PROVE  MutualExclusion'
    BY <2>1, <2>3, ReleaseExcludes DEF Hal_SemaphoreRelease, Refuse
  <2>4. ASSUME NEW t \in Tasks, Broker_acquire_lock(t) PROVE MutualExclusion'
    BY <2>4, IdsType, ObtainExcludes DEF Broker_acquire_lock
  <2>5. ASSUME NEW t \in Tasks, Broker_release_lock(t) PROVE MutualExclusion'
    BY <2>5, ReleaseExcludes DEF Broker_release_lock
  <2>6. QED
    BY <2>1, <2>2, <2>3, <2>4, <2>5
    DEF Next, TaskStep, Hal_SemaphoreCreate, StartTasks, vars
<1>3. QED
  BY <1>1, <1>2, TypeCorrect, PTL DEF Spec

-----------------------------------------------------------------------------
(* The semaphores: nobody waits for ever on a ring of waiting tasks.       *)

\* Nobody waits for a semaphore that nobody has, and every owner was told.
InTurn ==
    /\ \A id \in Ids : owner[id] = NoTask => waiters[id] = <<>>
    /\ \A id \in Ids : owner[id] # NoTask => id \in holds[owner[id]]

\* A task waits in one place at a time.
OneQueue ==
    \A k, l \in Ids : \A i \in DOMAIN waiters[k], j \in DOMAIN waiters[l] :
        waiters[k][i] = waiters[l][j] => k = l /\ i = j

\* A task waits for a semaphore that comes after all those that it has.
WaitsInOrder ==
    \A id \in Ids : \A i \in DOMAIN waiters[id] : InOrder(waiters[id][i], id)

\* The table has room as long as one of its semaphores is in use.
TableInUse ==
    \A id \in Ids : owner[id] # NoTask =>
        started /\ (id = broker_Semaphore \/ ~TableFull)

WaitInv == InTurn /\ OneQueue /\ WaitsInOrder /\ TableInUse

\* A task that obtains a semaphore, or queues for it, keeps the order.
LEMMA ObtainKeepsOrder ==
    ASSUME TypeOK, WaitInv, NEW t \in Tasks, NEW id \in Ids,
           ~Waiting(t), InOrder(t, id), rtems_semaphore_obtain(t, id)
    PROVE  InTurn' /\ OneQueue' /\ WaitsInOrder'
<1>1. CASE owner[id] = NoTask
  <2>1. /\ owner' = [owner EXCEPT ![id] = t]
        /\ holds' = [holds EXCEPT ![t] = holds[t] \union {id}]
        /\ waiters' = waiters
    BY <1>1 DEF rtems_semaphore_obtain
  <2>2. InTurn'
    BY <1>1, <2>1, TasksAssumption DEF WaitInv, InTurn, TypeOK
  <2>3. OneQueue'
    BY <2>1 DEF WaitInv, OneQueue
  <2>4. WaitsInOrder'
    <3>1. \A k \in Ids : \A i \in DOMAIN waiters[k] : waiters[k][i] # t
      BY DEF Waiting
    <3>2. \A u \in Tasks : u # t => holds'[u] = holds[u]
      BY <2>1 DEF TypeOK
    <3>3. \A k \in Ids : \A i \in DOMAIN waiters[k] : waiters[k][i] \in Tasks
      BY DEF TypeOK
    <3>4. QED
      BY <2>1, <3>1, <3>2, <3>3 DEF WaitInv, WaitsInOrder, InOrder
  <2>5. QED
    BY <2>2, <2>3, <2>4
<1>2. CASE owner[id] # NoTask
  <2>1. /\ owner' = owner /\ holds' = holds
        /\ waiters' = [waiters EXCEPT ![id] = Append(waiters[id], t)]
    BY <1>2 DEF rtems_semaphore_obtain
  <2>2. ASSUME NEW k \in Ids, NEW i \in DOMAIN waiters'[k]
        PROVE  \/ i \in DOMAIN waiters[k] /\ waiters'[k][i] = waiters[k][i]
               \/ /\ k = id /\ i = Len(waiters[id]) + 1
                  /\ i \notin DOMAIN waiters[k] /\ waiters'[k][i] = t
    BY <2>1, <2>2 DEF TypeOK
  <2>3. InTurn'
    BY <1>2, <2>1 DEF WaitInv, InTurn, TypeOK
  <2>4. OneQueue'
    <3> SUFFICES ASSUME NEW k \in Ids, NEW l \in Ids,
                        NEW i \in DOMAIN waiters'[k], NEW j \in DOMAIN waiters'[l],
                        waiters'[k][i] = waiters'[l][j]
                 PROVE  k = l /\ i = j
      BY DEF OneQueue
    <3>1. \A m \in Ids : \A n \in DOMAIN waiters[m] : waiters[m][n] # t
      BY DEF Waiting
    <3>2. QED
      BY <2>2, <3>1 DEF WaitInv, OneQueue
  <2>5. WaitsInOrder'
    <3> SUFFICES ASSUME NEW k \in Ids, NEW i \in DOMAIN waiters'[k]
                 PROVE  \A h \in holds'[waiters'[k][i]] : h < k
      BY DEF WaitsInOrder, InOrder
    <3>1. InOrder(waiters'[k][i], k)
      BY <2>2 DEF WaitInv, WaitsInOrder
    <3>2. QED
      BY <2>1, <3>1 DEF InOrder
  <2>6. QED
    BY <2>3, <2>4, <2>5
<1>3. QED
  BY <1>1, <1>2

\* So does a task that gives one back: the first waiter, which is now the
\* owner, waits nowhere.
LEMMA ReleaseKeepsOrder ==
    ASSUME TypeOK, MutualExclusion, WaitInv, NEW t \in Tasks, NEW id \in holds[t],
           ~Waiting(t), rtems_semaphore_release(t, id)
    PROVE  InTurn' /\ OneQueue' /\ WaitsInOrder'
<1>1. id \in Ids /\ owner[id] = t
  BY DEF MutualExclusion, TypeOK
<1>2. CASE waiters[id] = <<>>
  <2>1. /\ owner' = [owner EXCEPT ![id] = NoTask]
        /\ holds' = [holds EXCEPT ![t] = holds[t] \ {id}]
        /\ waiters' = waiters
    BY <1>2 DEF rtems_semaphore_release
  <2>2. InTurn'
    BY <1>1, <1>2, <2>1 DEF WaitInv, InTurn, TypeOK
  <2>3. OneQueue'
    BY <2>1 DEF WaitInv, OneQueue
  <2>4. \A u \in Tasks : holds'[u] \subseteq holds[u]
    BY <2>1 DEF TypeOK
  <2>5. \A k \in Ids : \A i \in DOMAIN waiters[k] : waiters[k][i] \in Tasks
    BY DEF TypeOK
  <2>6. WaitsInOrder'
    BY <2>1, <2>4, <2>5 DEF WaitInv, WaitsInOrder, InOrder
  <2>7. QED
    BY <2>2, <2>3, <2>6
<1>3. CASE waiters[id] # <<>>
  <2> DEFINE next == Head(waiters[id])
  <2>1. /\ owner' = [owner EXCEPT ![id] = next]
        /\ holds' = [holds EXCEPT ![t] = @ \ {id}, ![next] = @ \union {id}]
        /\ waiters' = [waiters EXCEPT ![id] = Tail(waiters[id])]
    BY <1>3 DEF rtems_semaphore_release
  <2>2. next \in Tasks /\ next = waiters[id][1] /\ 1 \in DOMAIN waiters[id]
    BY <1>1, <1>3 DEF TypeOK
  <2>3. ASSUME NEW k \in Ids, NEW i \in DOMAIN waiters'[k]
        PROVE  IF k = id
               THEN /\ i \in Nat \ {0} /\ i + 1 \in DOMAIN waiters[id]
                    /\ waiters'[k][i] = waiters[id][i + 1]
               ELSE i \in DOMAIN waiters[k] /\ waiters'[k][i] = waiters[k][i]
    BY <1>1, <1>3, <2>1, <2>3 DEF TypeOK
  <2>4. next # t
    BY <1>1, <2>2 DEF Waiting
  <2> HIDE DEF next
  <2>5. InTurn'
    <3>1. \A k \in Ids : owner'[k] = IF k = id THEN next ELSE owner[k]
      BY <1>1, <2>1 DEF TypeOK
    <3>2. \A u \in Tasks : \A h \in holds[u] : h # id => h \in holds'[u]
      BY <2>1, <2>2 DEF TypeOK
    <3>3. id \in holds'[next] /\ next # NoTask
      BY <2>1, <2>2, TasksAssumption DEF TypeOK
    <3>4. \A k \in Ids : k # id => waiters'[k] = waiters[k]
      BY <2>1 DEF TypeOK
    <3>5. QED
      BY <3>1, <3>2, <3>3, <3>4 DEF WaitInv, InTurn, TypeOK
  <2>6. ASSUME NEW k \in Ids, NEW i \in DOMAIN waiters'[k] PROVE waiters'[k][i] # next
    <3>1. CASE k = id
      <4>1. i + 1 \in DOMAIN waiters[id] /\ i + 1 # 1
            /\ waiters'[k][i] = waiters[id][i + 1]
        BY <2>3, <3>1
      <4>2. QED
        BY <1>1, <2>2, <4>1 DEF WaitInv, OneQueue
    <3>2. CASE k # id
      <4>1. i \in DOMAIN waiters[k] /\ waiters'[k][i] = waiters[k][i]
        BY <2>3, <3>2
      <4>2. QED
        BY <1>1, <2>2, <3>2, <4>1 DEF WaitInv, OneQueue
    <3>3. QED
      BY <3>1, <3>2
  <2>7. OneQueue'
    <3> SUFFICES ASSUME NEW k \in Ids, NEW l \in Ids,
                        NEW i \in DOMAIN waiters'[k], NEW j \in DOMAIN waiters'[l],
                        waiters'[k][i] = waiters'[l][j]
                 PROVE  k = l /\ i = j
      BY DEF OneQueue
    <3> DEFINE from(m, n) == IF m = id THEN n + 1 ELSE n
    <3>1. /\ from(k, i) \in DOMAIN waiters[k] /\ waiters[k][from(k, i)] = waiters'[k][i]
          /\ from(l, j) \in DOMAIN waiters[l] /\ waiters[l][from(l, j)] = waiters'[l][j]
      BY <2>3
    <3>2. k = l /\ from(k, i) = from(l, j)
      <4> HIDE DEF from
      <4>1. QED
        BY <3>1 DEF WaitInv, OneQueue
    <3>3. k = id => i \in Nat /\ j \in Nat
      BY <2>3, <3>2
    <3>4. QED
      BY <3>2, <3>3
  <2>8. WaitsInOrder'
    <3> SUFFICES ASSUME NEW k \in Ids, NEW i \in DOMAIN waiters'[k]
                 PROVE  \A h \in holds'[waiters'[k][i]] : h < k
      BY DEF WaitsInOrder, InOrder
    <3> DEFINE u == waiters'[k][i]
    <3> DEFINE from == IF k = id THEN i + 1 ELSE i
    <3>1. InOrder(u, k) /\ u \in Tasks
      <4>1. from \in DOMAIN waiters[k] /\ waiters[k][from] = u
        BY <2>3
      <4> HIDE DEF from, u
      <4>2. InOrder(waiters[k][from], k)
        BY <4>1 DEF WaitInv, WaitsInOrder
      <4>3. waiters[k][from] \in Tasks
        BY <4>1 DEF TypeOK
      <4>4. QED
        BY <4>1, <4>2, <4>3
    <3>2. u # next
      BY <2>6
    <3> HIDE DEF u
    <3>3. holds'[u] \subseteq holds[u]
      BY <2>1, <3>1, <3>2 DEF TypeOK
    <3>4. \A h \in holds'[u] : h < k
      BY <3>1, <3>3 DEF InOrder
    <3>5. QED
      BY <3>4 DEF u
  <2>9. QED
    BY <2>5, <2>7, <2>8
<1>4. QED
  BY <1>2, <1>3

\* Of the numbers of a bounded set that is not empty, one is the largest.
LEMMA LargestOf ==
    ASSUME NEW n \in Nat, NEW S, S \subseteq 0..n, S # {}
    PROVE  \E x \in S : \A y \in S : x >= y
<1> DEFINE R == OpToRel(<, Nat)
           T == {n - x : x \in S}
<1>1. T \subseteq Nat /\ T # {}
  <2>1. \A x \in S : n - x \in Nat
    OBVIOUS
  <2>2. T \subseteq Nat
    BY <2>1
  <2>3. PICK x \in S : TRUE
    OBVIOUS
  <2>4. n - x \in T
    OBVIOUS
  <2>5. QED
    BY <2>2, <2>4
<1>2. IsWellFoundedOn(R, Nat)
  BY NatLessThanWellFounded
<1>3. \A v, w \in Nat : v < w => <<v, w>> \in R
  BY DEF OpToRel
<1> HIDE DEF R, T
<1>4. PICK t \in T : \A u \in T : ~(<<u, t>> \in R)
  BY <1>1, <1>2, WFMin
<1>5. PICK x \in S : t = n - x
  BY <1>4 DEF T
<1>6. ASSUME NEW y \in S PROVE x >= y
  <2>1. n - y \in T /\ n - y \in Nat /\ t \in Nat
    BY <1>1, <1>4 DEF T
  <2>2. ~(n - y < t)
    BY <1>3, <1>4, <2>1
  <2>3. QED
    BY <1>5, <2>2
<1>7. QED
  BY <1>6

\* Among tasks that take semaphores in order, the owner of the last semaphore
\* for which anybody waits does not wait.
THEOREM NoDeadlockCorrect == Spec => []NoDeadlock
<1>1. Init => WaitInv
  <2> SUFFICES ASSUME Init PROVE WaitInv
    OBVIOUS
  <2>1. \A id \in Ids : owner[id] = NoTask /\ waiters[id] = <<>>
    BY DEF Init
  <2>2. \A id \in Ids : DOMAIN waiters[id] = {}
    BY <2>1
  <2>3. InTurn /\ TableInUse
    BY <2>1 DEF InTurn, TableInUse
  <2>4. OneQueue /\ WaitsInOrder
    BY <2>2 DEF OneQueue, WaitsInOrder
  <2>5. QED
    BY <2>3, <2>4 DEF WaitInv
<1>2. TypeOK /\ MutualExclusion /\ WaitInv /\ [Next]_vars => WaitInv'
  <2> SUFFICES ASSUME TypeOK, MutualExclusion, WaitInv, [Next]_vars PROVE WaitInv'
    OBVIOUS
  <2>1. CASE UNCHANGED <<owner, waiters, holds, started, created_semaphores_count>>
    BY <2>1 DEF WaitInv, InTurn, OneQueue, WaitsInOrder, InOrder, TableInUse, TableFull
  <2>2. CASE Hal_SemaphoreCreate \/ StartTasks
    <3>1. \A id \in Ids : owner[id] = NoTask
      BY <2>2 DEF Hal_SemaphoreCreate, Creates, StartTasks, WaitInv, TableInUse
    <3>2. UNCHANGED <<owner, waiters, holds>>
      BY <2>2 DEF Hal_SemaphoreCreate, StartTasks
    <3>3. QED
      BY <3>1, <3>2 DEF WaitInv, InTurn, OneQueue, WaitsInOrder, InOrder, TableInUse
  <2>3. ASSUME NEW t \in Tasks, NEW id \in Ids, Runs(t), InOrder(t, id),
               id = broker_Semaphore \/ ~TableFull,
               rtems_semaphore_obtain(t, id),
               UNCHANGED <<started, created_semaphores_count>>
        PROVE  WaitInv'
    <3>1. InTurn' /\ OneQueue' /\ WaitsInOrder'
      BY <2>3, ObtainKeepsOrder DEF Runs
    <3>2. \A k \in Ids : k # id => owner'[k] = owner[k]
      BY <2>3 DEF rtems_semaphore_obtain, TypeOK
    <3>3. TableInUse'
      BY <2>3, <3>2 DEF WaitInv, TableInUse, TableFull, Runs
    <3>4. QED
      BY <3>1, <3>3 DEF WaitInv
  <2>4. ASSUME NEW t \in Tasks, NEW id \in holds[t], Runs(t),
               rtems_semaphore_release(t, id),
               UNCHANGED <<started, created_semaphores_count>>
        PROVE  WaitInv'
    <3>1. InTurn' /\ OneQueue' /\ WaitsInOrder'
      BY <2>4, ReleaseKeepsOrder DEF Runs
    <3>2. id \in Ids /\ owner[id] = t /\ t # NoTask
      BY TasksAssumption DEF MutualExclusion, TypeOK
    <3>3. \A k \in Ids : k # id => owner'[k] = owner[k]
      BY <2>4, <3>2 DEF rtems_semaphore_release, TypeOK
    <3>4. TableInUse'
      BY <2>4, <3>2, <3>3 DEF WaitInv, TableInUse, TableFull, Runs
    <3>5. QED
      BY <3>1, <3>4 DEF WaitInv
  <2>5. ASSUME NEW t \in Tasks, TaskStep(t) PROVE WaitInv'
    <3>1. ASSUME NEW id \in HalIds, Hal_SemaphoreObtain(t, id) PROVE WaitInv'
      BY <2>1, <2>3, <3>1, IdsType DEF Hal_SemaphoreObtain, Refuse
    <3>2. ASSUME NEW id \in HalIds, Hal_SemaphoreRelease(t, id) PROVE WaitInv'
      BY <2>1, <2>4, <3>2 DEF Hal_SemaphoreRelease, Refuse
    <3>3. ASSUME Broker_acquire_lock(t) PROVE WaitInv'
      BY <2>3, <3>3, IdsType DEF Broker_acquire_lock
    <3>4. ASSUME Broker_release_lock(t) PROVE WaitInv'
      BY <2>4, <3>4 DEF Broker_release_lock
    <3>5. QED
      BY <2>5, <3>1, <3>2, <3>3, <3>4 DEF TaskStep
  <2>6. QED
    BY <2>1, <2>2, <2>5 DEF Next, vars
<1>3. TypeOK /\ WaitInv => NoDeadlock
  <2> SUFFICES ASSUME TypeOK, WaitInv, NEW t \in Tasks, Waiting(t)
               PROVE  \E u \in Tasks, id \in Ids : CanGiveBack(u, id) /\ waiters[id] # <<>>
    BY DEF NoDeadlock
  <2> DEFINE wanted == {id \in Ids : waiters[id] # <<>>}
  <2>1. wanted \subseteq 0..(KernelSemaphores + 1) /\ KernelSemaphores + 1 \in Nat
    BY SizesAssumption DEF Ids, HalIds, broker_Semaphore
  <2>2. \A u \in Tasks : Waiting(u) =>
            \E id \in wanted : \E i \in DOMAIN waiters[id] : waiters[id][i] = u
    BY DEF Waiting
  <2>3. PICK last \in wanted : \A id \in wanted : last >= id
    <3>1. wanted # {}
      BY <2>2
    <3> HIDE DEF wanted
    <3>2. QED
      BY <2>1, <3>1, LargestOf
  <2>4. owner[last] # NoTask /\ owner[last] \in Tasks /\ last \in holds[owner[last]]
    BY DEF WaitInv, InTurn, TypeOK
  <2>5. ~Waiting(owner[last])
    <3>1. SUFFICES ASSUME Waiting(owner[last]) PROVE FALSE
      OBVIOUS
    <3>2. PICK id \in wanted : \E i \in DOMAIN waiters[id] : waiters[id][i] = owner[last]
      BY <2>2, <2>4, <3>1
    <3>3. InOrder(owner[last], id)
      BY <3>2 DEF WaitInv, WaitsInOrder
    <3>4. last < id
      BY <2>4, <3>3 DEF InOrder
    <3>5. last >= id /\ last \in Nat /\ id \in Nat
      BY <2>1, <2>3
    <3>6. QED
      BY <3>4, <3>5
  <2>6. started /\ (last = broker_Semaphore \/ ~TableFull)
    BY <2>4 DEF WaitInv, TableInUse
  <2>7. QED
    BY <2>4, <2>5, <2>6 DEF CanGiveBack
<1>4. QED
  BY <1>1, <1>2, <1>3, TypeCorrect, MutualExclusionCorrect, PTL DEF Spec

-----------------------------------------------------------------------------
(* The clocks: the tables of macros.                                       *)

\* The settings that presets define, and the options of their macros.
LEMMA LowLevelIs ==
    LowLevel = {"RCOSC_FREQUENCY", "MAIN_CLOCK_SOURCE", "PLLA_MULTIPLIER",
                "PLLA_DIVIDER", "MASTER_CLOCK_SOURCE", "MASTER_CLOCK_PRESCALER",
                "MASTER_CLOCK_DIVIDER"}
BY DEF LowLevel, Preset

\* The macros of the SAMV71.
LEMMA SamV71Core_Options ==
    LET M == Macros["SAMV71"] IN
        /\ LowLevel \subseteq DOMAIN M
        /\ M["RCOSC_FREQUENCY"] = Macro({4, 8, 12}, 12)
        /\ M["MAIN_CLOCK_SOURCE"] = Macro(MainSources, "RCOSC")
        /\ M["PLLA_MULTIPLIER"] = Macro(0..62, 24)
        /\ M["PLLA_DIVIDER"] = Macro(0..255, 1)
        /\ M["MASTER_CLOCK_SOURCE"] = Macro(MasterSources, "PLLACK")
        /\ M["MASTER_CLOCK_PRESCALER"] = Macro(Prescalers \cup {3}, 2)
        /\ M["MASTER_CLOCK_DIVIDER"] = Macro({1, 2}, 2)
<1> DEFINE M == Macros["SAMV71"]
<1> USE LowLevelIs DEF Joined, SamV71Core_PllMacros, SamV71Core_OscillatorMacros,
                       SamV71Core_MasterClockMacros
<1>1. M = Joined(SamV71Core_PllMacros,
                 Joined(SamV71Core_OscillatorMacros, SamV71Core_MasterClockMacros))
  BY DEF Macros
<1>2. LowLevel \subseteq DOMAIN M
  BY <1>1
<1>3. /\ M["RCOSC_FREQUENCY"] = Macro({4, 8, 12}, 12)
      /\ M["MAIN_CLOCK_SOURCE"] = Macro(MainSources, "RCOSC")
  BY <1>1
<1>4. /\ M["PLLA_MULTIPLIER"] = Macro(0..62, 24)
      /\ M["PLLA_DIVIDER"] = Macro(0..255, 1)
  BY <1>1
<1>5. /\ M["MASTER_CLOCK_SOURCE"] = Macro(MasterSources, "PLLACK")
      /\ M["MASTER_CLOCK_PRESCALER"] = Macro(Prescalers \cup {3}, 2)
      /\ M["MASTER_CLOCK_DIVIDER"] = Macro({1, 2}, 2)
  BY <1>1
<1>6. QED
  BY <1>2, <1>3, <1>4, <1>5

\* The macros of the SAMRH71.
LEMMA SamRH71Core_Options ==
    LET M == Macros["SAMRH71"] IN
        /\ LowLevel \subseteq DOMAIN M
        /\ M["RCOSC_FREQUENCY"] = Macro({4, 8, 10, 12}, 12)
        /\ M["MAIN_CLOCK_SOURCE"] = Macro(MainSources, "XOSC_BYPASSED")
        /\ M["PLLA_MULTIPLIER"] = Macro(0..25, 19)
        /\ M["PLLA_DIVIDER"] = Macro(0..64, 1)
        /\ M["MASTER_CLOCK_SOURCE"] = Macro(MasterSources, "PLLACK")
        /\ M["MASTER_CLOCK_PRESCALER"] = Macro(Prescalers, 2)
        /\ M["MASTER_CLOCK_DIVIDER"] = Macro({1, 2}, 2)
<1> DEFINE M == Macros["SAMRH71"]
<1> USE LowLevelIs DEF Joined, SamRH71Core_PllMacros, SamRH71Core_FilterMacros,
                       SamRH71Core_OscillatorMacros, SamRH71Core_MasterClockMacros
<1>1. M = Joined(Joined(SamRH71Core_PllMacros, SamRH71Core_FilterMacros),
                 Joined(SamRH71Core_OscillatorMacros, SamRH71Core_MasterClockMacros))
  BY DEF Macros
<1>2. LowLevel \subseteq DOMAIN M
  BY <1>1
<1>3. /\ M["RCOSC_FREQUENCY"] = Macro({4, 8, 10, 12}, 12)
      /\ M["MAIN_CLOCK_SOURCE"] = Macro(MainSources, "XOSC_BYPASSED")
  BY <1>1
<1>4. /\ M["PLLA_MULTIPLIER"] = Macro(0..25, 19)
      /\ M["PLLA_DIVIDER"] = Macro(0..64, 1)
  BY <1>1
<1>5. /\ M["MASTER_CLOCK_SOURCE"] = Macro(MasterSources, "PLLACK")
      /\ M["MASTER_CLOCK_PRESCALER"] = Macro(Prescalers, 2)
      /\ M["MASTER_CLOCK_DIVIDER"] = Macro({1, 2}, 2)
  BY <1>1
<1>6. QED
  BY <1>2, <1>3, <1>4, <1>5

\* Every default is an option.
LEMMA DefaultsAreOptions ==
    ASSUME NEW c \in Cores, NEW g \in LowLevel
    PROVE  Macros[c][g].default \in Macros[c][g].options
<1>1. CASE c = "SAMV71"
  BY <1>1, LowLevelIs, SamV71Core_Options
  DEF Macro, MainSources, MasterSources, Prescalers
<1>2. CASE c = "SAMRH71"
  BY <1>2, LowLevelIs, SamRH71Core_Options
  DEF Macro, MainSources, MasterSources, Prescalers
<1>3. QED
  BY <1>1, <1>2 DEF Cores

\* Settings that the registers can hold, by their numbers.
LEMMA ValidNumbers ==
    ASSUME NEW c \in Cores, NEW p, Valid(c, p)
    PROVE  /\ p.PLLA_MULTIPLIER \in 0..62 /\ p.PLLA_DIVIDER \in 0..255
           /\ p.MASTER_CLOCK_PRESCALER \in {1, 2, 3, 4, 8, 16, 32, 64}
           /\ p.MASTER_CLOCK_DIVIDER \in {1, 2}
           /\ p.MAIN_CLOCK_SOURCE \in MainSources
           /\ p.MASTER_CLOCK_SOURCE \in MasterSources
           /\ p.RCOSC_FREQUENCY \in (IF c = "SAMV71" THEN {4, 8, 12} ELSE {4, 8, 10, 12})
<1>1. \A g \in LowLevel : p[g] \in Macros[c][g].options
  BY DEF Valid
<1>2. CASE c = "SAMV71"
  BY <1>1, <1>2, LowLevelIs, SamV71Core_Options DEF Macro, Prescalers
<1>3. CASE c = "SAMRH71"
  BY <1>1, <1>3, LowLevelIs, SamRH71Core_Options DEF Macro, Prescalers
<1>4. QED
  BY <1>2, <1>3 DEF Cores

\* Settings some groups of which are replaced by options can be held as well.
LEMMA ReplacedIsValid ==
    ASSUME NEW c \in Cores, NEW p, NEW q, NEW groups, Valid(c, p),
           \A g \in LowLevel : q[g] \in Macros[c][g].options
    PROVE  /\ Valid(c, Replaced(p, q, groups))
           /\ \A g \in LowLevel :
                  Replaced(p, q, groups)[g] = IF g \in groups THEN q[g] ELSE p[g]
<1> DEFINE r == Replaced(p, q, groups)
<1>1. \A g \in LowLevel : r[g] = IF g \in groups THEN q[g] ELSE p[g]
  BY DEF Replaced
<1>2. r = [g \in LowLevel |-> r[g]]
  BY DEF Replaced
<1> HIDE DEF r
<1>3. \A g \in LowLevel : p[g] \in Macros[c][g].options
  BY DEF Valid
<1>4. \A g \in LowLevel : r[g] \in Macros[c][g].options
  BY <1>1, <1>3
<1>5. Valid(c, r)
  BY <1>2, <1>4 DEF Valid
<1>6. QED
  BY <1>1, <1>5 DEF r

\* Of the presets that a build defines, one is the fastest.
LEMMA FastestPreset ==
    ASSUME NEW S, S \subseteq 0..150, S # {}
    PROVE  Max(S) \in S
<1>1. PICK x \in S : \A y \in S : x >= y
  BY LargestOf
<1>2. QED
  BY <1>1 DEF Max

-----------------------------------------------------------------------------
(* The clocks: what a build asks for.                                      *)

\* The build defines macros that builds for its core may define.
BuildType ==
    /\ core \in Cores
    /\ build \subseteq Candidates[core]

\* The fastest preset that a build defines is one of the core's.
LEMMA PresetIsKnown ==
    ASSUME BuildType, Values(build, Presets) # {}
    PROVE  Max(Values(build, Presets)) \in PresetFrequencies[core]
<1>1. Values(build, Presets) \subseteq PresetFrequencies[core]
  BY CandidatesAssumption DEF BuildType, Values
<1>2. PresetFrequencies[core] \subseteq 0..150
  BY DEF BuildType, Cores, PresetFrequencies
<1>3. Values(build, Presets) \subseteq 0..150
  BY <1>1, <1>2
<1>4. QED
  BY <1>1, <1>3, FastestPreset

\* What the presets stand for are settings that the processor runs with.
LEMMA PresetsSettle ==
    ASSUME NEW c \in Cores, NEW p,
           \/ /\ c = "SAMV71"
              /\ \E mhz \in PresetFrequencies[c] : p = SamV71Core_Preset(mhz)
           \/ /\ c = "SAMRH71"
              /\ \E mhz \in PresetFrequencies[c], s \in {"RCOSC", "XOSC_BYPASSED"} :
                     p = SamRH71Core_Preset(mhz, s)
    PROVE  /\ p = [g \in LowLevel |-> p[g]]
           /\ \A g \in LowLevel : p[g] \in Macros[c][g].options
           /\ PllRuns(p)
<1>1. CASE c = "SAMV71"
  <2>1. PICK mhz \in {150, 120, 100, 75, 50, 25} : p = SamV71Core_Preset(mhz)
    BY <1>1 DEF PresetFrequencies
  <2>2. \E mul \in {24, 29}, div \in {1, 2, 4}, presc \in {2, 3, 4}, d \in {1, 2} :
            p = Preset(12, "RCOSC", mul, div, presc, d)
    <3>1. CASE mhz = 150
      BY <2>1, <3>1 DEF SamV71Core_Preset
    <3>2. CASE mhz = 120
      BY <2>1, <3>2 DEF SamV71Core_Preset
    <3>3. CASE mhz = 100
      BY <2>1, <3>3 DEF SamV71Core_Preset
    <3>4. CASE mhz = 75
      BY <2>1, <3>4 DEF SamV71Core_Preset
    <3>5. CASE mhz = 50
      BY <2>1, <3>5 DEF SamV71Core_Preset
    <3>6. CASE mhz = 25
      BY <2>1, <3>6 DEF SamV71Core_Preset
    <3>7. QED
      BY <2>1, <3>1, <3>2, <3>3, <3>4, <3>5, <3>6
  <2>3. PICK mul \in {24, 29}, div \in {1, 2, 4}, presc \in {2, 3, 4}, d \in {1, 2} :
            p = Preset(12, "RCOSC", mul, div, presc, d)
    BY <2>2
  <2>4. p = [g \in LowLevel |-> p[g]] /\ PllRuns(p)
    BY <2>3, LowLevelIs DEF Preset, PllRuns
  <2>5. \A g \in LowLevel : p[g] \in Macros[c][g].options
    BY <1>1, <2>3, LowLevelIs, SamV71Core_Options
    DEF Preset, Macro, MainSources, MasterSources, Prescalers
  <2>6. QED
    BY <2>4, <2>5
<1>2. CASE c = "SAMRH71"
  <2>1. PICK mhz \in {100, 90, 80, 75, 60, 50, 25}, s \in {"RCOSC", "XOSC_BYPASSED"} :
            p = SamRH71Core_Preset(mhz, s)
    BY <1>2 DEF PresetFrequencies
  <2>2. \E mul \in {14, 15, 17, 19, 23, 24}, div \in {1, 2, 5}, presc \in {1, 2}, d \in {1, 2} :
            p = Preset(10, s, mul, div, presc, d)
    <3>1. CASE mhz = 100
      BY <2>1, <3>1 DEF SamRH71Core_Preset
    <3>2. CASE mhz = 90
      BY <2>1, <3>2 DEF SamRH71Core_Preset
    <3>3. CASE mhz = 80
      BY <2>1, <3>3 DEF SamRH71Core_Preset
    <3>4. CASE mhz = 75
      BY <2>1, <3>4 DEF SamRH71Core_Preset
    <3>5. CASE mhz = 60
      BY <2>1, <3>5 DEF SamRH71Core_Preset
    <3>6. CASE mhz = 50
      BY <2>1, <3>6 DEF SamRH71Core_Preset
    <3>7. CASE mhz = 25
      BY <2>1, <3>7 DEF SamRH71Core_Preset
    <3>8. QED
      BY <2>1, <3>1, <3>2, <3>3, <3>4, <3>5, <3>6, <3>7
  <2>3. PICK mul \in {14, 15, 17, 19, 23, 24}, div \in {1, 2, 5}, presc \in {1, 2}, d \in {1, 2} :
            p = Preset(10, s, mul, div, presc, d)
    BY <2>2
  <2>4. p = [g \in LowLevel |-> p[g]] /\ PllRuns(p)
    BY <2>3, LowLevelIs DEF Preset, PllRuns
  <2>5. \A g \in LowLevel : p[g] \in Macros[c][g].options
    BY <1>2, <2>1, <2>3, LowLevelIs, SamRH71Core_Options
    DEF Preset, Macro, MainSources, MasterSources, Prescalers
  <2>6. QED
    BY <2>4, <2>5
<1>3. QED
  BY <1>1, <1>2 DEF Cores

\* The configuration of an accepted build consists of options, and with a
\* preset the PLL runs.
LEMMA ConfigurationIsSound ==
    ASSUME BuildType, Accepted(core, build)
    PROVE  /\ pmcConfig(core, build) = [g \in LowLevel |-> pmcConfig(core, build)[g]]
           /\ \A g \in LowLevel : pmcConfig(core, build)[g] \in Macros[core][g].options
           /\ Values(build, Presets) # {} => pmcConfig(core, build) = Expanded(core, build)
<1> DEFINE config == pmcConfig(core, build)
<1>1. config = [g \in LowLevel |-> config[g]]
  BY DEF pmcConfig
<1>2. CASE Values(build, Presets) # {}
  <2> DEFINE p == Expanded(core, build)
  <2>1. Max(Values(build, Presets)) \in PresetFrequencies[core]
    BY <1>2, PresetIsKnown
  <2>2. \/ /\ core = "SAMV71"
           /\ \E mhz \in PresetFrequencies[core] : p = SamV71Core_Preset(mhz)
        \/ /\ core = "SAMRH71"
           /\ \E mhz \in PresetFrequencies[core], s \in {"RCOSC", "XOSC_BYPASSED"} :
                  p = SamRH71Core_Preset(mhz, s)
    <3>1. CASE core = "SAMV71"
      BY <2>1, <3>1 DEF Expanded
    <3>2. CASE core = "SAMRH71"
      BY <2>1, <3>2 DEF Expanded
    <3>3. QED
      BY <3>1, <3>2 DEF BuildType, Cores
  <2> HIDE DEF p
  <2>3. p = [g \in LowLevel |-> p[g]] /\ \A g \in LowLevel : p[g] \in Macros[core][g].options
    BY <2>2, PresetsSettle DEF BuildType
  <2>4. \A g \in LowLevel : config[g] = p[g]
    BY <1>2 DEF pmcConfig, p
  <2>5. config = p
    BY <1>1, <2>3, <2>4
  <2>6. QED
    BY <1>1, <2>3, <2>5 DEF p
<1>3. CASE Values(build, Presets) = {}
  <2> SUFFICES ASSUME NEW g \in LowLevel PROVE config[g] \in Macros[core][g].options
    BY <1>1, <1>3
  <2>1. g \in DOMAIN Macros[core]
    BY LowLevelIs, SamV71Core_Options, SamRH71Core_Options DEF BuildType, Cores
  <2>2. Values(build, g) \subseteq Macros[core][g].options
    BY <2>1 DEF Accepted, Sound
  <2>3. CASE Values(build, g) # {}
    <3>1. (CHOOSE v \in Values(build, g) : TRUE) \in Values(build, g)
      BY <2>3
    <3>2. config[g] = CHOOSE v \in Values(build, g) : TRUE
      BY <1>3, <2>3 DEF pmcConfig
    <3>3. QED
      BY <2>2, <3>1, <3>2
  <2>4. CASE Values(build, g) = {}
    <3>1. config[g] = Macros[core][g].default
      BY <1>3, <2>4 DEF pmcConfig
    <3>2. QED
      BY <3>1, DefaultsAreOptions DEF BuildType
  <2>5. QED
    BY <2>3, <2>4
<1>4. QED
  BY <1>2, <1>3

-----------------------------------------------------------------------------
(* The clocks: the invariant of the boot.                                  *)

\* The groups that the registers hold of the configuration, when no stage has
\* failed.
TakenOver ==
    CASE stage = "pll" -> Groups.mainck
      [] stage = "masterck" -> Groups.mainck \cup Groups.pll
      [] stage \in {"systick", "hal", "up"} -> LowLevel
      [] OTHER -> {}

Configured == Values(build, "RT_RTOS_NO_INIT") = {}

BootStages == {"compile", "rejected", "mainck", "pll", "masterck", "stopped",
               "systick", "hal", "up"}

Systick(c, p) == IF c = "SAMV71" THEN SamV71Core_InitSystick(p)
                 ELSE SamRH71Core_InitSystick(p)
MasterClock(c, p) == IF c = "SAMV71" THEN SamV71Core_GetMasterClockFrequency(p)
                     ELSE SamRH71Core_GetMasterClockFrequency(p)

FrequenciesType ==
    frequencies = [cpu |-> frequencies.cpu, systick |-> frequencies.systick,
                   main_clock |-> frequencies.main_clock,
                   prescaled |-> frequencies.prescaled]

\* The registers hold options, the clocks run with options, and as long as no
\* stage has failed these are the same; a processor that has not stopped has a
\* clock.
Held ==
    /\ Valid(core, pmc) /\ Valid(core, running)
    /\ stage # "stopped" => Alive(running)
    /\ ~failed => running = pmc

BootInv ==
    /\ BuildType /\ stage \in BootStages /\ Held /\ FrequenciesType
    /\ stage \notin {"compile", "rejected"} => Accepted(core, build)
    /\ Configured /\ ~failed =>
          \A g \in TakenOver : pmc[g] = pmcConfig(core, build)[g]
    /\ stage \in {"hal", "up"} =>
          /\ frequencies.cpu = ProcessorFrequency(core, pmc)
          /\ frequencies.systick = Systick(core, pmc)
    /\ stage = "up" => /\ frequencies.main_clock = MasterClock(core, pmc)
                       /\ frequencies.prescaled = frequencies.main_clock \div 8

\* The groups of the stages are settings.
LEMMA GroupsAre ==
    /\ DOMAIN Groups = {"mainck", "pll", "masterck"}
    /\ \A here \in DOMAIN Groups : Groups[here] \subseteq LowLevel
    /\ LowLevel = Groups.mainck \cup Groups.pll \cup Groups.masterck
    /\ "MASTER_CLOCK_SOURCE" \in LowLevel
BY LowLevelIs DEF Groups

\* The registers get options of the configuration, for any groups.
LEMMA RegistersGetOptions ==
    ASSUME BootInv, Accepted(core, build), NEW groups,
           pmc' = Replaced(pmc, pmcConfig(core, build), groups)
    PROVE  /\ Valid(core, pmc')
           /\ \A g \in LowLevel : pmc'[g] = IF g \in groups THEN pmcConfig(core, build)[g]
                                            ELSE pmc[g]
<1>1. core \in Cores /\ BuildType /\ Valid(core, pmc)
  BY DEF BootInv, BuildType, Held
<1>2. \A g \in LowLevel : pmcConfig(core, build)[g] \in Macros[core][g].options
  BY <1>1, ConfigurationIsSound
<1>3. QED
  BY <1>1, <1>2, ReplacedIsValid

\* The clocks get options from the registers, for any groups.
LEMMA ClocksGetOptions ==
    ASSUME BootInv, Valid(core, pmc'), NEW groups, TakeOver(groups)
    PROVE  /\ Valid(core, running')
           /\ \A g \in LowLevel : running'[g] = IF g \in groups THEN pmc'[g]
                                                ELSE running[g]
<1>1. core \in Cores /\ Valid(core, running)
  BY DEF BootInv, BuildType, Held
<1>2. \A g \in LowLevel : pmc'[g] \in Macros[core][g].options
  BY DEF Valid
<1>3. running' = Replaced(running, pmc', groups)
  BY DEF TakeOver
<1>4. QED
  BY <1>1, <1>2, <1>3, ReplacedIsValid

\* A stage takes the configuration of its groups over and leaves the others.
LEMMA StageTakesOver ==
    ASSUME BootInv, NEW here \in DOMAIN Groups,
           NEW next \in {"pll", "masterck", "systick"}, Stage(here, next)
    PROVE  /\ stage = here /\ stage' \in {next, "stopped"}
           /\ core' = core /\ build' = build /\ failed' = failed
           /\ frequencies' = frequencies
           /\ Accepted(core, build)
           /\ Held'
           /\ \A g \in Groups[here] : pmc'[g] = pmcConfig(core, build)[g]
           /\ \A g \in LowLevel \ Groups[here] : pmc'[g] = pmc[g]
<1> DEFINE groups == Groups[here]
<1>1. /\ stage = here
      /\ core' = core /\ build' = build /\ failed' = failed
      /\ frequencies' = frequencies
      /\ pmc' = Replaced(pmc, pmcConfig(core, build), groups)
      /\ TakeOver(groups)
  BY DEF Stage
<1>2. /\ stage' \in {next, "stopped"}
      /\ stage' # "stopped" => Alive(running')
  BY DEF Stage, Goes
<1>3. Accepted(core, build)
  BY <1>1, GroupsAre DEF BootInv
<1> HIDE DEF groups
<1>4. /\ Valid(core, pmc')
      /\ \A g \in LowLevel : pmc'[g] = IF g \in groups THEN pmcConfig(core, build)[g]
                                       ELSE pmc[g]
  BY <1>1, <1>3, RegistersGetOptions
<1>5. /\ Valid(core, running')
      /\ \A g \in LowLevel : running'[g] = IF g \in groups THEN pmc'[g] ELSE running[g]
  BY <1>1, <1>4, ClocksGetOptions
<1>6. ASSUME ~failed PROVE running' = pmc'
  <2>1. running = pmc
    BY <1>6 DEF BootInv, Held
  <2>2. \A g \in LowLevel : running'[g] = pmc'[g]
    BY <1>4, <1>5, <2>1
  <2>3. /\ running' = [g \in LowLevel |-> running'[g]]
        /\ pmc' = [g \in LowLevel |-> pmc'[g]]
    BY <1>4, <1>5 DEF Valid
  <2>4. QED
    BY <2>2, <2>3
<1>7. Held'
  BY <1>1, <1>2, <1>4, <1>5, <1>6 DEF Held
<1>8. groups \subseteq LowLevel
  BY GroupsAre DEF groups
<1>9. QED
  BY <1>1, <1>2, <1>3, <1>4, <1>7, <1>8 DEF groups

\* The invariant holds from the build to the end of the boot.
LEMMA BootInvariant == ClockSpec => []BootInv
<1>1. ClockInit => BootInv
  <2> SUFFICES ASSUME ClockInit PROVE BootInv
    OBVIOUS
  <2>1. BuildType
    <3>1. core \in Cores
      BY DEF ClockInit
    <3>2. CASE build = {}
      BY <3>1, <3>2 DEF BuildType
    <3>3. CASE \E m \in [1..MAX_MACROS -> Candidates[core]] :
                   build = {m[i] : i \in 1..MAX_MACROS}
      BY <3>1, <3>3 DEF BuildType
    <3>4. QED
      BY <3>2, <3>3 DEF ClockInit, Defines
  <2>2. Held /\ stage = "compile"
    BY BootAssumption DEF ClockInit, Held
  <2>3. frequencies = [cpu |-> 0, systick |-> 0, main_clock |-> 0, prescaled |-> 0]
    BY DEF ClockInit
  <2>4. TakenOver = {}
    BY <2>2 DEF TakenOver
  <2>5. QED
    BY <2>1, <2>2, <2>3, <2>4 DEF BootInv, BootStages, FrequenciesType
<1>2. BootInv /\ [ClockNext]_clockVars => BootInv'
  <2> SUFFICES ASSUME BootInv, [ClockNext]_clockVars PROVE BootInv'
    OBVIOUS
  <2>1. CASE Compile
    <3>1. /\ stage = "compile"
          /\ UNCHANGED <<core, build, failed, pmc, running, frequencies>>
          /\ stage' \in {"rejected", "systick", "mainck"}
          /\ stage' # "rejected" => Accepted(core, build)
          /\ stage' = "systick" => ~Configured
      BY <2>1 DEF Compile, Configured
    <3>2. (stage' # "systick" => TakenOver' = {}) /\ Configured' = Configured
      BY <3>1 DEF TakenOver, Configured
    <3>3. Held'
      BY <3>1 DEF BootInv, Held
    <3>4. QED
      BY <3>1, <3>2, <3>3 DEF BootInv, BuildType, BootStages, FrequenciesType
  <2>2. CASE SetMainck
    <3>1. /\ stage' \in {"pll", "stopped"}
          /\ core' = core /\ build' = build /\ failed' = failed
          /\ frequencies' = frequencies /\ Accepted(core, build) /\ Held'
          /\ \A g \in Groups.mainck : pmc'[g] = pmcConfig(core, build)[g]
      BY <2>2, StageTakesOver, GroupsAre DEF SetMainck
    <3>2. TakenOver' \subseteq Groups.mainck
      BY <3>1 DEF TakenOver
    <3>3. QED
      BY <3>1, <3>2 DEF BootInv, BuildType, BootStages, Configured, FrequenciesType
  <2>3. CASE SetPll
    <3> DEFINE config == pmcConfig(core, build)
    <3>1. /\ stage = "pll" /\ stage' \in {"masterck", "stopped"}
          /\ core' = core /\ build' = build /\ failed' = failed
          /\ frequencies' = frequencies /\ Accepted(core, build) /\ Held'
          /\ \A g \in Groups.pll : pmc'[g] = config[g]
          /\ \A g \in LowLevel \ Groups.pll : pmc'[g] = pmc[g]
      BY <2>3, StageTakesOver, GroupsAre DEF SetPll
    <3>2. Configured /\ ~failed => \A g \in Groups.mainck : pmc[g] = config[g]
      BY <3>1 DEF BootInv, TakenOver
    <3>3. TakenOver' \subseteq Groups.mainck \cup Groups.pll
      BY <3>1 DEF TakenOver
    <3>4. Configured /\ ~failed => \A g \in TakenOver' : pmc'[g] = config[g]
      BY <3>1, <3>2, <3>3, GroupsAre
    <3>5. QED
      BY <3>1, <3>4 DEF BootInv, BuildType, BootStages, Configured, FrequenciesType
  <2>4. CASE SetMasterck
    <3> DEFINE config == pmcConfig(core, build)
    <3>1. /\ stage = "masterck" /\ stage' \in {"systick", "stopped"}
          /\ core' = core /\ build' = build /\ failed' = failed
          /\ frequencies' = frequencies /\ Accepted(core, build) /\ Held'
          /\ \A g \in Groups.masterck : pmc'[g] = config[g]
          /\ \A g \in LowLevel \ Groups.masterck : pmc'[g] = pmc[g]
      BY <2>4, StageTakesOver, GroupsAre DEF SetMasterck
    <3>2. Configured /\ ~failed =>
             \A g \in Groups.mainck \cup Groups.pll : pmc[g] = config[g]
      BY <3>1 DEF BootInv, TakenOver
    <3>3. TakenOver' \subseteq LowLevel
      BY <3>1, GroupsAre DEF TakenOver
    <3>4. Configured /\ ~failed => \A g \in TakenOver' : pmc'[g] = config[g]
      BY <3>1, <3>2, <3>3, GroupsAre
    <3>5. QED
      BY <3>1, <3>4 DEF BootInv, BuildType, BootStages, Configured, FrequenciesType
  <2>5. CASE Timeout
    <3>1. /\ stage \in DOMAIN Groups /\ failed'
          /\ UNCHANGED <<core, build, frequencies>>
          /\ stage' \in {"stopped", "systick"}
          /\ stage' # "stopped" => Alive(running')
      BY <2>5 DEF Timeout, Goes
    <3>2. Accepted(core, build)
      BY <3>1, GroupsAre DEF BootInv
    <3>3. PICK written, taken :
              /\ pmc' = Replaced(pmc, pmcConfig(core, build), written)
              /\ TakeOver(taken)
      BY <2>5 DEF Timeout
    <3>4. Valid(core, pmc')
      BY <3>2, <3>3, RegistersGetOptions
    <3>5. Valid(core, running')
      BY <3>3, <3>4, ClocksGetOptions
    <3>6. Held'
      BY <3>1, <3>4, <3>5 DEF Held
    <3>7. QED
      BY <3>1, <3>2, <3>6 DEF BootInv, BuildType, BootStages, FrequenciesType
  <2>6. CASE TakeOverLate
    <3>1. /\ failed /\ stage \in {"systick", "hal", "up"}
          /\ UNCHANGED <<core, build, failed, pmc, frequencies>>
          /\ stage' \in {stage, "stopped"}
          /\ stage' # "stopped" => Alive(running')
      BY <2>6 DEF TakeOverLate, Goes
    <3>2. PICK taken : TakeOver(taken)
      BY <2>6 DEF TakeOverLate
    <3>3. Valid(core, pmc')
      BY <3>1 DEF BootInv, Held
    <3>4. Valid(core, running')
      BY <3>2, <3>3, ClocksGetOptions
    <3>5. Held'
      BY <3>1, <3>3, <3>4 DEF Held
    <3>6. QED
      BY <3>1, <3>5 DEF BootInv, BuildType, BootStages, FrequenciesType
  <2>7. CASE InitSystick
    <3>1. /\ stage = "systick" /\ stage' = "hal"
          /\ UNCHANGED <<core, build, failed, pmc, running>>
          /\ frequencies' = [frequencies EXCEPT !.cpu = ProcessorFrequency(core, pmc),
                                                !.systick = Systick(core, pmc)]
      BY <2>7 DEF InitSystick, Systick
    <3>2. /\ frequencies'.cpu = ProcessorFrequency(core, pmc)
          /\ frequencies'.systick = Systick(core, pmc)
          /\ FrequenciesType'
      BY <3>1 DEF BootInv, FrequenciesType
    <3>3. TakenOver = LowLevel /\ TakenOver' = LowLevel
      BY <3>1 DEF TakenOver
    <3>4. Held'
      BY <3>1 DEF BootInv, Held
    <3>5. QED
      BY <3>1, <3>2, <3>3, <3>4 DEF BootInv, BuildType, BootStages, Configured
  <2>8. CASE Hal_Init
    <3>1. /\ stage = "hal" /\ stage' = "up"
          /\ UNCHANGED <<core, build, failed, pmc, running>>
          /\ frequencies' = [frequencies EXCEPT
                 !.main_clock = MasterClock(core, pmc),
                 !.prescaled = MasterClock(core, pmc) \div 8]
      BY <2>8 DEF Hal_Init, MasterClock
    <3>2. /\ frequencies'.cpu = frequencies.cpu
          /\ frequencies'.systick = frequencies.systick
          /\ frequencies'.main_clock = MasterClock(core, pmc)
          /\ frequencies'.prescaled = MasterClock(core, pmc) \div 8
          /\ FrequenciesType'
      BY <3>1 DEF BootInv, FrequenciesType
    <3>3. TakenOver = LowLevel /\ TakenOver' = LowLevel
      BY <3>1 DEF TakenOver
    <3>4. Held'
      BY <3>1 DEF BootInv, Held
    <3>5. QED
      BY <3>1, <3>2, <3>3, <3>4 DEF BootInv, BuildType, BootStages, Configured
  <2>9. CASE UNCHANGED clockVars
    BY <2>9 DEF clockVars, BootInv, BuildType, TakenOver, Configured, Held,
                FrequenciesType
  <2>10. QED
    BY <2>1, <2>2, <2>3, <2>4, <2>5, <2>6, <2>7, <2>8, <2>9 DEF ClockNext
<1>3. QED
  BY <1>1, <1>2, PTL DEF ClockSpec

-----------------------------------------------------------------------------
(* The clocks: presets.                                                    *)

\* What the processor's frequency is computed from: the factor and the divisor
\* of the PLL, where it is used and not off.
Mul(p) == IF p.MASTER_CLOCK_SOURCE = "PLLACK" /\ p.PLLA_MULTIPLIER > 0
          THEN p.PLLA_MULTIPLIER + 1 ELSE 1
Div(p) == IF p.MASTER_CLOCK_SOURCE = "PLLACK" /\ p.PLLA_DIVIDER > 0
          THEN p.PLLA_DIVIDER ELSE 1
Divided(main, mul, div, presc) == (((main * MEGA_HZ) \div div) * mul) \div presc

\* The numbers of settings, also of those with which no processor runs.
LEMMA FrequencyNumbers ==
    ASSUME NEW c \in Cores, NEW p, Valid(c, p)
    PROVE  /\ MainMegaHz(p) \in {4, 8, 10, 12} /\ Mul(p) \in 1..63 /\ Div(p) \in 1..255
           /\ p.MASTER_CLOCK_PRESCALER \in 1..64
<1>1. /\ p.PLLA_MULTIPLIER \in 0..62 /\ p.PLLA_DIVIDER \in 0..255
      /\ p.MASTER_CLOCK_PRESCALER \in {1, 2, 3, 4, 8, 16, 32, 64}
      /\ p.RCOSC_FREQUENCY \in {4, 8, 10, 12}
  BY ValidNumbers
<1>2. MainMegaHz(p) \in {4, 8, 10, 12}
  BY <1>1 DEF MainMegaHz
<1>3. Mul(p) \in 1..63
  BY <1>1 DEF Mul
<1>4. Div(p) \in 1..255
  BY <1>1 DEF Div
<1>5. QED
  BY <1>1, <1>2, <1>3, <1>4

\* For settings with which the processor runs these are what the hardware has.
LEMMA PllIs ==
    ASSUME NEW c \in Cores, NEW p, Valid(c, p), Alive(p)
    PROVE  Times(p) = Mul(p) /\ Over(p) = Div(p)
<1>1. p.MASTER_CLOCK_SOURCE = "PLLACK" => p.PLLA_MULTIPLIER > 0 /\ p.PLLA_DIVIDER > 0
  BY DEF Alive, PllRuns
<1>2. QED
  BY <1>1 DEF Times, Over, Mul, Div

\* What GetProcessorClockFrequency computes for settings that the registers can
\* hold: its switches have a case for each of them.
LEMMA ProcessorFrequencyIs ==
    ASSUME NEW c \in Cores, NEW p, Valid(c, p)
    PROVE  ProcessorFrequency(c, p) =
               Divided(MainMegaHz(p), Mul(p), Div(p), p.MASTER_CLOCK_PRESCALER)
<1> DEFINE f == MainMegaHz(p) * MEGA_HZ
           x == (f \div Div(p)) * Mul(p)
<1>1. MainMegaHz(p) \in {4, 8, 10, 12} /\ f \in Nat
  BY FrequencyNumbers DEF MEGA_HZ
<1>2. /\ p.MAIN_CLOCK_SOURCE \in MainSources
      /\ p.RCOSC_FREQUENCY \in (IF c = "SAMV71" THEN {4, 8, 12} ELSE {4, 8, 10, 12})
      /\ p.PLLA_MULTIPLIER \in 0..62 /\ p.PLLA_DIVIDER \in 0..255
  BY ValidNumbers
<1>3. c = "SAMV71" => SamV71Core_OscillatorFrequency(p) = f
  BY <1>2 DEF SamV71Core_OscillatorFrequency, OscillatorFrequency, MainMegaHz,
              MainSources
<1>4. c = "SAMRH71" => SamRH71Core_OscillatorFrequency(p) = f
  BY <1>2 DEF SamRH71Core_OscillatorFrequency, OscillatorFrequency, MainMegaHz,
              MainSources, Cores
<1> HIDE DEF f
<1>5. apply_plla_config(p, f) = x
  <2>1. CASE p.MASTER_CLOCK_SOURCE = "PLLACK"
    <3>1. Mul(p) = IF p.PLLA_MULTIPLIER > 0 THEN p.PLLA_MULTIPLIER + 1 ELSE 1
      BY <2>1 DEF Mul
    <3>2. f \div Div(p) = IF p.PLLA_DIVIDER > 0 THEN f \div p.PLLA_DIVIDER ELSE f
      <4>1. f \div 1 = f
        BY <1>1
      <4>2. QED
        BY <2>1, <4>1 DEF Div
    <3>3. QED
      BY <2>1, <3>1, <3>2 DEF apply_plla_config
  <2>2. CASE p.MASTER_CLOCK_SOURCE # "PLLACK"
    <3>1. Mul(p) = 1 /\ Div(p) = 1 /\ apply_plla_config(p, f) = f
      BY <2>2 DEF apply_plla_config, Mul, Div
    <3>2. (f \div 1) * 1 = f
      BY <1>1
    <3>3. QED
      BY <3>1, <3>2
  <2>3. QED
    BY <2>1, <2>2
<1>6. ProcessorFrequency(c, p) = x \div p.MASTER_CLOCK_PRESCALER
  <2>1. CASE c = "SAMV71"
    BY <1>3, <1>5, <2>1 DEF ProcessorFrequency, SamV71Core_GetProcessorClockFrequency
  <2>2. CASE c = "SAMRH71"
    BY <1>4, <1>5, <2>2 DEF ProcessorFrequency, SamRH71Core_GetProcessorClockFrequency
  <2>3. QED
    BY <2>1, <2>2 DEF Cores
<1>7. QED
  BY <1>6 DEF Divided, f

\* A preset gives its frequency on the SAMV71.
LEMMA SamV71Core_PresetFrequency ==
    ASSUME NEW mhz \in {150, 120, 100, 75, 50, 25},
           NEW p, p = SamV71Core_Preset(mhz)
    PROVE  /\ p.MASTER_CLOCK_SOURCE = "PLLACK"
           /\ Divided(MainMegaHz(p), Mul(p), Div(p), p.MASTER_CLOCK_PRESCALER)
                 = mhz * MEGA_HZ
           /\ MainMegaHz(p) * Mul(p) = mhz * (Div(p) * p.MASTER_CLOCK_PRESCALER)
           /\ PllRuns(p) /\ p.MASTER_CLOCK_DIVIDER \in {1, 2}
<1> USE DEF Preset, SamV71Core_Preset, MainMegaHz, Mul, Div, PllRuns
<1>1. CASE mhz = 150
  <2>1. /\ p.MASTER_CLOCK_SOURCE = "PLLACK" /\ PllRuns(p)
        /\ p.MASTER_CLOCK_DIVIDER \in {1, 2} /\ p.MASTER_CLOCK_PRESCALER = 2
        /\ MainMegaHz(p) = 12 /\ Mul(p) = 25 /\ Div(p) = 1
    BY <1>1
  <2>2. QED
    BY ONLY <1>1, <2>1 DEF Divided, MEGA_HZ
<1>2. CASE mhz = 120
  <2>1. /\ p.MASTER_CLOCK_SOURCE = "PLLACK" /\ PllRuns(p)
        /\ p.MASTER_CLOCK_DIVIDER \in {1, 2} /\ p.MASTER_CLOCK_PRESCALER = 3
        /\ MainMegaHz(p) = 12 /\ Mul(p) = 30 /\ Div(p) = 1
    BY <1>2
  <2>2. QED
    BY ONLY <1>2, <2>1 DEF Divided, MEGA_HZ
<1>3. CASE mhz = 100
  <2>1. /\ p.MASTER_CLOCK_SOURCE = "PLLACK" /\ PllRuns(p)
        /\ p.MASTER_CLOCK_DIVIDER \in {1, 2} /\ p.MASTER_CLOCK_PRESCALER = 3
        /\ MainMegaHz(p) = 12 /\ Mul(p) = 25 /\ Div(p) = 1
    BY <1>3
  <2>2. QED
    BY ONLY <1>3, <2>1 DEF Divided, MEGA_HZ
<1>4. CASE mhz = 75
  <2>1. /\ p.MASTER_CLOCK_SOURCE = "PLLACK" /\ PllRuns(p)
        /\ p.MASTER_CLOCK_DIVIDER \in {1, 2} /\ p.MASTER_CLOCK_PRESCALER = 4
        /\ MainMegaHz(p) = 12 /\ Mul(p) = 25 /\ Div(p) = 1
    BY <1>4
  <2>2. QED
    BY ONLY <1>4, <2>1 DEF Divided, MEGA_HZ
<1>5. CASE mhz = 50
  <2>1. /\ p.MASTER_CLOCK_SOURCE = "PLLACK" /\ PllRuns(p)
        /\ p.MASTER_CLOCK_DIVIDER \in {1, 2} /\ p.MASTER_CLOCK_PRESCALER = 3
        /\ MainMegaHz(p) = 12 /\ Mul(p) = 25 /\ Div(p) = 2
    BY <1>5
  <2>2. QED
    BY ONLY <1>5, <2>1 DEF Divided, MEGA_HZ
<1>6. CASE mhz = 25
  <2>1. /\ p.MASTER_CLOCK_SOURCE = "PLLACK" /\ PllRuns(p)
        /\ p.MASTER_CLOCK_DIVIDER \in {1, 2} /\ p.MASTER_CLOCK_PRESCALER = 3
        /\ MainMegaHz(p) = 12 /\ Mul(p) = 25 /\ Div(p) = 4
    BY <1>6
  <2>2. QED
    BY ONLY <1>6, <2>1 DEF Divided, MEGA_HZ
<1>7. QED
  BY ONLY <1>1, <1>2, <1>3, <1>4, <1>5, <1>6

\* A preset gives its frequency on the SAMRH71, from a crystal or, with
\* USE_INTERNAL_RC, from the internal oscillator, if the build got that far.
LEMMA SamRH71Core_PresetFrequency ==
    ASSUME NEW mhz \in {100, 90, 80, 75, 60, 50, 25},
           NEW s \in {"RCOSC", "XOSC_BYPASSED"},
           NEW p, p = SamRH71Core_Preset(mhz, s)
    PROVE  /\ p.MASTER_CLOCK_SOURCE = "PLLACK"
           /\ Divided(MainMegaHz(p), Mul(p), Div(p), p.MASTER_CLOCK_PRESCALER)
                 = mhz * MEGA_HZ
           /\ MainMegaHz(p) * Mul(p) = mhz * (Div(p) * p.MASTER_CLOCK_PRESCALER)
           /\ PllRuns(p) /\ p.MASTER_CLOCK_DIVIDER \in {1, 2}
<1> USE DEF Preset, SamRH71Core_Preset, MainMegaHz, Mul, Div, PllRuns
<1>1. CASE mhz = 100
  <2>1. /\ p.MASTER_CLOCK_SOURCE = "PLLACK" /\ PllRuns(p)
        /\ p.MASTER_CLOCK_DIVIDER \in {1, 2} /\ p.MASTER_CLOCK_PRESCALER = 2
        /\ MainMegaHz(p) = 10 /\ Mul(p) = 20 /\ Div(p) = 1
    BY <1>1
  <2>2. QED
    BY ONLY <1>1, <2>1 DEF Divided, MEGA_HZ
<1>2. CASE mhz = 90
  <2>1. /\ p.MASTER_CLOCK_SOURCE = "PLLACK" /\ PllRuns(p)
        /\ p.MASTER_CLOCK_DIVIDER \in {1, 2} /\ p.MASTER_CLOCK_PRESCALER = 2
        /\ MainMegaHz(p) = 10 /\ Mul(p) = 18 /\ Div(p) = 1
    BY <1>2
  <2>2. QED
    BY ONLY <1>2, <2>1 DEF Divided, MEGA_HZ
<1>3. CASE mhz = 80
  <2>1. /\ p.MASTER_CLOCK_SOURCE = "PLLACK" /\ PllRuns(p)
        /\ p.MASTER_CLOCK_DIVIDER \in {1, 2} /\ p.MASTER_CLOCK_PRESCALER = 2
        /\ MainMegaHz(p) = 10 /\ Mul(p) = 16 /\ Div(p) = 1
    BY <1>3
  <2>2. QED
    BY ONLY <1>3, <2>1 DEF Divided, MEGA_HZ
<1>4. CASE mhz = 75
  <2>1. /\ p.MASTER_CLOCK_SOURCE = "PLLACK" /\ PllRuns(p)
        /\ p.MASTER_CLOCK_DIVIDER \in {1, 2} /\ p.MASTER_CLOCK_PRESCALER = 2
        /\ MainMegaHz(p) = 10 /\ Mul(p) = 15 /\ Div(p) = 1
    BY <1>4
  <2>2. QED
    BY ONLY <1>4, <2>1 DEF Divided, MEGA_HZ
<1>5. CASE mhz = 60
  <2>1. /\ p.MASTER_CLOCK_SOURCE = "PLLACK" /\ PllRuns(p)
        /\ p.MASTER_CLOCK_DIVIDER \in {1, 2} /\ p.MASTER_CLOCK_PRESCALER = 2
        /\ MainMegaHz(p) = 10 /\ Mul(p) = 24 /\ Div(p) = 2
    BY <1>5
  <2>2. QED
    BY ONLY <1>5, <2>1 DEF Divided, MEGA_HZ
<1>6. CASE mhz = 50
  <2>1. /\ p.MASTER_CLOCK_SOURCE = "PLLACK" /\ PllRuns(p)
        /\ p.MASTER_CLOCK_DIVIDER \in {1, 2} /\ p.MASTER_CLOCK_PRESCALER = 1
        /\ MainMegaHz(p) = 10 /\ Mul(p) = 25 /\ Div(p) = 5
    BY <1>6
  <2>2. QED
    BY ONLY <1>6, <2>1 DEF Divided, MEGA_HZ
<1>7. CASE mhz = 25
  <2>1. /\ p.MASTER_CLOCK_SOURCE = "PLLACK" /\ PllRuns(p)
        /\ p.MASTER_CLOCK_DIVIDER \in {1, 2} /\ p.MASTER_CLOCK_PRESCALER = 2
        /\ MainMegaHz(p) = 10 /\ Mul(p) = 25 /\ Div(p) = 5
    BY <1>7
  <2>2. QED
    BY ONLY <1>7, <2>1 DEF Divided, MEGA_HZ
<1>8. QED
  BY ONLY <1>1, <1>2, <1>3, <1>4, <1>5, <1>6, <1>7

\* A whole number of megahertz loses nothing in the split product.
LEMMA ReloadOfMegaHz ==
    ASSUME NEW mhz \in Nat
    PROVE  ReloadValue(mhz * MEGA_HZ) = mhz * MICROSECONDS_PER_TICK
<1>1. MICROSECONDS_PER_TICK \in Nat
  BY TickAssumption
<1>2. (mhz * 1000000) \div 1000000 = mhz /\ (mhz * 1000000) % 1000000 = 0
  OBVIOUS
<1>3. (0 * MICROSECONDS_PER_TICK) \div 1000000 = 0
  BY <1>1, SMT
<1>4. mhz * MICROSECONDS_PER_TICK \in Nat
  BY <1>1, SMT
<1>5. QED
  BY <1>2, <1>3, <1>4 DEF ReloadValue, MEGA_HZ

\* The master clock of a whole number of megahertz, halved or not.
LEMMA MasterClockOfMegaHz ==
    ASSUME NEW mhz \in Nat, NEW d \in {1, 2}
    PROVE  ((mhz * MEGA_HZ) \div d) * d = mhz * MEGA_HZ
<1>1. mhz * MEGA_HZ = 2 * (mhz * 500000) /\ mhz * 500000 \in Nat
  BY SMT DEF MEGA_HZ
<1> DEFINE n == mhz * 500000
<1>2. n \in Nat /\ mhz * MEGA_HZ = 2 * n
  BY <1>1
<1> HIDE DEF n
<1>3. ((2 * n) \div d) * d = 2 * n
  BY <1>2, SMT
<1>4. QED
  BY <1>2, <1>3

\* An accepted build that names a frequency runs at it, and the runtime knows
\* it, for any macros it defines besides, any settings the boot software left
\* and any tick, unless Pmc_setConfig failed.
THEOREM PresetGivesItsFrequencyCorrect == ClockSpec => []PresetGivesItsFrequency
<1>1. BootInv => PresetGivesItsFrequency
  <2> DEFINE mhz == Max(Values(build, Presets))
             presc == running.MASTER_CLOCK_PRESCALER
             hardware == MainMegaHz(running) * Times(running)
                             = mhz * (Over(running) * presc)
             tick == frequencies.systick = mhz * MICROSECONDS_PER_TICK
             master == frequencies.main_clock * running.MASTER_CLOCK_DIVIDER
                           = mhz * MEGA_HZ
  <2> SUFFICES ASSUME BootInv, stage = "up", ~failed, Values(build, Presets) # {}
               PROVE  hardware /\ tick /\ master
    BY DEF PresetGivesItsFrequency
  <2>1. /\ BuildType /\ core \in Cores /\ Accepted(core, build)
        /\ Valid(core, pmc) /\ Alive(pmc) /\ running = pmc
    BY DEF BootInv, BuildType, Held
  <2>2. mhz \in PresetFrequencies[core]
    BY <2>1, PresetIsKnown
  <2>3. Configured
    BY <2>1 DEF Accepted, SamV71Core_PresetIsAlone, SamRH71Core_PresetIsAlone, Configured
  <2>4. pmcConfig(core, build) = Expanded(core, build)
        /\ pmcConfig(core, build) = [g \in LowLevel |-> pmcConfig(core, build)[g]]
    BY <2>1, ConfigurationIsSound
  <2>5. \A g \in LowLevel : pmc[g] = pmcConfig(core, build)[g]
    <3>1. TakenOver = LowLevel
      BY DEF TakenOver
    <3>2. QED
      BY <2>3, <3>1 DEF BootInv
  <2>6. pmc = Expanded(core, build)
    <3>1. pmc = [g \in LowLevel |-> pmc[g]]
      BY <2>1 DEF Valid
    <3>2. QED
      BY <2>4, <2>5, <3>1
  <2>7. mhz \in Nat
        /\ Divided(MainMegaHz(pmc), Mul(pmc), Div(pmc), pmc.MASTER_CLOCK_PRESCALER)
              = mhz * MEGA_HZ
        /\ MainMegaHz(pmc) * Mul(pmc)
              = mhz * (Div(pmc) * pmc.MASTER_CLOCK_PRESCALER)
        /\ pmc.MASTER_CLOCK_DIVIDER \in {1, 2}
    <3>1. CASE core = "SAMV71"
      <4>1. mhz \in {150, 120, 100, 75, 50, 25} /\ pmc = SamV71Core_Preset(mhz)
        BY <2>2, <2>6, <3>1 DEF PresetFrequencies, Expanded
      <4> HIDE DEF mhz
      <4>2. QED
        BY <4>1, SamV71Core_PresetFrequency
    <3>2. CASE core = "SAMRH71"
      <4>1. PICK s \in {"RCOSC", "XOSC_BYPASSED"} : pmc = SamRH71Core_Preset(mhz, s)
        BY <2>6, <3>2 DEF Expanded
      <4>2. mhz \in {100, 90, 80, 75, 60, 50, 25}
        BY <2>2, <3>2 DEF PresetFrequencies
      <4> HIDE DEF mhz
      <4>3. QED
        BY <4>1, <4>2, SamRH71Core_PresetFrequency
    <3>3. QED
      BY <2>1, <3>1, <3>2 DEF Cores
  <2> HIDE DEF mhz
  <2>8. ProcessorFrequency(core, pmc) = mhz * MEGA_HZ
    BY <2>1, <2>7, ProcessorFrequencyIs
  <2>9. hardware
    BY <2>1, <2>7, PllIs
  <2>10. tick
    <3>1. frequencies.systick = ReloadValue(ProcessorFrequency(core, pmc))
      BY <2>1 DEF BootInv, Systick, SamV71Core_InitSystick, SamRH71Core_InitSystick,
                  ProcessorFrequency
    <3>2. QED
      BY <2>7, <2>8, <3>1, ReloadOfMegaHz
  <2>11. master
    <3>1. frequencies.main_clock
             = ProcessorFrequency(core, pmc) \div pmc.MASTER_CLOCK_DIVIDER
      BY <2>1 DEF BootInv, MasterClock, SamV71Core_GetMasterClockFrequency,
                  SamRH71Core_GetMasterClockFrequency, ProcessorFrequency
    <3>2. QED
      BY <2>1, <2>7, <2>8, <3>1, MasterClockOfMegaHz
  <2>12. QED
    BY <2>9, <2>10, <2>11
<1>2. QED
  BY <1>1, BootInvariant, PTL

-----------------------------------------------------------------------------
(* The clocks: rounding.                                                   *)

\* The quotient and the remainder of a division.
LEMMA QuotientAndRemainder ==
    ASSUME NEW x \in Nat, NEW n \in Nat \ {0}
    PROVE  /\ x \div n \in Nat /\ x % n \in 0..(n - 1)
           /\ x = (n * (x \div n)) + (x % n)
OBVIOUS

\* Products grow with their factors.
LEMMA ProductGrows ==
    ASSUME NEW a \in Nat, NEW b \in Nat, NEW c \in Nat, a <= b
    PROVE  /\ a * c \in Nat /\ b * c \in Nat /\ a * c <= b * c
           /\ c * a <= c * b
<1>1. PICK d \in Nat : b = a + d
  <2>1. b - a \in Nat /\ b = a + (b - a)
    OBVIOUS
  <2>2. QED
    BY <2>1
<1>2. d * c \in Nat /\ a * c \in Nat
  BY SMT
<1>3. b * c = a * c + d * c
  BY <1>1, SMT
<1>4. c * a = a * c /\ c * b = b * c
  BY SMT
<1>5. QED
  BY <1>2, <1>3, <1>4

\* Two roundings, one before and one after the multiplication, lose less than
\* the divisor for each cycle multiplied and each cycle divided.
LEMMA TwoRoundings ==
    ASSUME NEW f \in Nat, NEW mul \in Nat, NEW div \in Nat \ {0},
           NEW presc \in Nat \ {0}
    PROVE  LET proc == ((f \div div) * mul) \div presc
               lost == f * mul - proc * div * presc
           IN  /\ proc \in Nat
               /\ 0 <= lost /\ lost < div * (mul + presc)
<1> DEFINE a == f \div div
           r == f % div
           x == a * mul
           proc == x \div presc
           s == x % presc
<1>1. a \in Nat /\ r \in 0..(div - 1) /\ f = div * a + r
  BY QuotientAndRemainder
<1>2. x \in Nat
  BY <1>1, SMT
<1>3. proc \in Nat /\ s \in 0..(presc - 1) /\ x = presc * proc + s
  BY <1>2, QuotientAndRemainder
<1> HIDE DEF a, r, proc, s
<1>4. f * mul = div * (a * mul) + r * mul
  BY <1>1, SMT
<1>5. div * (presc * proc + s) = proc * div * presc + div * s
  BY <1>3, SMT
<1>6. f * mul = proc * div * presc + div * s + r * mul
  BY <1>3, <1>4, <1>5
<1>7. /\ div * s \in Nat /\ r * mul \in Nat /\ proc * div * presc \in Nat
      /\ div * presc \in Nat /\ div * mul \in Nat
  BY <1>1, <1>3, SMT
<1>8. r * mul <= div * mul
  BY <1>1, ProductGrows
<1>9. div * (s + 1) <= div * presc /\ div * (s + 1) = div * s + div
  <2>1. s + 1 \in Nat /\ s + 1 <= presc
    BY <1>3
  <2>2. div * (s + 1) <= div * presc
    BY <2>1, ProductGrows
  <2>3. div * (s + 1) = div * s + div
    BY <1>3, SMT
  <2>4. QED
    BY <2>2, <2>3
<1>10. div * (mul + presc) = div * mul + div * presc
  BY SMT
<1>11. QED
  BY <1>3, <1>6, <1>7, <1>8, <1>9, <1>10 DEF a, proc

-----------------------------------------------------------------------------
(* The clocks: the frequency is true.                                      *)

\* A quotient by a number of at least one is no larger, by a larger number no
\* larger, and of a larger number no smaller.
LEMMA QuotientBounds ==
    ASSUME NEW x \in Nat, NEW n \in Nat \ {0}, NEW k \in Nat, k * n <= x
    PROVE  /\ x \div n \in Nat /\ x \div n <= x
           /\ k <= x \div n
<1> DEFINE q == x \div n
           r == x % n
<1>1. q \in Nat /\ r \in 0..(n - 1) /\ x = (n * q) + r
  BY QuotientAndRemainder
<1> HIDE DEF q, r
<1>2. q <= n * q /\ n * q \in Nat
  <2>1. 1 * q <= n * q /\ n * q \in Nat
    BY <1>1, ProductGrows
  <2>2. QED
    BY <1>1, <2>1
<1>3. ASSUME q < k PROVE FALSE
  <2>1. q + 1 \in Nat /\ q + 1 <= k
    BY <1>1, <1>3
  <2>2. (q + 1) * n <= k * n /\ k * n \in Nat /\ (q + 1) * n \in Nat
    BY <2>1, ProductGrows
  <2>3. (q + 1) * n = (n * q) + n
    BY <1>1, SMT
  <2>4. QED
    BY <1>1, <1>2, <2>2, <2>3
<1>4. QED
  BY <1>1, <1>2, <1>3 DEF q

\* The processor's frequency is at most the fastest that the macros can ask
\* for, and the frequency from which the elapsed time is derived is not zero.
LEMMA FrequencyRange ==
    ASSUME NEW c \in Cores, NEW p, Valid(c, p)
    PROVE  /\ ProcessorFrequency(c, p) \in Nat
           /\ ProcessorFrequency(c, p) <= 756000000
           /\ ProcessorFrequency(c, p) >= 16
<1> DEFINE mul == Mul(p)
           div == Div(p)
           presc == p.MASTER_CLOCK_PRESCALER
           f == MainMegaHz(p) * MEGA_HZ
           a == f \div div
           x == a * mul
<1>0. /\ MainMegaHz(p) \in {4, 8, 10, 12}
      /\ mul \in 1..63 /\ div \in 1..255 /\ presc \in 1..64
  BY FrequencyNumbers
<1> HIDE DEF mul, div, presc
<1>1. f \in Nat /\ 4000000 <= f /\ f <= 12000000
  BY <1>0, SMT DEF MEGA_HZ
<1> HIDE DEF f
<1>2. a \in Nat /\ a <= 12000000 /\ 15000 <= a
  <2>1. 15000 * div <= f
    BY <1>0, <1>1, SMT
  <2>2. QED
    BY <1>0, <1>1, <2>1, QuotientBounds, SMT
<1> HIDE DEF a
<1>3. x \in Nat /\ x <= 756000000 /\ 15000 <= x
  <2>1. x \in Nat /\ x <= 12000000 * mul /\ 15000 * mul <= x
    BY <1>0, <1>2, ProductGrows, SMT
  <2>2. QED
    BY <1>0, <2>1, SMT
<1> HIDE DEF x
<1>4. x \div presc \in Nat /\ x \div presc <= x /\ 16 <= x \div presc
  <2>1. 16 * presc <= x
    BY <1>0, <1>3, SMT
  <2>2. QED
    BY <1>0, <1>3, <2>1, QuotientBounds, SMT
<1>5. ProcessorFrequency(c, p) = x \div presc
  BY ProcessorFrequencyIs DEF Divided, x, a, f, mul, div, presc
<1>6. QED
  BY <1>3, <1>4, <1>5, SMT

\* The reload value of a frequency that the macros can ask for fits its bits.
LEMMA ReloadFits ==
    ASSUME NEW f \in Nat, f <= 756000000
    PROVE  ReloadValue(f) \in Nat /\ ReloadValue(f) < SYSTICK_RANGE
<1> DEFINE mpt == MICROSECONDS_PER_TICK
           q == f \div 1000000
           r == f % 1000000
           s == (r * mpt) \div 1000000
<1>1. mpt \in Nat /\ 756 * mpt < SYSTICK_RANGE
  BY TickAssumption DEF FastestMegaHz
<1> HIDE DEF mpt
<1>2. q \in Nat /\ r \in Nat /\ f = (1000000 * q) + r
  BY SMT
<1> HIDE DEF q, r
<1>3. r * mpt \in Nat /\ q * mpt \in Nat
  BY <1>1, <1>2, SMT
<1>4. s \in Nat /\ 1000000 * s <= r * mpt
  BY <1>3, SMT
<1> HIDE DEF s
<1>5. 1000000 * (q * mpt) + r * mpt = f * mpt
  BY <1>1, <1>2, SMT
<1>6. f * mpt <= 756000000 * mpt
  BY <1>1, ProductGrows, SMT
<1>7. 1000000 * ((q * mpt) + s) <= 1000000 * (756 * mpt)
  <2>1. 756000000 * mpt = 1000000 * (756 * mpt)
    BY <1>1, SMT
  <2>2. QED
    BY <1>1, <1>3, <1>4, <1>5, <1>6, <2>1, SMT
<1>8. (q * mpt) + s \in Nat /\ (q * mpt) + s <= 756 * mpt
  BY <1>1, <1>3, <1>4, <1>7, SMT
<1>9. ReloadValue(f) = (q * mpt) + s
  BY SMT DEF ReloadValue, q, r, s, mpt
<1>10. QED
  BY <1>1, <1>8, <1>9, SMT DEF SYSTICK_RANGE

\* The frequency that the tick and the elapsed time are derived from is the one
\* the processor runs at, for any macros and any settings the boot software
\* left, whenever the clocks run with what the registers say and not from the
\* slow clock.  The reload value and the divisor of Hal_Init are in their ranges
\* whatever the registers say, for ticks as TickAssumption has them.
THEOREM FrequencyIsTrueCorrect == ClockSpec => []FrequencyIsTrue
<1>1. BootInv => FrequencyIsTrue
  <2> SUFFICES ASSUME BootInv, stage = "up" PROVE FrequencyIsTrue
    BY DEF FrequencyIsTrue
  <2> DEFINE proc == ProcessorFrequency(core, pmc)
             presc == running.MASTER_CLOCK_PRESCALER
             lost == MainMegaHz(running) * MEGA_HZ * Times(running)
                         - frequencies.cpu * Over(running) * presc
  <2>1. core \in Cores /\ Valid(core, pmc) /\ Alive(running)
        /\ frequencies.cpu = proc
    BY DEF BootInv, BuildType, Held
  <2>2. proc \in Nat /\ proc <= 756000000 /\ proc >= 16
    BY <2>1, FrequencyRange
  <2>3. ASSUME ~failed \/ running = pmc
        PROVE  0 <= lost /\ lost < Over(running) * (Times(running) + presc)
    <3> DEFINE main == MainMegaHz(running)
               f == main * MEGA_HZ
    <3>1. running = pmc
      BY <2>3 DEF BootInv, Held
    <3>2. Times(running) = Mul(running) /\ Over(running) = Div(running)
      BY <2>1, <3>1, PllIs
    <3>3. /\ main \in {4, 8, 10, 12} /\ Mul(running) \in 1..63
          /\ Div(running) \in 1..255 /\ presc \in 1..64
      BY <2>1, <3>1, FrequencyNumbers
    <3>4. /\ f \in Nat /\ Times(running) \in Nat /\ Over(running) \in Nat \ {0}
          /\ presc \in Nat \ {0}
      BY <3>2, <3>3 DEF MEGA_HZ
    <3>5. proc = Divided(main, Mul(running), Div(running), presc)
      BY <2>1, <3>1, ProcessorFrequencyIs
    <3>6. frequencies.cpu = ((f \div Over(running)) * Times(running)) \div presc
      BY <2>1, <3>2, <3>5 DEF Divided
    <3> HIDE DEF main, f, presc
    <3>7. /\ 0 <= f * Times(running) - frequencies.cpu * Over(running) * presc
          /\ f * Times(running) - frequencies.cpu * Over(running) * presc
                < Over(running) * (Times(running) + presc)
      BY <3>4, <3>6, TwoRoundings
    <3>8. QED
      BY <3>7 DEF f, main
  <2>4. frequencies.systick < SYSTICK_RANGE
    <3>1. frequencies.systick = ReloadValue(proc)
      BY <2>1 DEF BootInv, Systick, SamV71Core_InitSystick, SamRH71Core_InitSystick,
                  ProcessorFrequency
    <3>2. QED
      BY <2>2, <3>1, ReloadFits, SMT
  <2>5. frequencies.prescaled > 0
    <3>1. frequencies.prescaled = (proc \div pmc.MASTER_CLOCK_DIVIDER) \div 8
      BY <2>1 DEF BootInv, MasterClock, SamV71Core_GetMasterClockFrequency,
                  SamRH71Core_GetMasterClockFrequency, ProcessorFrequency
    <3>2. pmc.MASTER_CLOCK_DIVIDER \in {1, 2}
      BY <2>1, ValidNumbers
    <3>3. proc \in Nat /\ proc >= 16
      BY <2>2, SMT
    <3> HIDE DEF proc
    <3>4. QED
      BY <3>1, <3>2, <3>3
  <2>6. FrequencyIsTrue <=>
            /\ (~failed \/ running = pmc) /\ running.MASTER_CLOCK_SOURCE # "SLCK"
                  => 0 <= lost /\ lost < Over(running) * (Times(running) + presc)
            /\ frequencies.systick < SYSTICK_RANGE
            /\ frequencies.prescaled > 0
    BY DEF FrequencyIsTrue
  <2> HIDE DEF lost, presc
  <2>7. QED
    BY <2>3, <2>4, <2>5, <2>6
<1>2. QED
  BY <1>1, BootInvariant, PTL
==============================================================================
