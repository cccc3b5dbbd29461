SPECIFICATION Spec
CONSTANTS
    Tasks = {t1, t2, t3}
    NoTask = NoTask
    RT_MAX_HAL_SEMAPHORES = 2
    KernelSemaphores = 2
    MaxCreates = 3
INVARIANTS
    TypeOK
    TableHoldsCreated
    MutualExclusion
    NoDeadlock
PROPERTY
    WaitersServed
