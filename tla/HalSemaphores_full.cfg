SPECIFICATION Spec
CONSTANTS
    Tasks = {t1, t2}
    NoTask = NoTask
    RT_MAX_HAL_SEMAPHORES = 2
    KernelSemaphores = 2
    MaxCreates = 2
INVARIANT
    NeverRefused
