SPECIFICATION Spec
CONSTANTS
    Writers = {1, 3}
    OperatorPriority = 2
    RT_EXEC_LOG_BUFFER_SIZE = 2
    MaxEntries = 4
    NoValue = NoValue
INVARIANTS
    TypeOK
    BufferHoldsRecent
    NoPhantomEntries
    SizeIsNumberOfEntries
    FrozenLogComesToRest
