SPECIFICATION Spec
CONSTANTS
    Users = {u1, u2}
    XDMACCHID_NUMBER = 2
    ChannelCounts = {1, 2}
    Modes = {TRUE, FALSE}
    Transfers <- AllTransfers
    WaitsForStop = FALSE
    ISR = ISR
    NoUser = NoUser
    NULL = NULL
SYMMETRY AnyUser
INVARIANTS
    TypeOK
    OneHolder
    DoneMeansIdle
    FreeChannelsAreQuiet
    CallbackIsHolders
