SPECIFICATION Spec
CONSTANTS
    Users = {u1, u2}
    XDMACCHID_NUMBER = 2
    ChannelCounts = {2}
    Modes = {FALSE}
    Transfers <- EndTransfers
    WaitsForStop = TRUE
    ISR = ISR
    NoUser = NoUser
    NULL = NULL
PROPERTY
    EndIsNoticed
