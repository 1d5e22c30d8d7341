SPECIFICATION WireSpec
CONSTANTS
    None = None
    Null = Null
    Odd = Odd
    ErrorCode = 500
    IDs <- MCIDs
    Names <- MCNames
    Principals <- MCPrincipals
    Ports <- MCPorts
    Bodies <- MCBodies
    Numbers <- MCNumbers
    Manual <- MCManual
    Clients = {c1, c2}
    Called <- MCCalled
    CallsOf <- MCCallsOf
    Lossy <- MCLossy
    MaxCalls = 3
INVARIANTS
    TypeOK
    NamesUnique
    EachNumbered
    ReadsBack
    SeesEarlier
PROPERTIES
    ServesAsMock
    VersionsKept
SYMMETRY Symmetry
CHECK_DEADLOCK FALSE
