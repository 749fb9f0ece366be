\* Every kind of interface, every order of column changes.
SPECIFICATION Spec
CONSTANTS
    Kinds <- MCKinds
    Autonegs = {"absent", "on", "off"}
    Pauses = {"rxtx"}
    Duplexes = {"half"}
    SpeedLists <- MCSpeedLists
    Mtus <- MCMtus
    PmInfos <- MCPmInfos
    MaxMtu = 9192
    IntSpan = 1048576
INVARIANTS
    TypeOK
    ReasonIsFirstThatApplies
    HwConfigFollowsRow
