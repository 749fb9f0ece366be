\* The status of a module changes while its type stays.
SPECIFICATION Spec
CONSTANTS
    Interface = {"50", "50-1"}
    NoParent = "none"
    TypeOf <- MCTypeOf
    HwOf <- MCHwOf
    ParentOf <- MCParentOf
    PortName = {"50", "50-1"}
    CanHold <- MCCanHold
    InitialPort = {"50", "50-1"}
    UserConfigs <- SplitConfigs
    PmInfos <- MCPmInfos
    PortAdmins = {"absent"}
    MaxMtu = 9192
    IntSpan = 1048576
    Events = {"user_config", "pm_info", "status"}
    MaxFaults = 0
INVARIANT
    ChildrenTakePmInfo
