\* A splittable interface, one of its lanes and their modules; commits that
\* fail, restarts.  Ports stay as they are.
SPECIFICATION Spec
CONSTANTS
    Interface = {"50", "50-1"}
    NoParent = "none"
    TypeOf <- MCTypeOf
    HwOf <- MCHwOf
    ParentOf <- MCParentOf
    PortName = {"50", "50-1"}
    CanHold <- MCCanHold
    InitialPort = {"50", "50-1"}
    UserConfigs <- SplitConfigs
    PmInfos <- MCPmInfos
    PortAdmins = {"absent"}
    MaxMtu = 9192
    IntSpan = 1048576
    Events = {"user_config", "pm_info", "status"}
    MaxFaults = 1
INVARIANTS
    SplitExclusive
    CacheTracksRows
    ColumnsFollowRows
    WritesAreCommitted
