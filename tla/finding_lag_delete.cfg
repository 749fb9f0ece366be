\* A LAG with interfaces is deleted.
SPECIFICATION Spec
CONSTANTS
    Interface = {"1"}
    NoParent = "none"
    TypeOf <- MCTypeOf
    HwOf <- MCHwOf
    ParentOf <- MCParentOf
    PortName = {"1", "lag1"}
    CanHold <- MCCanHold
    InitialPort = {}
    UserConfigs <- AdminConfigs
    PmInfos = {}
    PortAdmins = {"absent", "down"}
    MaxMtu = 9192
    IntSpan = 1048576
    Events = {"user_config", "members", "port_insert", "port_delete"}
    MaxFaults = 0
INVARIANT
    DetachedIsDown
