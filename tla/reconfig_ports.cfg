\* Two interfaces, an L3 port and a LAG: ports are inserted, change their admin
\* state and their interfaces, and are never deleted.
SPECIFICATION Spec
CONSTANTS
    Interface = {"1", "2"}
    NoParent = "none"
    TypeOf <- MCTypeOf
    HwOf <- MCHwOf
    ParentOf <- MCParentOf
    PortName = {"1", "lag1"}
    CanHold <- MCCanHold
    InitialPort = {"1"}
    UserConfigs <- AdminConfigs
    PmInfos = {}
    PortAdmins = {"absent", "down"}
    MaxMtu = 9192
    IntSpan = 1048576
    Events = {"user_config", "port_admin", "members", "port_insert"}
    MaxFaults = 0
INVARIANTS
    ColumnsFollowPorts
    PortCacheTracksRows
