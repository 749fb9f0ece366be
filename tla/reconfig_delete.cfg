\* An L3 port and a loopback come and go, port admin states change.
SPECIFICATION Spec
CONSTANTS
    Interface = {"1", "lo1"}
    NoParent = "none"
    TypeOf <- MCTypeOf
    HwOf <- MCHwOf
    ParentOf <- MCParentOf
    PortName = {"1", "lo1"}
    CanHold <- MCCanHold
    InitialPort = {"1"}
    UserConfigs <- AdminConfigs
    PmInfos = {}
    PortAdmins = {"down"}
    MaxMtu = 9192
    IntSpan = 1048576
    Events = {"user_config", "port_admin", "port_delete", "port_insert", "virtual"}
    MaxFaults = 0
INVARIANTS
    TypeOK
    EnabledNeedsRow
    CacheTracksRows
    PortsAreCached
