\* Reconfiguration and arbiter together: an interface, a loopback that comes
\* and goes, LACP; one commit fails, one restart.
SPECIFICATION FairDaemonSpec
CONSTANTS
    Interface = {"1", "lo1"}
    NoParent = "none"
    TypeOf <- MCTypeOf
    HwOf <- MCHwOf
    ParentOf <- MCParentOf
    PortName = {"1", "lo1"}
    CanHold <- MCCanHold
    InitialPort = {"1"}
    UserConfigs <- AdminConfigs
    PmInfos = {}
    PortAdmins = {"up"}
    MaxMtu = 9192
    IntSpan = 1048576
    Events = {"user_config", "virtual", "bond_status"}
    MaxFaults = 1
    LayerProtos <- RegisteredLayers
    NONE = 1
    Status = {"absent", "down"}
INVARIANTS
    DaemonTypeOK
    ForwardingFollowsEnable
PROPERTIES
    DaemonRefinesForwarding
    ShutdownStopsForwarding
    BlockStopsForwarding
    ReadyInterfaceForwards
