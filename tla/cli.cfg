\* A session on an ordinary interface, a splittable one and its lane.
SPECIFICATION Spec
CONSTANTS
    Interface = {"7", "50", "50-1"}
    NoInterface = "none"
    NameOf <- MCNameOf
    PrefixOf <- MCPrefixOf
    HwOf <- MCHwOf
    ParentOf <- MCParentOf
    Splittable = {"50"}
    Lag = {"lag1"}
    LagMembers <- LaneLagMembers
    CommandsFor <- MCCommandsFor
    MaxMtu = 9192
    IntSpan = 1048576
    MaxOthers = 1
INVARIANTS
    TypeOK
    FlowControlFollowsCommands
    RunningConfigRestores
    LaneInUseNeedsSplit
    PortAdminAgrees
