\* The views of a database that a CLI session configures, with two LAGs.
SPECIFICATION ShowSpec
CONSTANTS
    Interface = {"7", "50", "50-1"}
    NoInterface = "none"
    NameOf <- MCNameOf
    PrefixOf <- MCPrefixOf
    HwOf <- MCHwOf
    ParentOf <- MCParentOf
    Splittable = {"50"}
    Lag = {"lag1", "lag10"}
    LagMembers <- MCLagMembers
    CommandsFor <- MCCommandsFor
    MaxMtu = 9192
    IntSpan = 1048576
    MaxOthers = 0
    LinkSpeed <- MCLinkSpeed
    StatKeys = {"rx_packets", "tx_errors"}
    Statistics <- MCStatistics
    QueueBytes <- MCQueueBytes
    ModuleOf <- MCModuleOf
    QosConfigs <- MCQosConfigs
    QosPorts = {"lag1"}
    SystemQos <- MCSystemQos
    L3Values <- MCL3Values
INVARIANTS
    ShowRunRestores
    FilteredIsSection
    HiddenIsUnusable
    ShownIsApplied
    LagTotals
    ViewsAgreeWithRunningConfig
