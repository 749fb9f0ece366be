\* Two interfaces of which one's name is the beginning of the other's.
SPECIFICATION Spec
CONSTANTS
    Interface = {"5", "50", "50-1"}
    NoInterface = "none"
    NameOf <- MCNameOf
    PrefixOf <- MCPrefixOf
    HwOf <- MCHwOf
    ParentOf <- MCParentOf
    Splittable = {"50"}
    Lag = {"lag1"}
    LagMembers <- NoLagMembers
    CommandsFor <- NoCommands
    MaxMtu = 9192
    IntSpan = 1048576
    MaxOthers = 0
INVARIANT OwnPortKeepsInterface
