\* Every table is loaded before and after a change, and once without memory.
SPECIFICATION Spec
CONSTANTS
    Interface = {"1", "2", "2.1", "50-1", "50-2", "51-1"}
    Port = {"50-1", "50-2", "51-1"}
    Number <- MCNumber
    Lane = {"50-1", "50-2", "51-1"}
    FirstOf <- MCFirstOf
    InterfaceRows <- MCInterfaceRows
    PortRows <- MCPortRows
    Systems <- MCSystems
    Unset = "unset"
    Garbage = {0, 1}
    Word = 4
    Mega = 2
    MaxChanges = 1
    MaxNoMemory = 1
INVARIANTS
    TypeOK
    StatusFromNearestRow
    IfTablesAgree
    TotalsMatchRows
PROPERTY
    DiesOfIncompleteRows
