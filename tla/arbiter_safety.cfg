\* Two layers, two protocols in the first one, a failed commit, a restart.
SPECIFICATION Spec
CONSTANTS
    i1 = i1
    i2 = i2
    Interface = {i1, i2}
    LayerProtos <- ExtendedLayers
    NONE = 3
    Status = {"absent", "down"}
    MaxFailures = 1
    MaxRestarts = 1
SYMMETRY Symmetry
INVARIANTS
    TypeOK
    Settled
    NoForwardingWhileDisabled
    IInv
PROPERTY
    RefinesForwarding
