CONSTANTS
    ControlPlane = {c1, c2}
    Worker = {w1}
    Version <- MCVersion
    FirstVersion = 1
    NoNode = NoNode
    NoConfig = 0
    NoVersion = NoVersion
    Rollback = TRUE
    MaxReboots = 3
    MaxCrashes = 2
    MaxFailures = 2
SPECIFICATION Spec
SYMMETRY MCSymmetry
INVARIANTS
    IInv
    SectionIsHeld
    ApplyPrecedesNodeNoFaults
    KubeletFollowsImageNoCrash
    ConfigMapConverges
    OnlyFaultsLeakTheLock
PROPERTY ImplementsRollingUpgrade
\* Every node up and no reboot left to come is a legitimate end.
CHECK_DEADLOCK FALSE
