CONSTANTS
    InitNode = i
    ControlPlane = {c1}
    Worker = {w1}
    Vip = {i}
    MaxReboots = 1
    MaxCrashes = 2
    MaxFailures = 1
    MaxAborts = 1
    MaxExpiries = 1
    MaxRefusals = 1
SPECIFICATION FairSpec
INVARIANTS
    BInv
    VipNeverLost
    MarkerMeansMember
    OrphansNeedFaults
    CertsKeptUnlessMissed
PROPERTIES
    VipLostByBackup
    ImplementsMembership
    BootstrapEnds
    WorkersJoin
\* Every node done is a legitimate end.
CHECK_DEADLOCK FALSE
