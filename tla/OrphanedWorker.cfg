CONSTANTS
    InitNode = i
    ControlPlane = {}
    Worker = {w1}
    Vip = {}
    MaxReboots = 1
    MaxCrashes = 1
    MaxFailures = 0
    MaxAborts = 0
    MaxExpiries = 0
    MaxRefusals = 0
SPECIFICATION Spec
INVARIANT NoOrphans
\* Every node done is a legitimate end.
CHECK_DEADLOCK FALSE
