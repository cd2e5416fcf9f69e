CONSTANTS
    ControlPlane = {c1, c2}
    Worker = {}
    Version <- MCVersion
    FirstVersion = 1
    NoNode = NoNode
    NoConfig = 0
    NoVersion = NoVersion
    Rollback = FALSE
    MaxReboots = 3
    MaxCrashes = 1
    MaxFailures = 0
SPECIFICATION Spec
INVARIANT ApplyPrecedesNode
\* Every node up and no reboot left to come is a legitimate end.
CHECK_DEADLOCK FALSE
