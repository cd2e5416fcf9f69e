CONSTANTS
    Version = {v1, v2}
    None = none
    MaxReboots = 2
    MaxCrashes = 1
    MaxTorn = 1
    MaxCutoffs = 1
    MaxResets = 2
    MaxOverlaps = 1
    MaxFailures = 1
SPECIFICATION FairSpec
INVARIANTS
    NInv
    ResetCleans
    MarkedIsMember
    ImageAtRest
PROPERTIES
    BootEnds
    Rejoins
    ImplementsClusterNode
\* A node that is up and not rebooted is a legitimate end.
CHECK_DEADLOCK FALSE
