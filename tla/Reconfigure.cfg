CONSTANTS
    Sans = {a, b, c}
    FirstSans = a
    Flags = {f, g}
    None = none
    MaxReboots = 4
    MaxChanges = 4
    MaxCrashes = 2
    MaxFailures = 1
SPECIFICATION FairSpec
INVARIANTS
    RInv
    FirstChangeCarriedOut
    CertFollowsConfig
    ApiServesDisk
    KubeletRunsFlags
PROPERTY EndsOrWedged
\* A node that is up and not rebooted is a legitimate end.
CHECK_DEADLOCK FALSE
