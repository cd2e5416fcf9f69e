CONSTANTS
    Sans = {a, b}
    FirstSans = a
    Flags = {f, g}
    None = none
    MaxReboots = 2
    MaxChanges = 2
    MaxCrashes = 0
    MaxFailures = 0
SPECIFICATION Spec
INVARIANT CertMatchesConfig
\* A node that is up and not rebooted is a legitimate end.
CHECK_DEADLOCK FALSE
