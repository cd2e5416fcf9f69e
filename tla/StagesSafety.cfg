CONSTANTS
    Value = {v, w}
    services = services
    joined = joined
    WithServices <- MCWithServices
SPECIFICATION Spec
INVARIANTS
    SInv
    ScriptsFindTheirFiles
    ParametersReachScripts
