CONSTANTS
    Value = {v}
    services = services
    joined = joined
    WithServices <- MCWithServices
SPECIFICATION Spec
INVARIANT AnyProxyReachesScripts
