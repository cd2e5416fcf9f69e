CONSTANTS
    a = a
    b = b
    h = h
    Hostname = hostname
    DefaultAPIAdvertiseAddress = any
    Bare = bare
    Empty = empty
    None = none
    Value = {a, b, h, any, hostname}
    Options <- MCOptions
SPECIFICATION Spec
INVARIANTS
    DInv
    RegeneratesAsJoined
    UploadsAgree
    HostIsCertified
    ArgumentsReachKubelet
    NodeIpsAgree
    SubnetsAreKnown
\* The provider returns.
CHECK_DEADLOCK FALSE
