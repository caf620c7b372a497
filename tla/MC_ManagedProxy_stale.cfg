CONSTANTS
    obfs4 = obfs4
    meek = meek
    U1 = U1
    None = None
    NArgv <- MC_NArgv
    Transports <- MC_Transports
    ProxyUris <- MC_ProxyUris
    NoProxy = None
    MaxMps <- MC_MaxMps
    MaxMethods <- MC_MaxMethods
SPECIFICATION Spec
INVARIANT RegisteredOwnerLive
