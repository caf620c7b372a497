CONSTANTS
    AF_UNSPEC <- MC_AF_UNSPEC
    AF_UNIX <- MC_AF_UNIX
    AF_INET <- MC_AF_INET
    AF_INET6 <- MC_AF_INET6
    CMP_EXACT = CMP_EXACT
    CMP_SEMANTIC = CMP_SEMANTIC
    Addrs <- MC_Addrs
    MaskBits <- MC_MaskBits
    Calls <- MC_Calls
    Texts <- MC_Texts
    Defaults <- MC_Defaults
SPECIFICATION Spec
CHECK_DEADLOCK FALSE
INVARIANT
    SemanticTotalOrder
