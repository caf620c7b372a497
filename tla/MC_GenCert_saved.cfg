CONSTANTS
    Paths <- MC_Paths
    DefaultId = "P1"
    DefaultSk = "P2"
    DefaultCert = "P3"
    Argvs <- MC_Argvs
    MaxKeys = 3
SPECIFICATION Spec
INVARIANT ExitZeroMeansSaved
