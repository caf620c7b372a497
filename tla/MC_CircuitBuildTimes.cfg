CONSTANTS
    N <- MC_N
    Int32Max <- MC_Int32Max
    BinWidth <- MC_BinWidth
    NumModes <- MC_NumModes
    MinCircs <- MC_MinCircs
    MaxTimeouts <- MC_MaxTimeouts
    MinTimeoutParam <- MC_MinTimeoutParam
    InitialTimeoutParam <- MC_InitialTimeoutParam
    CircuitBuildTimeout <- MC_CircuitBuildTimeout
    DefaultRecent <- MC_DefaultRecent
    RecentCounts <- MC_RecentCounts
    BuildTimes <- MC_BuildTimes
    JumpSlack <- MC_JumpSlack
    MaxNonlive <- MC_MaxNonlive
    Uint32Mod <- MC_Uint32Mod
    ForeignStates <- MC_ForeignStates

SPECIFICATION MCSpec

INVARIANTS
    TypeOK
    RingConsistent
    CloseCoversTimeout
    TimeoutBounded
    RecentTimeoutsBelowMax
    RestartRestoresHistory

PROPERTY
    WindowRefinement
