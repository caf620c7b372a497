CONSTANTS
    ChunkSize <- MC_ChunkSize
    HeaderSize <- MC_HeaderSize
    Align <- MC_Align
    Requests <- MC_Requests
    MaxChunks <- MC_MaxChunks
SPECIFICATION Spec
INVARIANTS
    UsedWithinAllocated
