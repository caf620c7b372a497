------------------------------ MODULE Memarea ------------------------------
(***************************************************************************)
(* The chunked region allocator of memarea.c (the build with memory        *)
(* sentinels).  An area is a stack of chunks; small requests are carved    *)
(* from the first chunk in increasing order, a request that does not fit   *)
(* opens a new first chunk, and a request too big for a standard chunk     *)
(* gets a dedicated chunk placed second.  memarea_clear keeps only the     *)
(* first chunk and rewinds it.                                             *)
(*                                                                         *)
(* A chunk is a record: an identity, mem_size, and next_mem as an offset   *)
(* from its mem array (mem itself is MEMAREA_ALIGN-aligned, as alloc_chunk *)
(* asserts, so the offset stands for the pointer in realign_pointer).  A   *)
(* pointer returned to a caller is a chunk identity and an offset.  The    *)
(* sentinel is SENTINEL_LEN bytes after mem_size; its bytes are added to   *)
(* and taken off the malloc size, so it does not change mem_size.          *)
(***************************************************************************)
EXTENDS Integers, Sequences, FiniteSets

CONSTANTS
    ChunkSize,    \* CHUNK_SIZE
    HeaderSize,   \* CHUNK_HEADER_SIZE, offsetof(memarea_chunk_t, mem)
    Align,        \* MEMAREA_ALIGN
    Requests,     \* the request sizes tried
    MaxChunks     \* bound on the chunks an area holds at once

ASSUME /\ Align \in {2, 4, 8}
       /\ HeaderSize > 0 /\ HeaderSize % Align = 0
       /\ ChunkSize > HeaderSize /\ ChunkSize % Align = 0
       /\ Requests \subseteq Nat
       /\ MaxChunks >= 2

VARIABLES
    chunks,   \* area->first, area->first->next_chunk, ...; <<>> when no area
    allocs    \* the pointers returned since the last clear: [chunk, off, sz]

vars == <<chunks, allocs>>

MaxSize == CHOOSE m \in Requests : \A r \in Requests : r <= m
Lengths == {r - 1 : r \in Requests \ {0}}   \* strlen of a string the wrappers copy
ChunkIds == 1..(MaxChunks + 1)  \* one more, for the request the bound refuses

(* realign_pointer: round up to a multiple of MEMAREA_ALIGN. *)
RealignPointerDown(x) == (x \div Align) * Align
RealignPointer(x) == ((x + Align - 1) \div Align) * Align

(* alloc_chunk: at least CHUNK_SIZE bytes; the header comes off the size. *)
AllocChunk(sz, id) ==
    [id |-> id,
     mem_size |-> (IF sz < ChunkSize THEN ChunkSize ELSE sz) - HeaderSize,
     next_mem |-> 0]

(* An identity no chunk of the area holds: a fresh malloc. *)
FreshId(ch) == CHOOSE i \in ChunkIds : \A k \in 1..Len(ch) : ch[k].id # i

SpaceRemaining(c) == c.mem_size - c.next_mem

(* The test of memarea_alloc for a dedicated chunk. *)
TooBigSloppy(sz) == sz >= ChunkSize
TooBig(sz) == sz + HeaderSize >= ChunkSize

(* memarea_alloc: the chunk list after the request of sz bytes (sz > 0)   *)
(* has found room, and the index of the chunk the request is carved from. *)
GrowFirst(ch, sz) == <<AllocChunk(ChunkSize, FreshId(ch))>> \o ch
GrowSecondLeak(ch, sz) == <<ch[1], AllocChunk(sz + HeaderSize, FreshId(ch))>>
GrowSecond(ch, sz) ==
    <<ch[1], AllocChunk(sz + HeaderSize, FreshId(ch))>> \o Tail(ch)
GrownDedicatedFirst(ch, sz) ==
    IF sz <= SpaceRemaining(ch[1]) THEN ch
    ELSE IF TooBig(sz) THEN <<AllocChunk(sz + HeaderSize, FreshId(ch))>> \o ch
    ELSE GrowFirst(ch, sz)

Grown(ch, sz) ==
    IF sz <= SpaceRemaining(ch[1]) THEN ch
    ELSE IF TooBig(sz) THEN GrowSecond(ch, sz)
    ELSE GrowFirst(ch, sz)

TargetIndex(ch, sz) ==
    IF sz > SpaceRemaining(ch[1]) /\ TooBig(sz) THEN 2 ELSE 1

(* Carve sz bytes at next_mem of chunk i and realign next_mem. *)
Carve(ch, i, sz) == [ch EXCEPT ![i].next_mem = RealignPointer(@ + sz)]

ZeroIsOne(sz) == IF sz = 0 THEN 1 ELSE sz
ZeroAsIs(sz) == sz
RequestSize(sz) == ZeroIsOne(sz)

(* memarea_new *)
MemareaNew ==
    /\ chunks = <<>>
    /\ chunks' = <<AllocChunk(ChunkSize, 1)>>
    /\ UNCHANGED allocs

(* memarea_alloc(area, sz): returns mem + next_mem of the target chunk.   *)
(* The guard bounds the area at MaxChunks chunks.                          *)
MemareaAlloc(sz) ==
    LET n == RequestSize(sz)
        g == Grown(chunks, n)
        i == TargetIndex(chunks, n)
    IN /\ chunks # <<>>
       /\ Len(g) <= MaxChunks
       /\ chunks' = Carve(g, i, n)
       /\ allocs' = allocs \cup {[chunk |-> g[i].id, off |-> g[i].next_mem,
                                  sz |-> sz]}

(* The wrappers: each is one memarea_alloc of the size it computes. *)
MemareaAllocZero(sz) == MemareaAlloc(sz)
MemareaMemdup(n) == MemareaAlloc(n)
MemareaStrdup(len) == MemareaAlloc(len + 1)
MemareaStrndup(len, n) == MemareaAlloc((IF len < n THEN len ELSE n) + 1)

(* memarea_clear: free every chunk but the first, and rewind the first. *)
MemareaClear ==
    /\ chunks # <<>>
    /\ chunks' = <<[chunks[1] EXCEPT !.next_mem = 0]>>
    /\ allocs' = {}

(* memarea_drop_all_ *)
MemareaDropAll ==
    /\ chunks # <<>>
    /\ chunks' = <<>>
    /\ allocs' = {}

Init ==
    /\ chunks = <<AllocChunk(ChunkSize, 1)>>
    /\ allocs = {}

Next ==
    \/ MemareaNew
    \/ \E sz \in Requests : MemareaAlloc(sz) \/ MemareaAllocZero(sz)
                            \/ MemareaMemdup(sz)
    \/ \E len \in Lengths : MemareaStrdup(len)
    \/ \E len, n \in Lengths : MemareaStrndup(len, n)
    \/ MemareaClear
    \/ MemareaDropAll

Spec == Init /\ [][Next]_vars

-----------------------------------------------------------------------------
(* memarea_owns_ptr: p lies between mem and next_mem of some chunk. *)
MemareaOwnsPtr(ch, id, off) ==
    \E k \in 1..Len(ch) : ch[k].id = id /\ 0 <= off /\ off < ch[k].next_mem

(* memarea_get_stats *)
StatsAllocated(ch) ==
    LET f[k \in 0..Len(ch)] ==
            IF k = 0 THEN 0 ELSE f[k-1] + HeaderSize + ch[k].mem_size
    IN f[Len(ch)]
StatsUsed(ch) ==
    LET f[k \in 0..Len(ch)] ==
            IF k = 0 THEN 0 ELSE f[k-1] + HeaderSize + ch[k].next_mem
    IN f[Len(ch)]

ChunkOf(id) == CHOOSE k \in 1..Len(chunks) : chunks[k].id = id

-----------------------------------------------------------------------------
(* Every chunk is a record of the kind alloc_chunk makes, with distinct     *)
(* identities, and every returned pointer names a chunk of the area.        *)
TypeOK ==
    /\ chunks \in Seq([id : ChunkIds, mem_size : 0..(MaxSize + ChunkSize),
                       next_mem : 0..(MaxSize + ChunkSize + Align)])
    /\ Len(chunks) <= MaxChunks
    /\ \A j, k \in 1..Len(chunks) : j # k => chunks[j].id # chunks[k].id
    /\ allocs \subseteq [chunk : ChunkIds, off : Nat, sz : Requests]
    /\ \A a \in allocs : \E k \in 1..Len(chunks) : chunks[k].id = a.chunk

(* No allocation runs into the sentinel: every pointer memarea_alloc has    *)
(* returned since the last clear has its sz bytes inside the mem_size of   *)
(* its chunk, whichever of the three branches placed it.                    *)
AllocsInsideChunk ==
    \A a \in allocs : a.off + a.sz <= chunks[ChunkOf(a.chunk)].mem_size

(* Two live allocations never share a byte: the carving of next_mem, the   *)
(* realignment and the insertion of new chunks never hand out memory twice. *)
AllocsDisjoint ==
    \A a, b \in allocs :
        (a # b /\ a.chunk = b.chunk) =>
            (a.off + a.sz <= b.off \/ b.off + b.sz <= a.off) /\ a.off # b.off

(* memarea_owns_ptr recognises every pointer returned since the last clear, *)
(* including those of zero-byte requests.                                    *)
OwnsLivePointers ==
    \A a \in allocs : MemareaOwnsPtr(chunks, a.chunk, a.off)

(* The assertions of memarea_alloc and memarea_assert_ok hold in every      *)
(* reachable area: the first chunk, the one memarea_alloc carves from, has  *)
(* next_mem within mem_size, and no chunk's next_mem passes the realigned   *)
(* end of its memory.                                                       *)
AssertionsHold ==
    chunks # <<>> =>
        /\ chunks[1].next_mem <= chunks[1].mem_size
        /\ \A k \in 1..Len(chunks) :
              chunks[k].next_mem <= RealignPointer(chunks[k].mem_size)

(* memarea_get_stats never reports more bytes used than allocated. *)
UsedWithinAllocated ==
    StatsUsed(chunks) <= StatsAllocated(chunks)
=============================================================================
