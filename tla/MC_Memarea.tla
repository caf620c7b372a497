----------------------------- MODULE MC_Memarea -----------------------------
(***************************************************************************)
(* A small memarea: 16-byte chunks with a 4-byte header and 4-byte         *)
(* alignment, so a standard chunk holds 12 bytes.  The requests reach      *)
(* every branch of memarea_alloc: 0 (taken as 1), 3 and 5 (not multiples   *)
(* of the alignment; they fit or open a new first chunk), 12 (the smallest *)
(* size with sz + header >= CHUNK_SIZE, a dedicated chunk), and 13 (a      *)
(* dedicated chunk whose mem_size is not a multiple of the alignment).     *)
(* Three chunks let a dedicated chunk sit between two standard ones.       *)
(***************************************************************************)
EXTENDS Memarea

MC_ChunkSize == 16
MC_HeaderSize == 4
MC_Align == 4
MC_Requests == {0, 3, 5, 12, 13}
MC_MaxChunks == 3
=============================================================================
