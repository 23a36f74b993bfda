---------------------------- MODULE MCSel4Alloc ----------------------------
(* Model-checking instance of Sel4Alloc.  CHUNK_SIZE is 4 units (a unit is *)
(* 1 KiB), the extent is 6 chunks starting at chunk 1, so it is not       *)
(* aligned to 2 or 4 chunks and alignment and contiguity both matter.     *)
EXTENDS Sel4Alloc

MCChunk == 4
MCBase == 4
MCNChunks == 6

(* Client sizes that are whole power-of-two numbers of chunks, plus one   *)
(* below CHUNK_SIZE that alloc rounds up.                                  *)
WellFormedSizes == {2, 4, 8, 16}
=============================================================================
