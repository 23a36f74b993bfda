------------------------------ MODULE BlockPool ------------------------------
(***************************************************************************)
(* What the block allocator of src/native/glue/sel4-pa.c promises its     *)
(* client (spec §4.1 and the alignment invariant of §8), with no free     *)
(* list: a pool of free chunks and the regions the client holds.  alloc   *)
(* takes a block of chunks aligned to its size out of the pool and hands  *)
(* it over zero-filled, or fails and changes nothing; free puts a held    *)
(* region's chunks back.  data is the first word of every held chunk: no  *)
(* step other than the alloc that hands a chunk out may write it.         *)
(***************************************************************************)
EXTENDS Integers

CONSTANTS
  Chunks,   \* addresses of the chunks of the extent
  CHUNK,    \* CHUNK_SIZE
  Sizes,    \* sizes the client asks for
  NULL      \* the zero word

VARIABLES pool, held, data

(* The chunks a region of size bytes at a spans: one for a sub-chunk size. *)
Block(a, size) ==
  {a + i * CHUNK : i \in 0 .. (IF size < CHUNK THEN 1 ELSE size \div CHUNK) - 1}

Init ==
  /\ pool = Chunks
  /\ held = {}
  /\ data = [c \in {} |-> NULL]

(* A successful alloc(size); a failed one is a stuttering step. *)
Alloc(size) ==
  \E a \in Chunks :
    LET b == Block(a, size) IN
    /\ a % size = 0
    /\ b \subseteq pool
    /\ pool' = pool \ b
    /\ held' = held \cup {[addr |-> a, size |-> size]}
    /\ data' = [c \in DOMAIN data \cup b |-> IF c \in b THEN NULL ELSE data[c]]

Free(r) ==
  LET b == Block(r.addr, r.size) IN
  /\ r \in held
  /\ pool' = pool \cup b
  /\ held' = held \ {r}
  /\ data' = [c \in DOMAIN data \ b |-> data[c]]

Next ==
  \/ \E size \in Sizes : Alloc(size)
  \/ \E r \in held : Free(r)

Spec == Init /\ [][Next]_<<pool, held, data>>
=============================================================================
