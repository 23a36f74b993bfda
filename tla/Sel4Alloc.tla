------------------------------ MODULE Sel4Alloc ------------------------------
(***************************************************************************)
(* Physical block allocator of src/native/glue/sel4-pa.c.                  *)
(*                                                                         *)
(* Memory is modelled at the granularity of the first word of each chunk:  *)
(* mem[c] is the word at address c, which is where the free list keeps its *)
(* link.  head is this_->kmem_free_list.  Addresses are scaled so that     *)
(* CHUNK_SIZE is CHUNK units; the scaling keeps the bitwise alignment test *)
(* exact for sizes that are a whole number of units.  NULL is 0, which is  *)
(* not a chunk (Base > 0).  The client owns the regions alloc returned and *)
(* frees each with the size it asked for.                                  *)
(***************************************************************************)
EXTENDS Naturals, Sequences, SequencesExt, Bitwise

CONSTANTS
  CHUNK,      \* CHUNK_SIZE, in address units
  Base,       \* start of the extent given to sel4_alloc_new
  NChunks,    \* length of that extent in chunks
  Sizes       \* sizes the client passes to sel4_alloc_alloc

ASSUME /\ CHUNK \in Nat \ {0} /\ NChunks \in Nat \ {0}
       /\ Base \in Nat \ {0} /\ Base % CHUNK = 0
       /\ Sizes \subseteq Nat \ {0} /\ CHUNK > 1

NULL == 0
Chunks == {Base + i * CHUNK : i \in 0 .. NChunks - 1}
Addrs == 0 .. Base + (NChunks + 4) * CHUNK

VARIABLES
  head,     \* this_->kmem_free_list
  mem,      \* first word of every chunk
  owned,    \* regions returned by alloc and not yet freed
  lastOp    \* the last call and its result, for the action property

vars == <<head, mem, owned, lastOp>>

(* The word at address a; a read outside the extent yields NULL. *)
Load(m, a) == IF a \in Chunks THEN m[a] ELSE NULL
Store(m, a, v) == IF a \in Chunks THEN [m EXCEPT ![a] = v] ELSE m

(* size = size >= CHUNK_SIZE ? size : CHUNK_SIZE *)
RoundUp(size) == IF size >= CHUNK THEN size ELSE CHUNK

(***************************************************************************)
(* The chain from h through the links of m, stopped at NULL, at a pointer  *)
(* outside the extent or at a node seen before (a cycle).                  *)
(***************************************************************************)
RECURSIVE ChainFrom(_, _, _)
ChainFrom(m, p, acc) ==
  IF p = NULL \/ p \notin Chunks \/ Contains(acc, p) THEN acc
  ELSE ChainFrom(m, m[p], Append(acc, p))

FreeListIn(m, h) == ChainFrom(m, h, <<>>)
FreeList == FreeListIn(mem, head)

(* The cell "prev" points to: the head word, or the first word of a chunk. *)
(* HeadCell stands for &this_->kmem_free_list, which is not in the extent. *)
HeadCell == 1
StoreCell(m, h, cell, v) ==
  IF cell = HeadCell THEN <<m, v>> ELSE <<Store(m, cell, v), h>>

(***************************************************************************)
(* sel4_alloc_free(address, size).  The first loop links the pieces        *)
(* address, address+CHUNK, ... while p < address + size - CHUNK; the last  *)
(* p is the chunk the loop stops on.  The second loop walks the list to    *)
(* the first chunk curr with address <= curr, then *prev = address and     *)
(* *p = curr.                                                              *)
(***************************************************************************)
(* Iterations of the splitting loop: i with i*CHUNK < size - CHUNK. *)
SplitCount(size) == (RoundUp(size) - 1) \div CHUNK

(* Mutation: the new chain is always pushed at the head of the list. *)
InsertAtHeadAlways(L, address) == 1

(* Index in L of the first curr with ~(address > curr), or Len(L)+1. *)
InsertPos(L, address) ==
  LET js == {j \in 1 .. Len(L) : ~(address > L[j])}
  IN  IF js = {} THEN Len(L) + 1
      ELSE CHOOSE j \in js : \A k \in js : j <= k

(* Mutation: the new chain is never linked in: no store to prev.  *)
LinkInForgotten(m, h, prev, address) == <<m, h>>

(* *prev = (word_t) address *)
LinkIn(m, h, prev, address) == StoreCell(m, h, prev, address)

FreeResult(m, h, address, size) ==
  LET n    == SplitCount(size)
      last == address + n * CHUNK
      m1   == [c \in Chunks |->
                IF \E i \in 0 .. n - 1 : c = address + i * CHUNK
                THEN c + CHUNK ELSE m[c]]
      L    == FreeListIn(m1, h)
      j    == InsertPos(L, address)
      prev == IF j = 1 THEN HeadCell ELSE L[j - 1]
      curr == IF j <= Len(L) THEN L[j] ELSE NULL
      s2   == LinkIn(m1, h, prev, address)
  IN  <<Store(s2[1], last, curr), s2[2]>>

(***************************************************************************)
(* sel4_alloc_alloc(size).  For each chunk curr of the list whose address  *)
(* passes !(curr & (size - 1)), tmp follows the next size/CHUNK_SIZE - 1   *)
(* links, each of which must be curr + CHUNK_SIZE*i; the loop ends with    *)
(* tmp = 0 when a link is NULL or not contiguous.  Only if (tmp) is the    *)
(* block taken: *prev = tmp, size/sizeof(word_t) words from curr are       *)
(* zeroed, and curr is returned.                                           *)
(***************************************************************************)
RECURSIVE Contig(_, _, _, _, _)
Contig(m, curr, tmp, i, k) ==
  IF tmp = NULL \/ i >= k THEN tmp
  ELSE IF tmp # curr + CHUNK * i THEN NULL
  ELSE Contig(m, curr, Load(m, tmp), i + 1, k)

AfterBlock(m, curr, size) == Contig(m, curr, Load(m, curr), 1, size \div CHUNK)

(* Mutation: the candidate's alignment test is dropped. *)
QualifiesUnaligned(m, curr, size) == AfterBlock(m, curr, size) # NULL

Qualifies(m, curr, size) ==
  /\ (curr & (size - 1)) = 0
  /\ AfterBlock(m, curr, size) # NULL

(* Mutation: the chunk after the first one is unlinked, not the block. *)
UnlinkOneChunk(m, curr, size) == Load(m, curr)

(* The value written to *prev: the link that followed the whole block. *)
Unlinked(m, curr, size) == AfterBlock(m, curr, size)

(* The words zeroed by the memset loop: first words in [curr, curr+size). *)
Zeroed(m, curr, size) ==
  [c \in Chunks |-> IF curr <= c /\ c < curr + size THEN NULL ELSE m[c]]

(* Mutation: the pointer to the previous link is returned. *)
AllocRetPrev(prev, curr) == prev

(* return curr *)
AllocRet(prev, curr) == curr

Init ==
  LET r == FreeResult([c \in Chunks |-> NULL], NULL, Base, NChunks * CHUNK)
  IN  /\ mem = r[1]
      /\ head = r[2]
      /\ owned = {}
      /\ lastOp = [op |-> "new", size |-> NChunks * CHUNK, ret |-> Base]

sel4_alloc_alloc(size) ==
  LET sz == RoundUp(size)
      L  == FreeList
      js == {j \in 1 .. Len(L) : Qualifies(mem, L[j], sz)}
  IN  IF js = {}
      THEN /\ lastOp' = [op |-> "alloc", size |-> size, ret |-> NULL]
           /\ UNCHANGED <<head, mem, owned>>
      ELSE LET j    == CHOOSE x \in js : \A y \in js : x <= y
               curr == L[j]
               prev == IF j = 1 THEN HeadCell ELSE L[j - 1]
               s    == StoreCell(mem, head, prev, Unlinked(mem, curr, sz))
           IN  /\ mem' = Zeroed(s[1], curr, sz)
               /\ head' = s[2]
               /\ owned' = owned \cup {[addr |-> AllocRet(prev, curr), size |-> size]}
               /\ lastOp' = [op |-> "alloc", size |-> size,
                             ret |-> AllocRet(prev, curr)]

sel4_alloc_free(r) ==
  LET res == FreeResult(mem, head, r.addr, r.size)
  IN  /\ mem' = res[1]
      /\ head' = res[2]
      /\ owned' = owned \ {r}
      /\ lastOp' = [op |-> "free", size |-> r.size, ret |-> r.addr]

Next ==
  \/ \E size \in Sizes : sel4_alloc_alloc(size)
  \/ \E r \in owned : sel4_alloc_free(r)

Spec == Init /\ [][Next]_vars

-----------------------------------------------------------------------------
TypeOK ==
  /\ head \in Addrs
  /\ mem \in [Chunks -> Addrs]
  /\ owned \subseteq [addr : Chunks, size : Sizes]
  /\ lastOp.ret \in Addrs

(* Chunks a region returned for size covers: size/CHUNK_SIZE of them, as  *)
(* unlinked by alloc, or one for a size below CHUNK_SIZE.                  *)
Covered(r) ==
  {c \in Chunks : r.addr <= c /\ c < r.addr + (RoundUp(r.size) \div CHUNK) * CHUNK}

(***************************************************************************)
(* FreeListWellFormed: the list from kmem_free_list ends in NULL, stays    *)
(* inside the extent and is strictly ascending (hence acyclic), the        *)
(* invariant sel4_alloc_free's ordered insertion and sel4_alloc_alloc's    *)
(* unlinking must both keep.                                               *)
(***************************************************************************)
FreeListWellFormed ==
  LET L == FreeList
  IN  /\ (IF L = <<>> THEN head ELSE mem[L[Len(L)]]) = NULL
      /\ \A i \in 1 .. Len(L) - 1 : L[i] < L[i + 1]

(***************************************************************************)
(* NoDoubleAllocation: a chunk is never both on the free list and inside a *)
(* region the client owns, and two owned regions never overlap: alloc      *)
(* unlinks exactly the chunks it hands out, free links back exactly those. *)
(***************************************************************************)
NoDoubleAllocation ==
  /\ \A r \in owned : Covered(r) \cap ToSet(FreeList) = {}
  /\ \A r1, r2 \in owned : r1 # r2 => Covered(r1) \cap Covered(r2) = {}

(***************************************************************************)
(* NoChunkLost: every chunk of the extent is on the free list or owned,    *)
(* so no sequence of alloc and free leaks memory from the pool.           *)
(***************************************************************************)
NoChunkLost == Chunks = ToSet(FreeList) \cup UNION {Covered(r) : r \in owned}

-----------------------------------------------------------------------------
(***************************************************************************)
(* The allocator seen as the pool it promises (BlockPool): the free chunks *)
(* are those on the list, the held regions are the client's, and the     *)
(* client's data is the first word of every chunk it holds.               *)
(***************************************************************************)
Pool == INSTANCE BlockPool WITH
          pool <- ToSet(FreeList),
          held <- owned,
          data <- [c \in UNION {Covered(r) : r \in owned} |-> mem[c]]

(***************************************************************************)
(* Sel4ImplementsPool: every sequence of sel4_alloc_alloc and             *)
(* sel4_alloc_free calls is one the pool contract allows.  Each           *)
(* successful alloc unlinks exactly a size-aligned block of free chunks,  *)
(* and the client gets it zero-filled.  A failed alloc changes neither    *)
(* the list nor the client's memory.  Each free links back exactly the    *)
(* region's chunks.  No call writes a word of a chunk the client still    *)
(* holds.                                                                 *)
(***************************************************************************)
Sel4ImplementsPool == Pool!Spec

(***************************************************************************)
(* AllocFailsOnlyWhenExhausted: sel4_alloc_alloc(size) returns NULL only   *)
(* if the free list holds no size-aligned run of size/CHUNK_SIZE           *)
(* contiguous chunks (spec §8, block allocator round trip).                *)
(***************************************************************************)
RunAvailable(size) ==
  \E a \in ToSet(FreeList) :
    /\ a % size = 0
    /\ \A i \in 0 .. size \div CHUNK - 1 : a + i * CHUNK \in ToSet(FreeList)

AllocFailsOnlyWhenExhausted ==
  [][lastOp'.op = "alloc" /\ lastOp'.ret = NULL
       => ~RunAvailable(RoundUp(lastOp'.size))]_vars
=============================================================================
