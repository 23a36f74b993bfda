------------------------------ MODULE FlushSplit ------------------------------
(***************************************************************************)
(* The page decomposition of l4api_flush_regions (src/native/glue/task.c): *)
(* fls, split_region and the batching loop, as pure operators.             *)
(*                                                                         *)
(* Addresses are page numbers: after vaddr &= PAGE_MASK a byte address is  *)
(* a page number shifted left by PAGE_SHIFT, so ffs and fls of the byte    *)
(* value are PAGE_SHIFT plus ffs and fls of the page number (and 0 for 0). *)
(* The address space has W page bits; the machine word the code shifts   *)
(* in has AddrBits = W + PAGE_SHIFT bits, which is 32 on the real target. *)
(* An fpage is the record [addr, order] of l4_fpage(addr, order, rights), *)
(* order being log2 of its size in bytes.                                 *)
(***************************************************************************)
EXTENDS Integers, Sequences

CONSTANTS
  W,        \* bits of a page number
  Batch     \* L4_UTCB_GENERIC_DATA_SIZE - 2 fpages per unmap call

ASSUME W \in Nat \ {0} /\ Batch \in Nat \ {0}

PAGE_SHIFT == 12
AddrBits == W + PAGE_SHIFT
NPages == 2 ^ W
Pages == 0 .. NPages - 1

Min2(a, b) == IF a > b THEN b ELSE a

(* Index (from 1) of the lowest set bit of a positive page number. *)
LowBit(x) == CHOOSE k \in 1 .. W : x % 2 ^ k # 0 /\ x % 2 ^ (k - 1) = 0

(* Index (from 1) of the highest set bit of a positive page number. *)
HighBit(x) == CHOOSE k \in 1 .. W + 1 : 2 ^ (k - 1) <= x /\ x < 2 ^ k

(* __builtin_ffs of the byte address of page x. *)
ffs(x) == IF x = 0 THEN 0 ELSE PAGE_SHIFT + LowBit(x)

(* Mutation: fls starts from r = 33, one bit too many. *)
FlsOffByOne(x) == IF x = 0 THEN 0 ELSE PAGE_SHIFT + HighBit(x) + 1

(* fls of the byte length of x pages: the binary search of fls() ends on *)
(* the position of the highest set bit, and 0 for 0.                      *)
fls(x) == IF x = 0 THEN 0 ELSE PAGE_SHIFT + HighBit(x)

(* Mutation: the larger of the two exponents is taken. *)
MaxExponent(p, q) == IF p > q THEN p ELSE q

(* int r = p > q ? q : p *)
Exponent(p, q) == Min2(p, q)

(***************************************************************************)
(* start += 1 << (r - 1), in pages.   For r = 0 (start = 0, ffs(0) = 0)   *)
(* the shift count is -1, which C leaves undefined; the x86 shl the build *)
(* emits masks the count to the low bits of the word width, giving         *)
(* 1 << (AddrBits - 1): half of the address space.                        *)
(***************************************************************************)
Step(r) ==
  LET count == (r - 1) % AddrBits
  IN  IF count >= PAGE_SHIFT THEN 2 ^ (count - PAGE_SHIFT) ELSE 0

(* l4_fpage at the current start with order r - 1 *)
Fpage(start, r) == [addr |-> start, order |-> r - 1]

(* while (ret < len && ...) *)
BatchRoom(n, len) == n < len

(***************************************************************************)
(* split_region(&start, end, rights, fpages, len): the fpages of one      *)
(* batch and the start it leaves behind.  The sum start + size is taken   *)
(* modulo the address space (unsigned long arithmetic).                   *)
(***************************************************************************)
RECURSIVE SplitLoop(_, _, _, _)
SplitLoop(start, end, len, acc) ==
  IF BatchRoom(Len(acc), len) /\ start < end
  THEN LET r == Exponent(ffs(start), fls(end - start))
       IN  SplitLoop((start + Step(r)) % NPages, end, len,
                     Append(acc, Fpage(start, r)))
  ELSE <<acc, start>>

split_region(start, end, len) == SplitLoop(start, end, len, <<>>)

(***************************************************************************)
(* The while loop of l4api_flush_regions: one split_region per batch,     *)
(* each batch passed to one l4_task_unmap_batch.  The result is the        *)
(* sequence of batches.                                                    *)
(***************************************************************************)
RECURSIVE FlushLoop(_, _, _)
FlushLoop(start, end, acc) ==
  IF start < end
  THEN LET b == split_region(start, end, Batch)
       IN  FlushLoop(b[2], end, Append(acc, b[1]))
  ELSE acc

(* Pages of an fpage of byte order k >= PAGE_SHIFT based at page a. *)
FpagePages(fp) ==
  LET size == 2 ^ (fp.order - PAGE_SHIFT)
      base == fp.addr - (fp.addr % size)
  IN  {p \in Pages : base <= p /\ p < base + size}

=============================================================================
