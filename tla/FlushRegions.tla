----------------------------- MODULE FlushRegions -----------------------------
(***************************************************************************)
(* l4api_flush_regions (src/native/glue/task.c) acting on the pages mapped *)
(* into a child task.  The managed pager maps pages into the task as it    *)
(* resolves faults; flush_regions unmaps a range in batches.  Both run on  *)
(* the single management thread, so a flush is one atomic step.           *)
(***************************************************************************)
EXTENDS FlushSplit, SequencesExt

CONSTANTS
  Starts,   \* vaddr_start values, as page numbers after & PAGE_MASK
  Ends      \* vaddr_end values, likewise

VARIABLES
  mapped,   \* pages mapped in the child task
  flushed   \* the last flush: its range, the batches of fpages passed to
            \* the kernel and the indices of the batches the kernel refused

vars == <<mapped, flushed>>

Init ==
  /\ mapped = {}
  /\ flushed = [range |-> <<0, 0>>, batches |-> <<>>, refused |-> {}]

(***************************************************************************)
(* The pager maps page p into the task (the managed page-fault handler,   *)
(* which is not part of this source tree).                                 *)
(***************************************************************************)
PageMapped(p) ==
  /\ p \notin mapped
  /\ mapped' = mapped \cup {p}
  /\ UNCHANGED flushed

(***************************************************************************)
(* The pages one l4_task_unmap_batch removes.  A valid fpage removes the  *)
(* aligned block it names (the kernel ignores the low address bits).  The *)
(* fpage built for r = 0 has order -1, which l4_fpage packs into the      *)
(* address and type bits; what the kernel makes of it is not defined      *)
(* here, so it removes no page or every page.                             *)
(***************************************************************************)
BatchPages(batch, wild) ==
  UNION {IF fp.order >= PAGE_SHIFT THEN FpagePages(fp) ELSE wild :
           fp \in {batch[i] : i \in 1 .. Len(batch)}}

(***************************************************************************)
(* l4api_flush_regions(task, vaddr_start, vaddr_end, rights) on a valid   *)
(* task: every batch is passed to l4_task_unmap_batch.  The kernel may    *)
(* refuse any of them (refused); the result is not looked at and the loop *)
(* goes on with the next batch.  An invalid task returns at once and      *)
(* changes nothing.                                                       *)
(***************************************************************************)
l4api_flush_regions(start, end) ==
  LET batches == FlushLoop(start, end, <<>>)
  IN  \E wild \in {{}, Pages}, refused \in SUBSET (1 .. Len(batches)) :
        /\ mapped' = mapped \ UNION {BatchPages(batches[i], wild) :
                                       i \in (1 .. Len(batches)) \ refused}
        /\ flushed' = [range |-> <<start, end>>, batches |-> batches,
                       refused |-> refused]

Next ==
  \/ \E p \in Pages : PageMapped(p)
  \/ \E s \in Starts, e \in Ends : l4api_flush_regions(s, e)

Spec == Init /\ [][Next]_vars

-----------------------------------------------------------------------------
(* [start, end) as a set of pages. *)
PageRange(start, end) == {p \in Pages : start <= p /\ p < end}

(* The pages the valid fpages of the batches the kernel refused name. *)
RefusedPages(f) ==
  UNION {FpagePages(fp) : fp \in {fp \in UNION {ToSet(f.batches[i]) : i \in f.refused} :
                                  fp.order >= PAGE_SHIFT}}

(***************************************************************************)
(* FlushExact (action property): a flush of [start, end) unmaps exactly   *)
(* the pages of the range, no page outside it (spec §8, region flush      *)
(* coverage), except that a batch the kernel refused leaves its own pages *)
(* mapped and no others: the flush neither stops at a refused batch nor  *)
(* lets it shift the batches after it.  The steps that map no page are   *)
(* the flushes.                                                           *)
(***************************************************************************)
FlushExact ==
  [][mapped' \subseteq mapped =>
       mapped' = mapped \ (PageRange(flushed'.range[1], flushed'.range[2])
                              \ RefusedPages(flushed'))]_vars
(***************************************************************************)
(* The reference decomposition: the aligned blocks of 2^k pages inside    *)
(* [s, e) whose aligned parent block is not inside it, as fpages.  They   *)
(* are pairwise disjoint, cover the range, and are the fewest aligned     *)
(* power-of-two pages that do.                                            *)
(***************************************************************************)
BlockInside(a, k, s, e) == s <= a /\ a + 2 ^ k <= e
MaximalBlocks(s, e) ==
  {fp \in [addr : Pages, order : PAGE_SHIFT .. PAGE_SHIFT + W] :
     LET k == fp.order - PAGE_SHIFT
         parent == fp.addr - (fp.addr % 2 ^ (k + 1))
     IN  /\ fp.addr % 2 ^ k = 0
         /\ BlockInside(fp.addr, k, s, e)
         /\ (k = W \/ ~BlockInside(parent, k + 1, s, e))}

(***************************************************************************)
(* FewestPages: the fpages the last l4api_flush_regions passed to the     *)
(* kernel, over all its batches, are exactly the maximal aligned blocks   *)
(* of its range, each once: no gap, no overlap, no fpage outside the      *)
(* range and no decomposition with fewer fpages (spec §4.3 and §8, region *)
(* flush coverage).                                                       *)
(***************************************************************************)
FewestPages ==
  LET fps == FlattenSeq(flushed.batches)
  IN  /\ ToSet(fps) = MaximalBlocks(flushed.range[1], flushed.range[2])
      /\ Len(fps) = Cardinality(ToSet(fps))
=============================================================================
