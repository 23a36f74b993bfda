------------------------------ MODULE MCTlsSlab ------------------------------
(* Model-checking instance of TlsSlab: a slab of three slots, threads that *)
(* allocate, set and free tables, and three requests: the clear pattern,  *)
(* an allocating segment request (entry_number -1) and one for a fixed    *)
(* entry.  With as many threads as slots every slot is reused; with one   *)
(* more thread than slots the slab runs out.                              *)
EXTENDS TlsSlab, TLC

CONSTANTS t1, t2, t3, t4

MCNSlots == 2
MCSlabBase == 4096
MCTlsMin == 6

Req(entry, base, limit, sp) ==
  [entry_number |-> entry, base_addr |-> base, limit |-> limit,
   seg_32bit |-> 1 - sp, contents |-> 0, read_exec_only |-> sp,
   limit_in_pages |-> 1 - sp, seg_not_present |-> sp, useable |-> 0]

(* The clear pattern, a flat 4 GiB segment at 0x12345678 for the first    *)
(* free entry, and a segment based at 0x00010000 for entry TLS_MIN + 1.   *)
MCReqs ==
  {Req(-1, Zero32, 0, 1),
   Req(-1, Word(4660, 22136), 1048575, 0),
   Req(MCTlsMin + 1, Word(1, 0), 4095, 0)}

(* idx -1 (take entry_number), the first TLS entry, one past the last.   *)
MCIdxs == {-1, MCTlsMin, MCTlsMin + 3}

MCThreads == {t1, t2}
MCThreadsOver == {t1, t2, t3}

ThreadSymmetry == Permutations(MCThreads)
ThreadSymmetryOver == Permutations(MCThreadsOver)
=============================================================================
