------------------------- MODULE MCMemoryBootstrap -------------------------
(* MemoryBootstrap for TLC.  Sizes in KiB.  Attachments are placed at     *)
(* multiples of 96 MiB (superpage aligned, as L4_SUPERPAGESHIFT asks), so  *)
(* the region manager has a few disjoint placements to choose from.       *)
EXTENDS MemoryBootstrap

MCAttachAddrs == {k * 96 * 1024 : k \in 0 .. 4}

Msg(size, off, lsize) ==
  [ipc_buf_size |-> size, control_block_off |-> off, linux_size |-> lsize]

(* What the companion OS sends: the full 2 MiB buffer with the control    *)
(* block right after the sync-call buffer (EXPRESSOS_CONTROL_BLOCK_OFFSET) *)
(* and a main memory of 4 or 8 MiB.                                        *)
MCWellFormedMsgs == {Msg(2 * 1024, 68, ls) : ls \in {4 * 1024, 8 * 1024}}
=============================================================================
