--------------------------- MODULE MCL4Lifecycle ---------------------------
(* Model-checking instance of L4Lifecycle: five capability slots, enough  *)
(* for a task, two threads or two tasks and a thread, so that slot          *)
(* reuse after create and delete failures happens.                         *)
EXTENDS L4Lifecycle, TLC

CONSTANTS c1, c2, c3, c4, c5

MCCaps == {c1, c2, c3, c4, c5}

(* The priority main gives its own thread; one value distinguishes a set *)
(* priority from the default.                                            *)
MCPriorities == {10}

CapSymmetry == Permutations(MCCaps)
=============================================================================
