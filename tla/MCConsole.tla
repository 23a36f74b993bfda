------------------------------ MODULE MCConsole ------------------------------
(* A 4-byte console buffer, two characters (NUL is 0), and enough writes  *)
(* to fill the buffer twice, so that both the flush-when-full path and    *)
(* explicit flushes at every fill level happen.                           *)
EXTENDS Console

MCBufSize == 4
MCChars == {1, 2}
MCMaxPut == 7
=============================================================================
