------------------------------- MODULE Console -------------------------------
(***************************************************************************)
(* The console buffer of src/native/glue/console.c.  console_putchar       *)
(* appends a character, flushing the buffer to the log first when it is    *)
(* full; console_flush writes the buffered characters to the log          *)
(* (l4re_log_printn), stores a terminating NUL at con_buf[con_cursor] and  *)
(* empties the buffer.  Characters are drawn from a small set; put is the *)
(* history of every character passed to console_putchar.                  *)
(***************************************************************************)
EXTENDS Naturals, Sequences

CONSTANTS
  CON_BUF_SIZE,   \* size of con_buf
  Chars,          \* characters written
  MaxPut          \* bound on the number of console_putchar calls

ASSUME CON_BUF_SIZE \in Nat \ {0, 1} /\ MaxPut \in Nat

VARIABLES
  con_buf,      \* con_buf, indexed from 0; 0 stands for a NUL byte
  con_cursor,   \* con_cursor
  log,          \* characters l4re_log_printn has written, in order
  put,          \* history: characters passed to console_putchar
  stores        \* history: every index console.c has stored to

vars == <<con_buf, con_cursor, log, put, stores>>

Init ==
  /\ con_buf = [i \in 0 .. CON_BUF_SIZE - 1 |-> 0]
  /\ con_cursor = 0
  /\ log = <<>>
  /\ put = <<>>
  /\ stores = {}

(* The first n bytes of the buffer, as l4re_log_printn(con_buf, n) reads  *)
(* them.                                                                  *)
Prefix(buf, n) == [i \in 1 .. n |-> buf[i - 1]]

(* A store to con_buf[i]: bytes past the array are not modelled, only    *)
(* recorded.                                                              *)
Store(buf, i, v) == IF i \in DOMAIN buf THEN [buf EXCEPT ![i] = v] ELSE buf

(* Mutation: the cursor is not reset after a flush. *)
FlushKeepsCursor(cursor) == cursor

(* con_cursor = 0 *)
FlushedCursor(cursor) == 0

(* console_flush, as a transformation of <<buffer, cursor, log, stores>>. *)
Flush(buf, cursor, lg, st) ==
  <<Store(buf, cursor, 0), FlushedCursor(cursor),
    lg \o Prefix(buf, cursor), st \cup {cursor}>>

console_flush ==
  LET r == Flush(con_buf, con_cursor, log, stores)
  IN  /\ con_buf' = r[1]
      /\ con_cursor' = r[2]
      /\ log' = r[3]
      /\ stores' = r[4]
      /\ UNCHANGED put

(* Mutation: the buffer is flushed only once the cursor is past the end. *)
FullPastEnd(cursor) == cursor > CON_BUF_SIZE - 1

(* if (con_cursor >= CON_BUF_SIZE - 1) console_flush(); *)
Full(cursor) == cursor >= CON_BUF_SIZE - 1

(* console_putchar(c): con_buf[con_cursor++] = (char)c, after the flush. *)
console_putchar(c) ==
  /\ Len(put) < MaxPut
  /\ LET r == IF Full(con_cursor)
              THEN Flush(con_buf, con_cursor, log, stores)
              ELSE <<con_buf, con_cursor, log, stores>>
     IN  /\ con_buf' = Store(r[1], r[2], c)
         /\ con_cursor' = r[2] + 1
         /\ log' = r[3]
         /\ stores' = r[4] \cup {r[2]}
  /\ put' = Append(put, c)

Next ==
  \/ console_flush
  \/ \E c \in Chars : console_putchar(c)

Spec == Init /\ [][Next]_vars

-----------------------------------------------------------------------------
(***************************************************************************)
(* StoresInBounds: console_putchar and console_flush only ever store      *)
(* inside con_buf, including the terminating NUL console_flush writes at  *)
(* con_buf[con_cursor] when the buffer is full.                            *)
(***************************************************************************)
StoresInBounds == stores \subseteq 0 .. CON_BUF_SIZE - 1

(***************************************************************************)
(* NoCharLost: the log followed by the buffered characters is exactly the *)
(* sequence of characters written, in order: no character is dropped,     *)
(* duplicated or reordered by the flush-when-full path or an explicit     *)
(* flush.                                                                 *)
(***************************************************************************)
NoCharLost == log \o Prefix(con_buf, con_cursor) = put
=============================================================================
