-------------------------- MODULE TlsDescriptorCheck --------------------------
(***************************************************************************)
(* Checks the descriptor encoding of TlsDescriptor against an independent *)
(* decoder over a bounded set of user_desc requests: the request is the   *)
(* only variable, and every step picks another one.                       *)
(***************************************************************************)
EXTENDS TlsDescriptor

CONSTANTS Bases, Limits

UserDescs ==
  [entry_number : {-1}, base_addr : Bases, limit : Limits,
   seg_32bit : {0, 1}, contents : 0 .. 3, read_exec_only : {0, 1},
   limit_in_pages : {0, 1}, seg_not_present : {0, 1}, useable : {0, 1}]

VARIABLE info

Init == info \in UserDescs
Next == \E i \in UserDescs : info' = i
Spec == Init /\ [][Next]_info

(* Bit k of word w. *)
Bit(w, k) == (w \div 2 ^ k) % 2

(* Reference decoder: the fields as the hardware reads a descriptor back. *)
Decode(d) ==
  [base_addr       |-> Word((d.b.hi \div 2 ^ 8) * 2 ^ 8 + (d.b.lo % 2 ^ 8), d.a.hi),
   limit           |-> d.a.lo + ((d.b.hi % 16) * 2 ^ 16),
   read_exec_only  |-> 1 - Bit(d.b.lo, 9),
   contents        |-> (d.b.lo \div 2 ^ 10) % 4,
   seg_not_present |-> 1 - Bit(d.b.lo, 15),
   useable         |-> Bit(d.b.hi, 4),
   long_mode       |-> Bit(d.b.hi, 5),
   seg_32bit       |-> Bit(d.b.hi, 6),
   limit_in_pages  |-> Bit(d.b.hi, 7),
   user_segment    |-> Bit(d.b.lo, 12),
   dpl             |-> (d.b.lo \div 2 ^ 13) % 4]

(* The clear pattern of spec §4.2: base 0, limit 0, contents 0,          *)
(* read-exec-only, 16-bit, byte granular, not present, not usable.        *)
ClearPattern(i) ==
  <<i.base_addr, i.limit, i.contents, i.read_exec_only, i.seg_32bit,
    i.limit_in_pages, i.seg_not_present, i.useable>> = <<Zero32, 0, 0, 1, 0, 0, 1, 0>>

(* What a request asks for: a 32-bit base, a 20-bit limit, a 32-bit      *)
(* ring-3 user segment, never a 64-bit one.                               *)
Expected(i) ==
  [base_addr |-> i.base_addr, limit |-> i.limit % 2 ^ 20,
   read_exec_only |-> i.read_exec_only, contents |-> i.contents,
   seg_not_present |-> i.seg_not_present, useable |-> i.useable,
   long_mode |-> 0, seg_32bit |-> i.seg_32bit,
   limit_in_pages |-> i.limit_in_pages, user_segment |-> 1, dpl |-> 3]

(***************************************************************************)
(* EncodeDecodeRoundTrip: for every request that is not the clear pattern, *)
(* the descriptor set_tls_desc writes decodes to the requested base,      *)
(* limit and flags, with the long-mode bit forced to 0 (fill_ldt).        *)
(***************************************************************************)
EncodeDecodeRoundTrip ==
  ~ClearPattern(info) => Decode(TlsDescFor(info)) = Expected(info)
=============================================================================
