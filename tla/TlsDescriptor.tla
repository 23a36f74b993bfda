---------------------------- MODULE TlsDescriptor ----------------------------
(***************************************************************************)
(* The segment-descriptor encoding of src/native/glue/tls.c and tls.h, as *)
(* pure operators.  A struct desc_struct is the record [a, b] of its two  *)
(* 32-bit words; a struct user_desc is a record of its fields.  Bit-field *)
(* stores are taken modulo the width of the field, as the compiler does.  *)
(* A 32-bit word is kept as its two 16-bit halves [hi, lo], because TLC's  *)
(* integers are signed 32-bit; base_addr is such a word.                  *)
(***************************************************************************)
EXTENDS Integers

(* Store v into an unsigned bit-field of w bits. *)
Field(v, w) == v % (2 ^ w)

Word(hi, lo) == [hi |-> hi, lo |-> lo]
Zero32 == Word(0, 0)

(* A zero-filled descriptor (memset(desc, 0, sizeof(struct desc_struct))). *)
ZeroDesc == [a |-> Zero32, b |-> Zero32]

(* desc_empty: both words zero. *)
desc_empty(d) == d.a = Zero32 /\ d.b = Zero32

(* LDT_empty: the canonical "clear this entry" request. *)
LDT_empty(info) ==
  /\ info.base_addr = Zero32 /\ info.limit = 0 /\ info.contents = 0
  /\ info.read_exec_only = 1 /\ info.seg_32bit = 0
  /\ info.limit_in_pages = 0 /\ info.seg_not_present = 1
  /\ info.useable = 0

(* type = (read_exec_only ^ 1) << 1; type |= contents << 2 *)
DescType(info) == Field((1 - info.read_exec_only) * 2 + info.contents * 4, 4)

(* Mutation: the present bit copies seg_not_present without the ^ 1. *)
PresentNotNegated(info) == Field(info.seg_not_present, 1)

(* p = seg_not_present ^ 1 *)
DescPresent(info) == Field(1 - info.seg_not_present, 1)

(***************************************************************************)
(* fill_ldt: word a holds limit0 (bits 0-15) and base0 (16-31); word b     *)
(* holds base1:8, type:4, s:1, dpl:2, p:1 in its low half and limit:4,     *)
(* avl:1, l:1, d:1, g:1, base2:8 in its high half.  s = 1, dpl = 3 and    *)
(* l = 0 are constants.                                                    *)
(***************************************************************************)
fill_ldt(info) ==
  LET base   == info.base_addr
      limit0 == Field(info.limit, 16)
      base1  == Field(base.hi, 8)
      limit  == Field(info.limit \div 2 ^ 16, 4)
      base2  == Field(base.hi \div 2 ^ 8, 8)
  IN  [a |-> Word(Field(base.lo, 16), limit0),
       b |-> Word(limit + Field(info.useable, 1) * 2 ^ 4 + 0 * 2 ^ 5
                  + Field(info.seg_32bit, 1) * 2 ^ 6
                  + Field(info.limit_in_pages, 1) * 2 ^ 7 + base2 * 2 ^ 8,
                  base1 + DescType(info) * 2 ^ 8 + 1 * 2 ^ 12 + 3 * 2 ^ 13
                  + DescPresent(info) * 2 ^ 15)]

(* The body of set_tls_desc's loop for one entry (n = 1). *)
TlsDescFor(info) == IF LDT_empty(info) THEN ZeroDesc ELSE fill_ldt(info)
=============================================================================
