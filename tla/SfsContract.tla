----------------------------- MODULE SfsContract -----------------------------
(***************************************************************************)
(* What sfs_initialize_and_verify_metadata (src/native/kernel/sfs_md.c)    *)
(* promises, as its VCC contract states it: a call returns 0 only for a   *)
(* new file (size 0) or for a header carrying the magic number whose      *)
(* offset and size were handed back, whose signature bytes were copied    *)
(* into page_signatures, and whose HMAC matched.  Errors promise nothing. *)
(* The state is the last call, <<[req, out]>>, or <<>> before the first.  *)
(***************************************************************************)
EXTENDS Integers, Sequences

CONSTANTS
  Requests,          \* [header, header_length, size] arguments of a call
  SFS_MAGIC,         \* the magic number of a metadata header
  SIGNATURE_OFFSET,  \* bytes of the header before the signatures
  CalcHmac(_, _, _)  \* sfs_calculate_hmac(data_pgoffset, file_size, signatures)

VARIABLE call

(* The first n bytes of the header's signature area. *)
SigPrefix(h, n) == [j \in 1 .. n |-> h.sigs[j]]

(***************************************************************************)
(* The ensures clause: result == 0 ==> size == 0 || (magic, offset, size, *)
(* signatures and hmac_verified).  hmac_verified is the result of          *)
(* is_sha1_digest_equal, whose contract is equality of all 20 bytes.       *)
(***************************************************************************)
Contract(r, o) ==
  o.result = 0 =>
    \/ r.size = 0
    \/ LET h == r.header IN
       /\ h.magic = SFS_MAGIC
       /\ o.data_pgoffset = h.data_pgoffset
       /\ o.file_size = h.file_size
       /\ o.sig_bytes = SigPrefix(h, r.header_length - SIGNATURE_OFFSET)
       /\ h.hmac = CalcHmac(o.data_pgoffset, o.file_size, o.sig_bytes)

Init == call = <<>>

Next ==
  /\ Len(call') = 1
  /\ call'[1].req \in Requests
  /\ Contract(call'[1].req, call'[1].out)

Spec == Init /\ [][Next]_call
=============================================================================
