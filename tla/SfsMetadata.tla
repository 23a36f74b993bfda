----------------------------- MODULE SfsMetadata -----------------------------
(***************************************************************************)
(* sfs_initialize_and_verify_metadata (src/native/kernel/sfs_md.c) running *)
(* on the runtime heap of BumpHeap: the page_signatures array it returns  *)
(* is a silk_new_byte_array, i.e. __silk_rt_new_array(size, 1), carved by *)
(* gc_malloc from the same heap as the runtime's other objects, and       *)
(* memset before the routine sees it.                                     *)
(*                                                                         *)
(* A header is a record of its fields; its signature area is a sequence   *)
(* of bytes; the magic number is compared only, so it is a symbol.  The   *)
(* HMAC routine is not part of this tree and is a parameter.  sfs holds   *)
(* the last call, <<[req, out]>>: its request and the outputs it wrote.  *)
(***************************************************************************)
EXTENDS BumpHeap, Sequences

CONSTANTS
  SfsRequests,               \* [header, header_length, size] of the calls made
  SFS_MAGIC,                 \* SFS_MAGIC
  PAGE_SIZE,                 \* PAGE_SIZE of sfs_md.c
  sfs_calculate_hmac(_, _, _)

EINVAL == 22
DEFAULT_DATA_PGOFFSET == 1
MINIMUM_HEADER_SIZE == DEFAULT_DATA_PGOFFSET * PAGE_SIZE
SHA1_SIZE == 20
SIGNATURE_OFFSET == 20 + 8 + 4 + 4
SizeofSfsHeader == 8 + SHA1_SIZE + 4 + 4 + 4   \* sizeof(struct sfs_header)
(* sizeof(struct ByteArray): two pointers and the length.  BUFADDR puts  *)
(* the signature bytes right after it; the runtime allocated the array as *)
(* a struct silk_System_Array, so the copy fits only if the layouts agree. *)
SizeofByteArray == 4 + 4 + 4

VARIABLE sfs

runtimeVars == <<heap_ptr, objs, faulted, sfs>>

(* while (k < SHA1_SIZE && lhs[k] == rhs[k]) ++k; digests index from 0. *)
RECURSIVE DigestLoop(_, _, _)
DigestLoop(lhs, rhs, k) ==
  IF k < SHA1_SIZE /\ lhs[k] = rhs[k] THEN DigestLoop(lhs, rhs, k + 1) ELSE k

(* Mutation: the loop's exit is compared with one byte short. *)
DigestEqualSkipsLast(lhs, rhs) == DigestLoop(lhs, rhs, 0) >= SHA1_SIZE - 1

(* return k == SHA1_SIZE *)
is_sha1_digest_equal(lhs, rhs) == DigestLoop(lhs, rhs, 0) = SHA1_SIZE

(* sfs_verify_hmac: recompute the HMAC over the outputs and compare. *)
sfs_verify_hmac(hmac, data_pgoffset, file_size, sig_bytes) ==
  is_sha1_digest_equal(hmac, sfs_calculate_hmac(data_pgoffset, file_size, sig_bytes))

(* The header checks that return -EINVAL; || evaluates left to right, so  *)
(* the unsigned header_length - SIGNATURE_OFFSET is taken only when       *)
(* header_length is at least sizeof(struct sfs_header).                   *)
Malformed(r) ==
  \/ r.header_length < SizeofSfsHeader
  \/ r.header_length - SIGNATURE_OFFSET # r.header.signature_length
  \/ r.size < MINIMUM_HEADER_SIZE
  \/ r.header.magic # SFS_MAGIC

(* Mutation: the copy loop stops one byte early; the array stays zeroed. *)
CopiedShort(h, n) == [j \in 1 .. n |-> IF j < n THEN h.sigs[j] ELSE 0]

(* for (i = 0; i < signature_size; ++i) buf[i] = header buf[i] *)
Copied(h, n) == [j \in 1 .. n |-> h.sigs[j]]

Output(result, pgoff, fsize, arr, bytes) ==
  [result |-> result, data_pgoffset |-> pgoff, file_size |-> fsize,
   page_signatures |-> arr, sig_bytes |-> bytes]

(* The error exits: the three outputs cleared. *)
Cleared(result) == Output(result, 0, 0, NULL, <<>>)

(* A new file: offset 1, a fresh zeroed array, size 0. *)
NewFile ==
  LET n == PAGE_SIZE * DEFAULT_DATA_PGOFFSET - SIGNATURE_OFFSET
  IN  Output(0, DEFAULT_DATA_PGOFFSET, 0, NULL, [j \in 1 .. n |-> 0])

(* An existing file: copy the signatures, recompute the HMAC over the     *)
(* outputs and compare it with the header's.                              *)
Verified(r) ==
  LET h == r.header
      bytes == Copied(h, r.header_length - SIGNATURE_OFFSET)
      ok == sfs_verify_hmac(h.hmac, h.data_pgoffset, h.file_size, bytes)
  IN  IF ok THEN Output(0, h.data_pgoffset, h.file_size, NULL, bytes)
            ELSE Cleared(-EINVAL)

(***************************************************************************)
(* silk_new_byte_array(n) = __silk_rt_new_array(n, 1): gc_malloc, then a  *)
(* memset that faults on NULL, so the array the caller sees is never NULL *)
(* and the routine's "if (!*page_signatures) return -1" is not reached.   *)
(* The call then writes o, whose page_signatures is the new array unless  *)
(* an error exit cleared it.                                               *)
(***************************************************************************)
NewByteArray(n, r, o) ==
  \E res \in gc_malloc(heap_ptr, ArrayBytes(n, 1)) :
    IF res[1] = NULL
    THEN StoreThroughNull /\ UNCHANGED sfs
    ELSE /\ heap_ptr' = res[2]
         /\ objs' = objs \cup {[addr |-> res[1], size |-> ArrayBytes(n, 1),
                                need |-> SizeofByteArray + n]}
         /\ sfs' = <<[req |-> r, out |-> IF o.result = 0
                                          THEN [o EXCEPT !.page_signatures = res[1]]
                                          ELSE o]>>
         /\ UNCHANGED faulted

sfs_initialize_and_verify_metadata(r) ==
  /\ ~faulted
  /\ CASE r.size = 0 ->
            NewByteArray(PAGE_SIZE * DEFAULT_DATA_PGOFFSET - SIGNATURE_OFFSET,
                         r, NewFile)
       [] Malformed(r) ->
            /\ sfs' = <<[req |-> r, out |-> Cleared(-EINVAL)]>>
            /\ UNCHANGED <<heap_ptr, objs, faulted>>
       [] OTHER ->
            NewByteArray(r.header_length - SIGNATURE_OFFSET, r, Verified(r))

RuntimeInit == Init /\ sfs = <<>>

RuntimeNext ==
  \/ Next /\ UNCHANGED sfs
  \/ \E r \in SfsRequests : sfs_initialize_and_verify_metadata(r)

RuntimeSpec == RuntimeInit /\ [][RuntimeNext]_runtimeVars

-----------------------------------------------------------------------------
Contract == INSTANCE SfsContract WITH
              call <- sfs, Requests <- SfsRequests, CalcHmac <- sfs_calculate_hmac

(***************************************************************************)
(* SfsImplementsContract: every behaviour of the routine on the runtime   *)
(* heap is one its VCC contract allows: whenever it returns 0 for an      *)
(* existing file, the header had the magic number, the offset and size    *)
(* handed back are the header's, page_signatures holds exactly the        *)
(* header's signature bytes, and the HMAC recomputed over them matched in *)
(* all 20 bytes.                                                          *)
(***************************************************************************)
SfsImplementsContract == Contract!Spec
=============================================================================
