---------------------------- MODULE MCSfsMetadata ----------------------------
(* SfsMetadata on the heap bounds of MCBumpHeap.  PAGE_SIZE of sfs_md.c is *)
(* 4096; here it is 44, so that a new file's signature array (PAGE_SIZE -  *)
(* 36 bytes) and a header's (4 or 8 bytes) fit the 48-byte heap a few     *)
(* times before it is exhausted.  The HMAC stand-in depends on the offset, *)
(* the size and every signature byte.                                     *)
EXTENDS SfsMetadata, MCBumpHeap

MCMagic == "VANDROID"
MCPageSize == 44

Ones(bs) == Len(SelectSeq(bs, LAMBDA b : b = 1))
MCHmac(pgoff, fsize, bytes) == [i \in 0 .. 19 |-> (pgoff + fsize + Ones(bytes) + i) % 2]

Flip(d, k) == [d EXCEPT ![k] = 1 - d[k]]

(* Headers with 4 or 8 signature bytes, the magic number or another, and  *)
(* an HMAC that matches or differs in its first or its last byte.         *)
Headers ==
  UNION {{[magic |-> m, hmac |-> hm, data_pgoffset |-> 1, file_size |-> 7,
           signature_length |-> n, sigs |-> [j \in 1 .. n |-> 1]] :
            m \in {MCMagic, "other"},
            hm \in LET good == MCHmac(1, 7, [j \in 1 .. n |-> 1])
                   IN  {good, Flip(good, 0), Flip(good, 19)}} :
         n \in {4, 8}}

(* header_length 39 is shorter than the header; 40 and 44 are the lengths *)
(* for 4 and 8 signature bytes.  size 0 is a new file, 43 is shorter than *)
(* the minimum header, 44 is enough.                                      *)
MCSfsRequests ==
  [header : Headers, header_length : {39, 40, 44}, size : {0, 43, 44}]
=============================================================================
