------------------------- MODULE MCTlsDescriptorCheck -------------------------
(* Bounded inputs for TlsDescriptorCheck: bases and limits that exercise  *)
(* every byte of the base split and the 20-bit limit cut, including the   *)
(* request of spec §8 (base 0x12345678, limit 0xFFFFF).                   *)
EXTENDS TlsDescriptorCheck

(* 0, 0x12345678, 0xFFFFFFFF, 0x00010000 as [hi, lo] halves *)
MCBases == {Word(0, 0), Word(4660, 22136), Word(65535, 65535), Word(1, 0)}

(* 0, 0xFFFFF, 0x100000 (beyond the 20-bit field), 0xFFFF *)
MCLimits == {0, 1048575, 1048576, 65535}
=============================================================================
