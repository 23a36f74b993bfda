---------------------------- MODULE MCFlushRegions ----------------------------
(* Bounds for FlushRegions: 8 pages, so that every set of mapped pages is *)
(* reachable and ranges decompose into blocks of 1, 2 and 4 pages; batch  *)
(* 2 makes a range split across several unmap calls.  Ranges starting at *)
(* page 0 are checked on their own.                                       *)
EXTENDS FlushRegions

MCW == 3
MCBatch == 2
NonZeroStarts == 1 .. NPages - 1
AllStarts == 0 .. NPages - 1
AllEnds == 0 .. NPages - 1
=============================================================================
