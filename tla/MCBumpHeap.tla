------------------------------ MODULE MCBumpHeap ------------------------------
(* Bounds for BumpHeap: 8-bit pointers and a 48-byte heap well below the  *)
(* top of the address space, and the requests the runtime makes for small *)
(* objects, arrays and strings: enough to fill the heap and reach the    *)
(* exhausted case.                                                       *)
EXTENDS BumpHeap

MCPtrBits == 8
MCHeapStart == 64
MCHeapEnd == 112

SmallObjects == {4, 16}
SmallArrays == {<<3, 4>>, <<8, 1>>}
SmallStrings == {0, 5}
=============================================================================
