------------------------------- MODULE BumpHeap -------------------------------
(***************************************************************************)
(* The monotonic heap of src/native/kernel/mm.c (gc_malloc) and its        *)
(* managed-runtime callers in src/native/glue/csharp-rt.c.                 *)
(*                                                                         *)
(* Pointers and size_t are PtrBits-bit unsigned integers (32 on the real   *)
(* target); arithmetic on them wraps modulo 2^PtrBits.  The heap is        *)
(* [HeapStart, HeapEnd) as init_mm leaves it.  Every allocated object is   *)
(* recorded with the bytes gc_malloc gave it and the bytes its layout     *)
(* uses (header plus payload, computed without wrapping).                  *)
(***************************************************************************)
EXTENDS Integers

CONSTANTS
  PtrBits,      \* width of a pointer and of size_t
  HeapStart,    \* g_stack_and_heap_start + STACK_SIZE
  HeapEnd,      \* g_stack_and_heap_start + size
  ObjSizes,     \* object_size arguments of __silk_rt_new_object
  ArrayReqs,    \* <<length, element_size>> arguments of __silk_rt_new_array
  StrLens       \* len arguments of InternalAllocateString

Word == 2 ^ PtrBits
NULL == 0

ASSUME 0 < HeapStart /\ HeapStart <= HeapEnd /\ HeapEnd < Word

(* sizeof of the runtime structures of pinvoke.h on the 32-bit target.  *)
SizeofObject == 4 + 4                  \* silk_System_Object: methodPtr, syncRoot
SizeofArray == SizeofObject + 4        \* silk_System_Array: obj, length; base[0]
SizeofShort == 2
(* silk_System_String: parent, length, first_char, padded to 4 bytes. *)
FirstCharOffset == SizeofObject + 4
SizeofString == FirstCharOffset + 4

VARIABLES
  heap_ptr,   \* next free byte of the heap
  objs,       \* [addr, size, need] of every object handed out
  faulted     \* a store through the NULL gc_malloc returned

vars == <<heap_ptr, objs, faulted>>

Init ==
  /\ heap_ptr = HeapStart
  /\ objs = {}
  /\ faulted = FALSE

(* Mutation: the bound test forgets the size of the request. *)
HeapFullNoSize(ptr, size) == {ptr > HeapEnd}

(***************************************************************************)
(* if (heap_ptr + size > heap_end): the pointer sum may pass the end of   *)
(* the address space, which C leaves undefined.  The build either compares *)
(* the wrapped sum (add, then cmp) or a form the compiler derived on the  *)
(* assumption that it does not wrap; both outcomes are possible.          *)
(***************************************************************************)
HeapFull(ptr, size) == {(ptr + size) % Word > HeapEnd, ptr + size > HeapEnd}

(* The results gc_malloc(size) can return: <<pointer, new heap_ptr>>. *)
gc_malloc(ptr, size) ==
  {IF full THEN <<NULL, ptr>> ELSE <<ptr, (ptr + size) % Word>> :
     full \in HeapFull(ptr, size)}

(* The caller stores through the NULL that gc_malloc returned. *)
StoreThroughNull ==
  /\ faulted' = TRUE
  /\ UNCHANGED <<heap_ptr, objs>>

(***************************************************************************)
(* One allocation by a runtime entry point: gc_malloc(s), then memset of  *)
(* s bytes at the result, which faults when the result is NULL; the       *)
(* object records s and the bytes its layout needs.                       *)
(***************************************************************************)
Allocate(s, need) ==
  /\ ~faulted
  /\ \E res \in gc_malloc(heap_ptr, s) :
       IF res[1] = NULL
       THEN StoreThroughNull
       ELSE /\ heap_ptr' = res[2]
            /\ objs' = objs \cup {[addr |-> res[1], size |-> s, need |-> need]}
            /\ UNCHANGED faulted

(* __silk_rt_new_object(object_size) *)
silk_rt_new_object(object_size) == Allocate(object_size, object_size)

(* s = sizeof(struct silk_System_Array) + element_size * length; the      *)
(* array then claims length elements of element_size bytes.              *)
ArrayBytes(length, element_size) ==
  (SizeofArray + ((element_size * length) % Word)) % Word

silk_rt_new_array(length, element_size) ==
  Allocate(ArrayBytes(length, element_size),
           SizeofArray + element_size * length)

(* Mutation: the character count is not scaled by sizeof(short). *)
StringBytesUnscaled(len) == (SizeofString + ((len - 1) % Word)) % Word

(* s = sizeof(struct silk_System_String) + (len - 1) * sizeof(short) *)
StringBytes(len) == (SizeofString + (((len - 1) * SizeofShort) % Word)) % Word

(* InternalAllocateString(len): the characters start at first_char and   *)
(* take len shorts.                                                        *)
InternalAllocateString(len) ==
  Allocate(StringBytes(len), FirstCharOffset + len * SizeofShort)

Next ==
  \/ \E n \in ObjSizes : silk_rt_new_object(n)
  \/ \E r \in ArrayReqs : silk_rt_new_array(r[1], r[2])
  \/ \E len \in StrLens : InternalAllocateString(len)

Spec == Init /\ [][Next]_vars

-----------------------------------------------------------------------------
(***************************************************************************)
(* ObjectsInHeap: every object gc_malloc handed out lies inside            *)
(* [HeapStart, heap_ptr), heap_ptr never passes heap_end, and no two       *)
(* objects overlap (spec §6: regions are carved from the heap extent and   *)
(* a request that does not fit fails).                                    *)
(***************************************************************************)
ObjectsInHeap ==
  /\ HeapStart <= heap_ptr /\ heap_ptr <= HeapEnd
  /\ \A o \in objs : HeapStart <= o.addr /\ o.addr + o.size <= heap_ptr
  /\ \A o1, o2 \in objs :
       o1 # o2 => o1.addr + o1.size <= o2.addr \/ o2.addr + o2.size <= o1.addr

(***************************************************************************)
(* ObjectFitsAllocation: the bytes an array or string uses according to   *)
(* the length stored in it are all inside the block gc_malloc gave it, so *)
(* writes to its elements stay in the object.  For the signature array of *)
(* sfs_md.c the bytes are counted with that file's own struct ByteArray,  *)
(* through which the copy loop writes.                                    *)
(***************************************************************************)
ObjectFitsAllocation == \A o \in objs : o.need <= o.size
=============================================================================
