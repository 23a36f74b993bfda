--------------------------- MODULE MemoryBootstrap ---------------------------
(***************************************************************************)
(* Process bootstrap: main (src/native/glue/main.c), expressos_init and    *)
(* init_ipc_gate (glue/init.c), init_l4api_tls (glue/tls.c), init_mm,      *)
(* init_main_memory and init_shm (kernel/mm.c).                            *)
(*                                                                         *)
(* main runs once on the single thread; every call in it blocks, and the   *)
(* only outside party is the companion OS, whose handshake message is an  *)
(* input.  main is one step.  Sizes and addresses are in KiB.  The checked *)
(* kernel calls are numbered in the order main makes them; n of them       *)
(* succeed and the next one fails, which makes main print and return.     *)
(* The region manager attaches each dataspace at an address it chooses,   *)
(* superpage aligned and clear of the other attachments.                   *)
(***************************************************************************)
EXTENDS Integers, Sequences

CONSTANTS
  Msgs,         \* handshake messages: [ipc_buf_size, control_block_off, linux_size]
  AttachAddrs   \* addresses l4re_rm_attach may choose

PAGE_SIZE == 4
STACK_SIZE == 128
STACK_AND_HEAP_SIZE == 96 * 1024
EXPRESSOS_MAIN_MEMORY_SIZE == 96 * 1024
EXPRESSOS_IPC_BUF_SIZE == 2 * 1024
EXPRESSOS_IPC_SYNC_CALL_BUF_SIZE == 68
EXPRESSOS_CONTROL_BLOCK_SIZE == 4

(* The checked calls of each init function, in the order it makes them. *)
InitCalls == <<"linux_server_cap", "vandroid_cap", "bind_thread">>
MainMemoryCalls == <<"main_mem_cap", "main_mem_alloc", "main_mem_attach">>
MmCalls == <<"heap_cap", "heap_alloc", "heap_attach", "guard_reserve">>
ShmCalls == <<"ipc_wait", "received_caps", "shm_attach", "linux_attach">>

(* The checked calls of main, in order (the error paths of main). *)
Checked == InitCalls \o MainMemoryCalls \o MmCalls \o ShmCalls
NChecked == Len(Checked)

Region(base, size) == [base |-> base, size |-> size]
NoRegion == Region(0, 0)

VARIABLES
  phase,        \* "boot", "exited" or "runtime" (csharp_main entered)
  failedAt,     \* the call whose failure made main return
  attached,     \* [main, heap, shm, linux] regions attached by l4re_rm_attach
  heap,         \* [ptr, end, stack_end, guard] as init_mm leaves them
  control_block,\* g_expressos_control_block
  boot_params   \* the expressos_boot_params passed to csharp_main

vars == <<phase, failedAt, attached, heap, control_block, boot_params>>

Init ==
  /\ phase = "boot"
  /\ failedAt = "none"
  /\ attached = [k \in {"main", "heap", "shm", "linux"} |-> NoRegion]
  /\ heap = [ptr |-> 0, end |-> 0, stack_end |-> 0, guard |-> NoRegion]
  /\ control_block = 0
  /\ boot_params = [main_memory |-> NoRegion, linux_main_memory |-> NoRegion,
                    sync_ipc_shm |-> NoRegion, completion_queue |-> NoRegion]

Disjoint(r1, r2) == r1.base + r1.size <= r2.base \/ r2.base + r2.size <= r1.base
Inside(r, outer) == outer.base <= r.base /\ r.base + r.size <= outer.base + outer.size

(* Attachments the region manager can make: one address per dataspace,   *)
(* the four regions pairwise disjoint.                                    *)
Placements(msg) ==
  {a \in [{"main", "heap", "shm", "linux"} -> AttachAddrs] :
     LET r == [main  |-> Region(a["main"], EXPRESSOS_MAIN_MEMORY_SIZE),
               heap  |-> Region(a["heap"], STACK_AND_HEAP_SIZE),
               shm   |-> Region(a["shm"], msg.ipc_buf_size),
               linux |-> Region(a["linux"], msg.linux_size)]
     IN  \A k1, k2 \in DOMAIN r : k1 # k2 => Disjoint(r[k1], r[k2])}

(* Mutation: the heap starts at the bottom of the region, on the stack. *)
HeapBoundsOverStack(start, size) ==
  [ptr |-> start, end |-> start + size, stack_end |-> start + STACK_SIZE,
   guard |-> Region(start, PAGE_SIZE)]

(***************************************************************************)
(* init_mm(size), after the region is attached at start: the lowest page  *)
(* is reserved as the stack guard, the stack ends STACK_SIZE above start  *)
(* and the heap runs from there to start + size.                           *)
(***************************************************************************)
init_mm(start, size) ==
  [ptr |-> start + STACK_SIZE, end |-> start + size,
   stack_end |-> start + STACK_SIZE, guard |-> Region(start, PAGE_SIZE)]

(* init_shm: g_expressos_control_block = buffer + ipc_control_block_off *)
init_shm(buf, msg) == buf + msg.control_block_off

(* Mutation: the completion queue starts right after the sync buffer. *)
QueueAfterSyncBuffer(buf) ==
  Region(buf + EXPRESSOS_IPC_SYNC_CALL_BUF_SIZE,
         EXPRESSOS_IPC_BUF_SIZE - EXPRESSOS_IPC_SYNC_CALL_BUF_SIZE)

(* main: completion_queue_start = buf + SYNC_CALL_BUF_SIZE +             *)
(* CONTROL_BLOCK_SIZE, completion_queue_end = buf + EXPRESSOS_IPC_BUF_SIZE *)
CompletionQueue(buf) ==
  LET start == buf + EXPRESSOS_IPC_SYNC_CALL_BUF_SIZE + EXPRESSOS_CONTROL_BLOCK_SIZE
  IN  Region(start, buf + EXPRESSOS_IPC_BUF_SIZE - start)

(***************************************************************************)
(* main(): set_priority (result ignored), expressos_init, and either the  *)
(* error return or the boot parameters and csharp_main.  init_l4api_tls    *)
(* and the two capability slots init_shm arms its buffer registers with   *)
(* are not checked; an invalid slot shows up as an invalid received      *)
(* capability, the "received_caps" check.                                *)
(***************************************************************************)
main(msg, n) ==
  /\ phase = "boot"
  /\ IF n < NChecked
     THEN /\ phase' = "exited"
          /\ failedAt' = Checked[n + 1]
          /\ UNCHANGED <<attached, heap, control_block, boot_params>>
     ELSE \E a \in Placements(msg) :
          LET buf == a["shm"] IN
          /\ attached' = [main  |-> Region(a["main"], EXPRESSOS_MAIN_MEMORY_SIZE),
                          heap  |-> Region(a["heap"], STACK_AND_HEAP_SIZE),
                          shm   |-> Region(buf, msg.ipc_buf_size),
                          linux |-> Region(a["linux"], msg.linux_size)]
          /\ heap' = init_mm(a["heap"], STACK_AND_HEAP_SIZE)
          /\ control_block' = init_shm(buf, msg)
          /\ boot_params' =
               [main_memory       |-> Region(a["main"], EXPRESSOS_MAIN_MEMORY_SIZE),
                linux_main_memory |-> Region(a["linux"], msg.linux_size),
                sync_ipc_shm      |-> Region(buf, EXPRESSOS_IPC_SYNC_CALL_BUF_SIZE),
                completion_queue  |-> CompletionQueue(buf)]
          /\ phase' = "runtime"
          /\ UNCHANGED failedAt

Next == \E msg \in Msgs, n \in 0 .. NChecked : main(msg, n)

Spec == Init /\ [][Next]_vars

-----------------------------------------------------------------------------
ControlBlock == Region(control_block, EXPRESSOS_CONTROL_BLOCK_SIZE)

(***************************************************************************)
(* SharedLayoutInsideBuffer: once the runtime is entered, the sync-call    *)
(* buffer, the control block and the completion queue handed to the       *)
(* managed code all lie inside the IPC buffer init_shm attached, and no   *)
(* two of them overlap (linux.h layout; spec §4.4 and §6: the control     *)
(* block is inside the IPC buffer).                                       *)
(***************************************************************************)
SharedLayoutInsideBuffer ==
  phase = "runtime" =>
    LET parts == {boot_params.sync_ipc_shm, ControlBlock,
                  boot_params.completion_queue}
    IN  /\ \A p \in parts : Inside(p, attached.shm)
        /\ Disjoint(boot_params.sync_ipc_shm, ControlBlock)
        /\ Disjoint(ControlBlock, boot_params.completion_queue)
        /\ Disjoint(boot_params.sync_ipc_shm, boot_params.completion_queue)

(***************************************************************************)
(* HeapClearOfStack: the heap gc_malloc carves from lies inside the        *)
(* stack-and-heap region and above the stack, and the guard page is the   *)
(* lowest page of the stack, outside the heap (init_mm; main switches the  *)
(* stack pointer to g_stack_end).                                          *)
(***************************************************************************)
HeapClearOfStack ==
  phase = "runtime" =>
    LET stack == Region(attached.heap.base, heap.stack_end - attached.heap.base)
        hp    == Region(heap.ptr, heap.end - heap.ptr)
    IN  /\ Inside(hp, attached.heap) /\ Inside(stack, attached.heap)
        /\ Disjoint(stack, hp)
        /\ Inside(heap.guard, stack) /\ Disjoint(heap.guard, hp)
        /\ heap.guard.base = stack.base
=============================================================================
