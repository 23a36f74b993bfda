---------------------------- MODULE L4Lifecycle ----------------------------
(***************************************************************************)
(* Task and thread lifecycle manager of src/native/glue/task.c.           *)
(*                                                                         *)
(* The state is the capability-slot allocator of the process               *)
(* (l4re_util_cap_alloc / l4re_util_cap_free), the kernel objects bound   *)
(* in those slots, the gate capabilities mapped into child tasks, the      *)
(* threads whose thread_control commit succeeded, and the handles the     *)
(* managed caller holds.  Every microkernel call may fail; a call on an    *)
(* invalid capability always fails.  Each l4api_* function is one action:  *)
(* the management thread is single threaded and every kernel call blocks,  *)
(* so nothing interleaves inside a function.                               *)
(***************************************************************************)
EXTENDS Naturals, FiniteSets

CONSTANTS
  Caps,        \* capability slots of the process' own capability space
  InvalidCap,  \* L4_INVALID_CAP, returned by the slot allocator when full
  Priorities   \* priorities the caller passes to l4api_set_priority

ASSUME InvalidCap \notin Caps

Kinds == {"none", "task", "thread", "gate"}

VARIABLES
  capFree,     \* slots the allocator considers free
  kobj,        \* kind of the kernel object bound in each slot
  mapped,      \* <<task slot, gate slot>>: gate mapped into that task
  configured,  \* thread slots whose thread_control commit succeeded
  started,     \* thread slots resumed by l4_thread_ex_regs
  tasks,       \* task handles returned to the caller
  threads,     \* l4api_thread_info records returned to the caller
  prio         \* scheduling priority of the thread object in each slot

vars == <<capFree, kobj, mapped, configured, started, tasks, threads, prio>>

(* A slot whose thread was never given a priority, or holds no thread. *)
DefaultPrio == 0

(* The objects in slots rep were replaced or deleted: their priority goes. *)
PrioReset(rep) == [c \in Caps |-> IF c \in rep THEN DefaultPrio ELSE prio[c]]

ThreadInfo == [thread : Caps, gate : Caps, parent : Caps]

(* l4re_util_cap_alloc: a free slot, or L4_INVALID_CAP when none is left. *)
CapAllocResults(free) == IF free = {} THEN {InvalidCap} ELSE free

(* Mutation: the invalid capability is not filtered out on free.         *)
CapFreeNoInvalidCheck(free, c) == free \cup {c}

(* l4re_util_cap_free: returns a slot to the allocator; the invalid       *)
(* capability is ignored.  The kernel object in the slot is NOT deleted.  *)
CapFree(free, c) == free \cup ({c} \cap Caps)

Init ==
  /\ capFree    = Caps
  /\ kobj       = [c \in Caps |-> "none"]
  /\ mapped     = {}
  /\ configured = {}
  /\ started    = {}
  /\ tasks      = {}
  /\ threads    = {}
  /\ prio       = [c \in Caps |-> DefaultPrio]

(***************************************************************************)
(* l4api_create_task: allocate a slot, l4_factory_create_task into it; on  *)
(* error free the slot and return L4_INVALID_CAP.  The debugger name is    *)
(* best effort and changes no modelled state.                              *)
(***************************************************************************)
(* Mutation: the error path forgets l4re_util_cap_free(cap).             *)
CreateTaskErrKeepsSlot(free, cap) == free \ {cap}

(* The err label of l4api_create_task. *)
CreateTaskErr(free, cap) == CapFree(free, cap)

l4api_create_task ==
  \E cap \in CapAllocResults(capFree), ok \in BOOLEAN :
    IF ok /\ cap \in Caps
    THEN /\ capFree' = capFree \ {cap}
         /\ kobj'    = [kobj EXCEPT ![cap] = "task"]
         /\ tasks'   = tasks \cup {cap}
         /\ prio'    = PrioReset({cap})
         /\ UNCHANGED <<mapped, configured, started, threads>>
    ELSE /\ capFree' = CreateTaskErr(capFree, cap)
         /\ UNCHANGED <<kobj, mapped, configured, started, tasks, threads, prio>>

(***************************************************************************)
(* l4api_create_thread: two slots, then four kernel calls in order:        *)
(*   1 l4_factory_create_thread(cap)                                       *)
(*   2 l4_factory_create_gate(gate, main thread, cap)                      *)
(*   3 l4_task_map(parent, gate)                                           *)
(*   4 l4_thread_control_commit(cap) with pager = exc handler = gate and   *)
(*     bind(utcb, parent)                                                  *)
(* The first failing call jumps to err, which frees both slots and returns *)
(* -1.  OkSteps is how many calls can succeed at all; n, the number that   *)
(* do succeed, is any value up to it.                                      *)
(***************************************************************************)
OkSteps(cap, gate, parent) ==
  IF cap \notin Caps THEN 0
  ELSE IF gate \notin Caps THEN 1
  ELSE IF parent \notin Caps \/ kobj[parent] # "task" THEN 2
  ELSE 4

(* Slots whose old object a successful factory call overwrote.           *)
Replaced(cap, gate, n) ==
  (IF n >= 1 THEN {cap} ELSE {}) \cup (IF n >= 2 THEN {gate} ELSE {})

ThreadCreated(cap, gate, parent, n) ==
  LET rep == Replaced(cap, gate, n) IN
  /\ kobj' = [c \in Caps |->
                IF c = cap /\ n >= 1 THEN "thread"
                ELSE IF c = gate /\ n >= 2 THEN "gate"
                ELSE kobj[c]]
  /\ mapped' = {m \in mapped : m[2] \notin rep}
               \cup (IF n >= 3 THEN {<<parent, gate>>} ELSE {})
  /\ configured' = (configured \ rep) \cup (IF n = 4 THEN {cap} ELSE {})
  /\ started' = started \ rep
  /\ prio' = PrioReset(rep)

(* Mutation: the result of l4_thread_control_commit is not checked.      *)
CommitUnchecked(n) == n >= 3

(* The function returns 0 only if all four kernel calls succeeded. *)
CreateThreadOk(n) == n = 4

l4api_create_thread ==
  \E cap \in CapAllocResults(capFree) :
  \E gate \in CapAllocResults(capFree \ {cap}) :
  \E parent \in tasks \cup {InvalidCap} :
  \E n \in 0..OkSteps(cap, gate, parent) :
    /\ ThreadCreated(cap, gate, parent, n)
    /\ IF CreateThreadOk(n)
       THEN /\ capFree' = capFree \ {cap, gate}
            /\ threads' = threads \cup
                 {[thread |-> cap, gate |-> gate, parent |-> parent]}
       ELSE /\ capFree' = CapFree(CapFree(capFree \ {cap, gate}, cap), gate)
            /\ UNCHANGED threads
    /\ UNCHANGED tasks

(***************************************************************************)
(* l4api_start_thread: l4_thread_ex_regs on the thread capability; fails  *)
(* when the slot holds no thread (e.g. after a partial delete).            *)
(***************************************************************************)
l4api_start_thread ==
  \E r \in threads :
    /\ kobj[r.thread] = "thread"
    /\ started' = started \cup {r.thread}
    /\ UNCHANGED <<capFree, kobj, mapped, configured, tasks, threads, prio>>

(* l4api_task_delete_obj: unmap with L4_FP_DELETE_OBJ deletes the object  *)
(* and every capability to it, including the gate mapped into the child.  *)
ObjDeleted(k, c) == [k EXCEPT ![c] = "none"]

(***************************************************************************)
(* l4api_delete_thread: delete the thread, and only if that succeeded the  *)
(* gate (the || short-circuits).  If either fails return -1 and keep both  *)
(* slots; the caller keeps the record and may retry.  If both succeed free *)
(* both slots.                                                            *)
(***************************************************************************)
(* if (delete(thread) || delete(gate)) return -1: n of the two succeeded. *)
DeleteFailed(n) == n # 2

(* Mutation: each slot is freed as soon as its own object is deleted.    *)
ReleaseEachWhenDeleted(r, n) ==
  (IF n >= 1 THEN {r.thread} ELSE {}) \cup (IF n = 2 THEN {r.gate} ELSE {})

(* The two l4re_util_cap_free calls after the check. *)
ReleasedSlots(r, n) == IF DeleteFailed(n) THEN {} ELSE {r.thread, r.gate}

l4api_delete_thread ==
  \E r \in threads, n \in 0..2 :
    /\ LET k1 == IF n >= 1 THEN ObjDeleted(kobj, r.thread) ELSE kobj
       IN  kobj' = IF n = 2 THEN ObjDeleted(k1, r.gate) ELSE k1
    /\ mapped' = IF n = 2 THEN {m \in mapped : m[2] # r.gate} ELSE mapped
    /\ configured' = IF n >= 1 THEN configured \ {r.thread} ELSE configured
    /\ started' = IF n >= 1 THEN started \ {r.thread} ELSE started
    /\ prio' = PrioReset(IF n >= 1 THEN {r.thread} ELSE {})
    /\ capFree' = capFree \cup ReleasedSlots(r, n)
    /\ threads' = IF DeleteFailed(n) THEN threads ELSE threads \ {r}
    /\ UNCHANGED tasks

(***************************************************************************)
(* l4api_set_priority(thread, priority): l4_scheduler_run_thread with the *)
(* new scheduling parameters; the kernel error is returned.  It fails on a *)
(* slot that holds no thread, which changes nothing.                      *)
(***************************************************************************)
l4api_set_priority ==
  \E r \in threads, p \in Priorities :
    /\ kobj[r.thread] = "thread"
    /\ prio' = [prio EXCEPT ![r.thread] = p]
    /\ UNCHANGED <<capFree, kobj, mapped, configured, started, tasks, threads>>

Next ==
  \/ l4api_create_task
  \/ l4api_create_thread
  \/ l4api_start_thread
  \/ l4api_delete_thread
  \/ l4api_set_priority

Spec == Init /\ [][Next]_vars

-----------------------------------------------------------------------------
TypeOK ==
  /\ capFree \subseteq Caps
  /\ kobj \in [Caps -> Kinds]
  /\ mapped \subseteq Caps \X Caps
  /\ configured \subseteq Caps
  /\ started \subseteq Caps
  /\ tasks \subseteq Caps
  /\ threads \subseteq ThreadInfo
  /\ prio \in [Caps -> Priorities \cup {DefaultPrio}]

(* Every slot named by a handle the caller holds. *)
HeldSlots == tasks \cup {r.thread : r \in threads} \cup {r.gate : r \in threads}

(***************************************************************************)
(* HandleExclusive: the handles held by the caller are pairwise distinct   *)
(* and none of them is free in the allocator, so no later create_* can be  *)
(* given a slot the caller still uses (l4api_create_thread err path and    *)
(* l4api_delete_thread's keep-on-partial-failure rule).                    *)
(***************************************************************************)
HandleExclusive ==
  /\ HeldSlots \cap capFree = {}
  /\ \A r \in threads : r.thread # r.gate /\ r.thread \notin tasks
                        /\ r.gate \notin tasks
  /\ \A r1, r2 \in threads :
       r1 # r2 => {r1.thread, r1.gate} \cap {r2.thread, r2.gate} = {}

(***************************************************************************)
(* SlotConservation: no slot is lost.  Each slot is free or named by a     *)
(* handle the caller holds; in particular every error path of             *)
(* l4api_create_task / l4api_create_thread releases what it allocated.     *)
(***************************************************************************)
SlotConservation == capFree \cup HeldSlots = Caps

(***************************************************************************)
(* ThreadAllOrNothing: a thread record the caller holds names a live gate *)
(* mapped into its parent task, and its thread, while it exists, was      *)
(* committed (pager, exception handler and address space bound).  No      *)
(* partially configured thread is exposed by l4api_create_thread, and a   *)
(* partial l4api_delete_thread only ever removes the thread first.        *)
(***************************************************************************)
ThreadAllOrNothing ==
  \A r \in threads :
    /\ kobj[r.gate] = "gate"
    /\ <<r.parent, r.gate>> \in mapped
    /\ kobj[r.thread] = "thread" => r.thread \in configured

(***************************************************************************)
(* NoLiveObjectInFreeSlot: no free slot still holds a live kernel object  *)
(* (spec §3/§9: a handle is released only after its object is destroyed). *)
(* l4api_create_thread's err path frees both slots without deleting the  *)
(* thread or gate it already created.                                     *)
(***************************************************************************)
NoLiveObjectInFreeSlot == \A c \in capFree : kobj[c] = "none"
=============================================================================
