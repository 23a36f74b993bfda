------------------------------- MODULE TlsSlab -------------------------------
(***************************************************************************)
(* The TLS descriptor slab and set_thread_area of src/native/glue/tls.c.   *)
(*                                                                         *)
(* Memory is the array of slots carved from slab_tls_array, each holding   *)
(* the GDT_ENTRY_TLS_ENTRIES = 3 descriptors of one table, plus the cell   *)
(* just past the array (OOB), whose contents are unknown.  The free list   *)
(* is threaded through the first word of each slot, which is the a word   *)
(* of descriptor 0.  Threads are the managed contexts that own a table:    *)
(* a new one allocates a table, sets TLS entries while live, and frees     *)
(* the table when it exits, after which the context is reused.  gdt[t] is the descriptor table the kernel     *)
(* holds for thread t (fiasco_gdt_set).  The kernel may refuse a          *)
(* fiasco_gdt_set; native_load_tls does not look at its result.           *)
(***************************************************************************)
EXTENDS Integers, Sequences, SequencesExt, TlsDescriptor

CONSTANTS
  NSlots,       \* PAGE_SIZE / TLS_SLAB_SIZE slots in slab_tls_array
  SlabBase,     \* address of slab_tls_array
  TLS_MIN,      \* GDT_ENTRY_TLS_MIN, l4api_fiasco_gdt_entry_offset
  Threads,      \* managed thread contexts
  Reqs,         \* user_desc requests passed to set_thread_area
  Idxs,         \* idx arguments passed to set_thread_area
  MaxRefusals   \* bound on the loads the kernel refuses in a behaviour

TLS_SLAB_SIZE == 256
ENTRIES == 3                      \* GDT_ENTRY_TLS_ENTRIES
TLS_MAX == TLS_MIN + ENTRIES - 1  \* GDT_ENTRY_TLS_MAX
EINVAL == 22
ESRCH == 3
NULL == 0

SlotAddr(i) == SlabBase + i * TLS_SLAB_SIZE
Slots == {SlotAddr(i) : i \in 0 .. NSlots - 1}
OOB == SlotAddr(NSlots)           \* slab_tls_array + sizeof(slab_tls_array)
Cells == Slots \cup {OOB}

ASSUME /\ NSlots \in Nat \ {0} /\ SlabBase \in Nat \ {0}
       /\ OOB < 2 ^ 16 /\ TLS_MIN \in Nat \ {0}

(* A pointer stored in a 32-bit word, and read back from one. *)
PtrWord(p) == Word(p \div 2 ^ 16, p % 2 ^ 16)
WordPtr(w) == w.hi * 2 ^ 16 + w.lo

ZeroTable == [i \in 0 .. ENTRIES - 1 |-> ZeroDesc]

VARIABLES
  slab_tls_head,  \* head of the slab free list
  mem,            \* the three descriptors of every cell
  status,         \* "new" or "live" per thread context
  tableOf,        \* the tls_array a live thread owns
  gdt,            \* descriptors loaded into the kernel for each thread
  refusedLoad,    \* the thread's last fiasco_gdt_set was refused
  nRefused,       \* loads refused so far, up to MaxRefusals
  tls,            \* history: what the thread's own set_thread_area calls wrote
  faulted         \* the process took a fault (memset through NULL)

vars == <<slab_tls_head, mem, status, tableOf, gdt, refusedLoad, nRefused, tls, faulted>>

(* Mutation: the slots are linked at half the slot stride. *)
SlotLinkHalfStride(i) == SlotAddr(i) + TLS_SLAB_SIZE \div 2

(* slab_init: each slot's first word points at start + TLS_SLAB_SIZE. *)
SlotLink(i) == SlotAddr(i + 1)

(***************************************************************************)
(* slab_init after memset of the whole array; the cell past the array     *)
(* holds whatever word the image places there.                            *)
(***************************************************************************)
Init ==
  /\ \E w \in {NULL} \cup Cells :
       mem = [c \in Cells |->
                IF c = OOB THEN [ZeroTable EXCEPT ![0].a = PtrWord(w)]
                ELSE LET i == (c - SlabBase) \div TLS_SLAB_SIZE
                     IN  [ZeroTable EXCEPT ![0].a = PtrWord(SlotLink(i))]]
  /\ slab_tls_head = SlotAddr(0)
  /\ status  = [t \in Threads |-> "new"]
  /\ tableOf = [t \in Threads |-> NULL]
  /\ gdt     = [t \in Threads |-> ZeroTable]
  /\ refusedLoad = [t \in Threads |-> FALSE]
  /\ nRefused = 0
  /\ tls     = [t \in Threads |-> ZeroTable]
  /\ faulted = FALSE

(* The pointer stored in the first word of the cell at p. *)
Link(m, p) == IF p \in Cells THEN WordPtr(m[p][0].a) ELSE NULL

(* Mutation: slab_tls_malloc forgets to advance the head. *)
PopKeepsHead(m, old) == old

(* slab_tls_head = the link stored at the old head *)
PopNext(m, old) == Link(m, old)

(* Mutation: l4api_tls_array_alloc does not zero the table. *)
AllocNoMemset(m, r) == m

(* memset(r, 0, sizeof(struct desc_struct) * GDT_ENTRY_TLS_ENTRIES) *)
AllocZeroes(m, r) == IF r \in Cells THEN [m EXCEPT ![r] = ZeroTable] ELSE m

(***************************************************************************)
(* l4api_tls_array_alloc: slab_tls_malloc returns NULL only if the head   *)
(* is NULL, and the memset then faults; otherwise it pops the head, which *)
(* after the last slot is the address past the array.  The thread the    *)
(* table is for is a fresh kernel thread: its TLS entries are empty.      *)
(***************************************************************************)
l4api_tls_array_alloc(t) ==
  /\ ~faulted
  /\ status[t] = "new"
  /\ IF slab_tls_head = NULL
     THEN /\ faulted' = TRUE
          /\ UNCHANGED <<slab_tls_head, mem, status, tableOf, gdt, refusedLoad, nRefused, tls>>
     ELSE LET r == slab_tls_head IN
          /\ slab_tls_head' = PopNext(mem, r)
          /\ mem' = AllocZeroes(mem, r)
          /\ status' = [status EXCEPT ![t] = "live"]
          /\ tableOf' = [tableOf EXCEPT ![t] = r]
          /\ gdt' = [gdt EXCEPT ![t] = ZeroTable]
          /\ refusedLoad' = [refusedLoad EXCEPT ![t] = FALSE]
          /\ UNCHANGED nRefused
          /\ tls' = [tls EXCEPT ![t] = ZeroTable]
          /\ UNCHANGED faulted

(* l4api_tls_array_free / slab_tls_free: *ptr = head; head = ptr. *)
l4api_tls_array_free(t) ==
  /\ ~faulted
  /\ status[t] = "live"
  /\ LET p == tableOf[t] IN
     /\ mem' = IF p \in Cells
               THEN [mem EXCEPT ![p][0].a = PtrWord(slab_tls_head)] ELSE mem
     /\ slab_tls_head' = p
  /\ status' = [status EXCEPT ![t] = "new"]
  /\ tableOf' = [tableOf EXCEPT ![t] = NULL]
  /\ UNCHANGED <<gdt, refusedLoad, nRefused, tls, faulted>>

(* get_free_idx: first empty entry, as a GDT index, or -ESRCH. *)
get_free_idx(table) ==
  LET free == {i \in 0 .. ENTRIES - 1 : desc_empty(table[i])}
  IN  IF free = {} THEN -ESRCH
      ELSE (CHOOSE i \in free : \A j \in free : i <= j) + TLS_MIN

(* set_tls_desc(thread, table, idx, info, 1): entry idx - GDT_ENTRY_TLS_MIN *)
(* is cleared for the empty request and filled by fill_ldt otherwise.      *)
set_tls_desc(table, idx, info) == [table EXCEPT ![idx - TLS_MIN] = TlsDescFor(info)]

(* Mutation: only the entry just written is loaded (size LDT_ENTRY_SIZE). *)
LoadTlsEntryOnly(g, t, table, idx) ==
  [g EXCEPT ![t][idx - TLS_MIN] = table[idx - TLS_MIN]]

(* native_load_tls: fiasco_gdt_set of 3 * LDT_ENTRY_SIZE bytes, all three *)
(* entries of the table, when the kernel accepts it.                      *)
native_load_tls(g, t, table, idx) == [g EXCEPT ![t] = table]

(***************************************************************************)
(* l4api_set_thread_area(thread, tls_array, idx, info, can_allocate).     *)
(* idx -1 takes info->entry_number; if that is -1 too and can_allocate is *)
(* set, get_free_idx picks the entry (or the call returns -ESRCH).  An    *)
(* index outside [TLS_MIN, TLS_MAX] returns -EINVAL.  Otherwise           *)
(* set_tls_desc writes the entry and reloads the whole table; whether the *)
(* kernel accepted the load or not, the call returns 0.  The index        *)
(* get_free_idx picked is also written back to info->entry_number; info is *)
(* the caller's request, a fresh input of every call here, so that store  *)
(* is not state of the model.                                             *)
(***************************************************************************)
l4api_set_thread_area(t, idx, info, can_allocate) ==
  LET tbl   == tableOf[t]
      idx1  == IF idx = -1 THEN info.entry_number ELSE idx
      fresh == idx1 = -1 /\ can_allocate
      idx2  == IF fresh THEN get_free_idx(mem[tbl]) ELSE idx1
  IN  /\ ~faulted
      /\ status[t] = "live"
      /\ ~(fresh /\ idx2 < 0)
      /\ TLS_MIN <= idx2 /\ idx2 <= TLS_MAX
      /\ LET table == set_tls_desc(mem[tbl], idx2, info)
         IN  /\ mem' = [mem EXCEPT ![tbl] = table]
             /\ \E ok \in IF nRefused < MaxRefusals THEN BOOLEAN ELSE {TRUE} :
                  /\ gdt' = IF ok THEN native_load_tls(gdt, t, table, idx2) ELSE gdt
                  /\ refusedLoad' = [refusedLoad EXCEPT ![t] = ~ok]
                  /\ nRefused' = IF ok THEN nRefused ELSE nRefused + 1
      /\ tls' = [tls EXCEPT ![t][idx2 - TLS_MIN] = TlsDescFor(info)]
      /\ UNCHANGED <<slab_tls_head, status, tableOf, faulted>>

(***************************************************************************)
(* The calls that return -ESRCH or -EINVAL change nothing and are          *)
(* stuttering steps; they are left out of Next.                           *)
(***************************************************************************)
Next ==
  \/ \E t \in Threads : l4api_tls_array_alloc(t)
  \/ \E t \in Threads : l4api_tls_array_free(t)
  \/ \E t \in Threads, idx \in Idxs, info \in Reqs, ca \in BOOLEAN :
       l4api_set_thread_area(t, idx, info, ca)

Spec == Init /\ [][Next]_vars

-----------------------------------------------------------------------------
Desc == [a : [hi : 0 .. 2 ^ 16 - 1, lo : 0 .. 2 ^ 16 - 1],
         b : [hi : 0 .. 2 ^ 16 - 1, lo : 0 .. 2 ^ 16 - 1]]

TypeOK ==
  /\ slab_tls_head \in Cells \cup {NULL}
  /\ \A c \in Cells : \A i \in 0 .. ENTRIES - 1 : mem[c][i] \in Desc
  /\ status \in [Threads -> {"new", "live"}]
  /\ tableOf \in [Threads -> Cells \cup {NULL}]
  /\ faulted \in BOOLEAN

Live == {t \in Threads : status[t] = "live"}

(* The slots on the slab free list, followed from slab_tls_head until a   *)
(* pointer that is not a slot (NULL, or the end of the array) or a repeat. *)
RECURSIVE FreeChain(_, _)
FreeChain(p, acc) ==
  IF p \notin Slots \/ Contains(acc, p) THEN acc
  ELSE FreeChain(Link(mem, p), Append(acc, p))

(***************************************************************************)
(* TablesExclusive: no two live threads share a descriptor table, and no  *)
(* live thread's table is on the slab free list (slab_tls_malloc pops     *)
(* exactly the slot it returns, slab_tls_free pushes it back).            *)
(***************************************************************************)
TablesExclusive ==
  /\ \A t1, t2 \in Live : t1 # t2 => tableOf[t1] # tableOf[t2]
  /\ \A t \in Live : ~Contains(FreeChain(slab_tls_head, <<>>), tableOf[t])

(***************************************************************************)
(* TableReflectsOwnWrites: every entry of a live thread's table is exactly *)
(* what that thread's own set_thread_area calls wrote there, or empty: no *)
(* free-list link, no descriptor of a previous owner of the slot and no    *)
(* write by another thread shows through (memset on alloc, the entry      *)
(* index idx - GDT_ENTRY_TLS_MIN).                                         *)
(***************************************************************************)
TableReflectsOwnWrites == \A t \in Live : mem[tableOf[t]] = tls[t]

(***************************************************************************)
(* InstalledMatchesTable: unless the kernel refused the thread's last     *)
(* fiasco_gdt_set, the descriptors it holds for a live thread equal the   *)
(* thread's table.  native_load_tls ignores a refusal, so the table and   *)
(* the kernel may part; the next accepted load must bring back every      *)
(* entry, those written while loads were refused included, which holds    *)
(* because set_tls_desc reloads all 3 * LDT_ENTRY_SIZE bytes after every  *)
(* write (spec §4.2).                                                      *)
(***************************************************************************)
InstalledMatchesTable ==
  \A t \in Live : ~refusedLoad[t] => gdt[t] = mem[tableOf[t]]

(***************************************************************************)
(* TableInSlab: every table handed out is a slot of slab_tls_array; the   *)
(* slab reports exhaustion instead of returning memory past the array     *)
(* (spec §4.2 and §8: the (N+1)-th alloc_table fails).                     *)
(***************************************************************************)
TableInSlab == \A t \in Live : tableOf[t] \in Slots
=============================================================================
