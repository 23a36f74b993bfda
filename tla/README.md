# ExpressOS native layer: TLA+ models

These modules model the C code under `src/native/`: the native layer ExpressOS runs on the Fiasco.OC/L4Re microkernel. Each module is translated from the source, with line ranges recorded in `PROJECT.json` under `map`. The TLC configurations check them.

## The system and how its parts interact

A single management thread runs every function of the native layer. Every microkernel call blocks that thread until it is answered. Nothing in this code runs concurrently with itself (spec §5). So each entry point is one atomic step in the models. What varies between runs is:

- the inputs the managed kernel passes;
- which kernel call fails;
- the addresses the region manager chooses;
- what the companion OS (L4Linux) sends in its handshake.

| Part | Source | What it does |
|---|---|---|
| Memory bootstrap | `glue/main.c`, `glue/init.c`, `kernel/mm.c` (init_*) | Binds the IPC gate and attaches the main-memory pool and the stack-and-heap region (guard page at the bottom). Waits for the companion's handshake, attaches the shared IPC buffer and Linux memory, then enters the managed kernel with the boot parameters. |
| Bump heap + runtime glue | `kernel/mm.c` (gc_malloc), `glue/csharp-rt.c` | Monotonic allocator over the heap extent. The managed runtime allocates objects, arrays and strings from it. |
| Block allocator | `glue/sel4-pa.c` | Power-of-two block allocator. Its free list is threaded through the free chunks. |
| TLS slab and descriptors | `glue/tls.c`, `glue/tls.h` | Slab of 3-entry TLS descriptor tables; set_thread_area encodes a user_desc (fill_ldt) and loads the table into the thread's GDT slots. |
| Task/thread lifecycle | `glue/task.c` | Creates tasks and threads with their pager gates, starts and deletes threads, using capability slots from the L4Re slot allocator. |
| Region flush | `glue/task.c` (fls, split_region, l4api_flush_regions) | Unmaps a range from a child task in batches of aligned power-of-two fpages. |
| Console | `glue/console.c` | Character buffer flushed to the L4Re log. |
| Secure file metadata | `kernel/sfs_md.c` | Checks a file's metadata header (magic, lengths, HMAC over the page signatures) and copies the signatures into a byte array that the runtime allocates. It carries a VCC contract. |

The bootstrap produces the extents the other parts work in: the heap bounds gc_malloc uses, and the boot parameters the managed kernel hands to the block allocator. The managed kernel then calls the lifecycle, TLS, flush and allocation entry points. `sfs_initialize_and_verify_metadata` takes its signature array from the runtime's `silk_new_byte_array`, so it shares the bump heap with every other managed allocation.

## Modules

Every module has:
- its state as VARIABLES;
- one action per entry point, covering the whole function: early returns, error paths and trailing calls;
- `Next` and `Spec`.

Each `MC*.tla` module gives the constants small values for TLC. A definition named `<Something>` placed just before a mapped definition is a mutation of it, used only by the mutation checks; its comment says so.

- **L4Lifecycle**:
  - **State.** The slot allocator (`capFree`), the kernel object bound in each slot (`kobj`), gates mapped into tasks, threads configured and started, and the handles the caller holds.
  - **Actions.** `l4api_create_task`, `l4api_create_thread`, `l4api_start_thread`, `l4api_delete_thread`, `l4api_set_priority`.
  - **Priorities.** `prio` is the scheduling priority of the thread object in each slot. `l4api_set_priority` sets it, and creating or deleting the object in a slot resets it.
  - **Kernel failures.** `n`, the number of kernel calls that succeed, can be anything up to `OkSteps`. A call on `L4_INVALID_CAP` always fails.
  - **Slot allocation.** `l4re_util_cap_alloc` returns a free slot, or the invalid capability when none is left.
- **Sel4Alloc**:
  - **State.** Memory is a function from addresses to words, and the free list is read by following the words (`ChainFrom`).
  - **Actions.** `Init` is `sel4_alloc_new` over the extent. `sel4_alloc_free` splits the block into chunks and links it in at its sorted position. `sel4_alloc_alloc` scans for an aligned, contiguous run, unlinks it and zeroes it.
- **BlockPool**: the abstract specification of the block allocator, from spec §4.1 and the alignment invariant of §8.
  - **State.** A pool of free chunks, the regions the client holds, and the first word of every held chunk.
  - **Steps.** `Alloc` takes a size-aligned block out of the pool and hands it over zero-filled. `Free` puts a held region back. A failed alloc is a stuttering step.
  - **Refinement.** Sel4Alloc maps the pool to the chunks on its free list, the held regions to `owned`, and the data to `mem` on the held chunks. `Sel4ImplementsPool` (`Pool!Spec`) is checked as a PROPERTY.
- **TlsDescriptor**: `fill_ldt`, `LDT_empty` and `desc_empty` as operators on the two descriptor words. Each word is a pair of 16-bit halves, and each bit-field is stored modulo its width. **TlsDescriptorCheck** checks them over every request of a bounded set: a decoder reads the fields back from the words.
- **TlsSlab**:
  - **State.** The slab array is memory. Each slot's first word is the free-list link, as `slab_init` writes it.
  - **Actions.** `l4api_tls_array_alloc` and `l4api_tls_array_free`, and `l4api_set_thread_area`, which models `get_free_idx`, `set_tls_desc` and `native_load_tls` as the GDT copy.
  - **Kernel refusal.** The kernel may refuse a `fiasco_gdt_set`. Its GDT slots for the thread then stay as they were, and `refusedLoad` records the refusal. `native_load_tls` ignores the result, so the call still returns 0. The number of refusals in a behaviour is bounded by `MaxRefusals`.
  - **Error returns.** `-EINVAL` and `-ESRCH` change nothing, so they are stuttering steps.
- **FlushSplit**: `fls`, `ffs`, `split_region` and the batching loop, as pure operators.
  - Addresses are page numbers, because `vaddr &= PAGE_MASK` clears the offset. ffs and fls of a byte address are therefore `PAGE_SHIFT` plus those of the page number.
  - The undefined `1 << (r - 1)` for `r = 0` is modelled by what the x86 shift does: the count is masked to the word width.
- **FlushRegions**: `l4api_flush_regions` acting on the set of pages mapped in a child task.
  - `PageMapped` is the managed pager mapping a page. That code is not in this tree, so it is marked `spec_modelled`.
  - An fpage of order below a page (order -1) is not defined by the code. The kernel removes either no page or every page, chosen nondeterministically.
  - **Kernel refusal.** The kernel may refuse any `l4_task_unmap_batch`. Its pages then stay mapped. `flushed.refused` records which batches were refused. The loop ignores the result and goes on with the next batch.
- **BumpHeap**:
  - **Pointer arithmetic.** Pointers are `PtrBits`-bit unsigned integers.
  - **The bound check.** The undefined pointer overflow in `heap_ptr + size > heap_end` is a nondeterministic choice between the wrapped comparison and the mathematical one.
  - **Actions.** The runtime entry points call `gc_malloc` and then memset the result. A NULL result makes that memset fault. This is recorded as `faulted`.
  - **Layouts.** The sizes of `silk_System_Object`, `silk_System_Array` and `silk_System_String`, and the offset of `first_char`, come from `pinvoke.h` for the 32-bit target.
- **SfsMetadata**: `sfs_initialize_and_verify_metadata` as one action, composed with BumpHeap (it EXTENDS BumpHeap).
  - **State.** `sfs` holds the last call: its request and the outputs it wrote.
  - **Allocation.** The array comes from `gc_malloc` on the shared heap. A NULL result faults in the memset of `__silk_rt_new_array`, so the routine's `return -1` is never reached.
  - **Layout.** The bytes the copy writes are counted with sfs_md.c's own `struct ByteArray`, not the runtime's `struct silk_System_Array` that the allocation used. `ObjectFitsAllocation` therefore also checks that the two layouts agree.
  - **Inputs.** A header is a record. `is_sha1_digest_equal` is its `while` loop (`DigestLoop`, RECURSIVE). The HMAC routine is not in this tree, so it is the constant operator `sfs_calculate_hmac`.
  - **RuntimeSpec.** Interleaves the runtime's own allocations with calls of the routine.
- **SfsContract**: the abstract specification.
  - It is the routine's VCC `ensures` clause, read as a state machine. Each step is a call whose outputs satisfy the clause.
  - SfsMetadata instantiates it with `call <- sfs`. `SfsImplementsContract` (`Contract!Spec`) is checked as a PROPERTY, so TLC shows that the detailed model implements the contract.
- **Console**: `console_putchar` and `console_flush`. The variable `stores` records every index written, so out-of-bounds stores are visible.
- **MemoryBootstrap**:
  - `main` is one step: `expressos_init`, `init_ipc_gate`, `init_mm`, `init_main_memory`, `init_shm` and the boot-parameter layout.
  - Any of the 14 checked calls can fail, and main then returns.
  - On success the region manager picks disjoint superpage-aligned addresses (`Placements`).
  - Sizes are in KiB.

## Runs

| Run | Expect | What it shows |
|---|---|---|
| `l4_lifecycle` | pass (344 states) | With any kernel call failing, the invariants below hold. |
| `l4_slot_leak` | violation | The `create_thread` error path frees slots that still hold a live thread or gate. TLC reaches a free slot with a live object (`NoLiveObjectInFreeSlot`). |
| `sel4_alloc` | pass (2,181 states) | Over every sequence of power-of-two allocs and frees:<br>• the free list stays sorted, acyclic and inside the arena;<br>• no chunk is handed out twice;<br>• every chunk is free or allocated;<br>• the allocator implements BlockPool: each alloc hands out a size-aligned, zero-filled block, and no call writes memory the client holds. |
| `sel4_last_chunk` | violation | `if (tmp)` refuses an aligned run that ends the free list, so an alloc fails while enough free memory exists (`AllocFailsOnlyWhenExhausted`). |
| `tls_descriptor` | pass (2,048 states) | fill_ldt's words decode back to the request, with `l = 0`. |
| `tls_slab` | pass (541,800 states) | Two threads use a 2-slot slab, and the kernel may refuse one GDT load. See the invariants below. |
| `tls_slab_exhaust` | violation | A third thread's alloc returns the address just past the slab array (`TableInSlab`). |
| `flush_regions` | pass (22,528 states) | Ranges that do not start at page 0 are unmapped with the fewest aligned fpages. Each flush removes exactly its pages, except those of the batches the kernel refused. A refused batch neither stops nor shifts the batches after it. |
| `flush_page_zero` | violation | A flush from address 0 emits an order -1 fpage and page 0 stays mapped (`FlushExact`). |
| `runtime_heap` | pass (88,663 states) | Runtime allocations, including the SFS signature arrays, lie inside the heap, do not overlap, and each fits the bytes its layout needs, up to and past exhaustion. Every call of `sfs_initialize_and_verify_metadata` is one that its contract allows (`SfsImplementsContract`). |
| `console` | pass (6,736 states) | Every store is inside `con_buf`, and log plus buffer equal the characters written, in order. |
| `bootstrap` | pass (255 states) | With the handshake the companion sends, the shared layout fits the IPC buffer and the heap is clear of the stack and the guard page. |

Invariants checked by the passing runs:
- **`l4_lifecycle`:**
  - `HandleExclusive`: no slot is both free and held.
  - `SlotConservation`: every slot is free, held or leaked by a failed delete.
  - `ThreadAllOrNothing`: a returned thread is configured, with its gate mapped into its parent.
- **`tls_slab`:**
  - `TablesExclusive`: no table is live for two threads or on the free chain.
  - `TableReflectsOwnWrites`: each thread's table holds exactly what its own calls wrote since its alloc.
  - `InstalledMatchesTable`: unless the thread's last GDT load was refused, the GDT slots equal the table. After a refusal, the next accepted load must restore every entry, including those written while loads were refused. This holds because `set_tls_desc` reloads all three entries. With no refusal possible, a mutant that reloads only the written entry goes unnoticed. With one refusal, TLC catches it.

Every property of a passing run has a mutant in `PROJECT.json`. The mutant is a plausible bug in the mapped code under it, for example:
- a dropped guard;
- an off-by-one in `fls`;
- the cursor not reset after a flush;
- a missing memset.

TLC reports that property violated under the run's own configuration.

## Findings

These are listed in `PROJECT.json`, each with its violation run:

- **`l4_slot_leak`** (`task.c:85`): the err path returns slots whose objects were created but never deleted. A later `cap_alloc` hands out a slot that still names a live thread or gate. This is the aliasing that spec §9 warns against.
- **`sel4_last_chunk`** (`sel4-pa.c:76`): the contiguity loop leaves `tmp` at the successor of the run. A run with no successor is rejected, so the whole free memory, for instance, can never be allocated in one request.
- **`tls_slab_exhaust`** (`tls.c:30`): the last slab link is `array + sizeof(array)`, not NULL. The N+1-th alloc returns memory past the array, and `l4api_tls_array_alloc` then memsets it.
- **`flush_page_zero`** (`task.c:162-166`): `__builtin_ffs(0)` is 0, so `r = 0`. The fpage gets order -1 and the shift is undefined.

Further defects the models reach outside the checked bounds are recorded as hazards, each with the property that catches it:
- the pointer wrap in `gc_malloc`;
- the 32-bit `element_size * length` overflow;
- non-power-of-two sizes in `sel4_alloc_alloc`;
- a handshake that declares a buffer smaller than the layout assumes.

## Bounds and why they suffice

- **Lifecycle:** 5 slots. That is enough for a task, two threads (two slots each) and slot exhaustion, under slot symmetry. Every failure point of every function is enumerated.
- **Block allocator:** a 6-chunk arena starting at an address that is not aligned to 2 or 4 chunks, with sizes of 1, 2 and 4 chunks. So alignment, contiguity, sorted insertion and splitting all occur.
- **TLS slab:** 2 slots.
  - The pass run has 2 threads, so every alloc succeeds and a freed slot is reused. With 3 threads the slab is exhausted: that is the violation run.
  - Requests: the clear pattern and two descriptors. Indexes: -1 (allocate), 6 (in range) and 9 (out of range).
  - `MaxRefusals = 1`. A single refused load, followed by an accepted one, is the case that tells a whole-table reload from a one-entry reload. Allowing more refusals makes the run grow past its time budget without adding a case.
- **Flush:** 8 pages with batch capacity 2. Ranges then need blocks of 1, 2 and 4 pages and several batches, and every subset of mapped pages is reachable. Every subset of a flush's batches may be refused.
- **Heap:** 8-bit pointers and a 48-byte heap at 64. The requests exhaust the heap within a few steps.
- **SFS:** `PAGE_SIZE` is scaled to 44, so the new-file array is 8 bytes.
  - Headers: 4- and 8-byte signature areas; the magic right or wrong; the HMAC right or wrong in its first or last byte.
  - `header_length`: 39 (below the header), 40 and 44.
  - `size`: 0, 43 (below the minimum) and 44.
  - So every exit of the routine occurs, and an allocation fails once the heap is used up.
- **Console:** a 4-byte buffer and 7 characters. That covers two full-buffer flushes and explicit flushes at every cursor position.
- **Bootstrap:** 5 placements of the four attachments, two Linux memory sizes, and every failure point.

## Fairness

All properties are safety properties: invariants and action properties. No liveness is claimed, so no fairness is assumed. Nothing in this code waits for another party except `l4_ipc_wait` in `init_shm`, which blocks forever (`L4_IPC_NEVER`) by design.

`CHECK_DEADLOCK FALSE` is set in two places:
- **runtime_heap:** the store through NULL ends the process.
- **bootstrap:** main runs once.

## Not modelled

- **`l4api.c` wrappers:** each forwards one IPC, UTCB, yield or clock call to the kernel and returns its result. They keep no state of their own.
- **The return value after an ignored kernel result:** `fiasco_gdt_set` and `l4_task_unmap_batch` may be refused in the model. What still holds is checked: the next load restores the table, and the other batches unmap exactly their pages. That the caller is told 0, or nothing, when the kernel refused would be a violation run of its own. Each run of the project already asks a different question.
- **`printk.c`, `panic.c`:** formatting and output only.
- **`sfs_calculate_hmac`:** declared in `sfs_md.c` but defined outside this tree; it is a parameter of the model.
- **`vsnprintk`:** not in this tree, so the length `printk` passes to `l4re_log_printn` cannot be modelled from the source.
- **`pending_reply_count`:** only its declaration is in this tree (`linux.h`). The unlocked updates are in the managed kernel and the companion OS.
- **`venus.h`:** declarations of the companion OS message layouts. No code in this tree reads or writes them. `pinvoke.h`'s runtime structures are modelled as the sizes BumpHeap uses.
