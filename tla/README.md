# A verification project for gcpp

gcpp is a copying garbage collector for C++20.  A program holds `SafePtr`s;
their targets live in one of two spaces of a heap; a collection copies what is
still reachable to the other space and redirects the pointers, either on the
caller's thread (`SerialGCPolicy`) or on a worker thread beside the program
(`ConcurrentGCPolicy`).  This directory holds TLA+ modules translated from the
C++ sources, TLC configurations that check them on small instances, and proofs
that TLAPS checks.

`PROJECT.json` maps every definition to the lines it stands for, and lists the
runs, the hazards, the findings and the theorems.

## 1. The system

| Part | State | Operations | Hard about it |
|---|---|---|---|
| `CopyingCollector` (`copy_collector.*`) | two spaces, `m_nexts`, `m_space_num`, `m_metadata`, `m_collect_result` | `alloc`, `collect`, `async_collect`, `forward_ptr`, `copy`, `reserve_space` | collection beside mutators; a lock held for parts only; a collection that throws |
| Locking policies (`concurrent_gc.h`) | a mutex, a `Task` | `lock`, `do_with_lock`, `do_collection` | one code, two schedules |
| `Task` (`task.*`) | queue, mutex, condition variable, stop token | `push_work`, `do_work`, destructor | lost wake-ups, tasks dropped at the end |
| Front end (`safe_alloc.*`) | a global collector | `GC::alloc`, `GC::collect` | test of free space, then use |
| `SafePtr` (`safe_ptr.h`) | a `FatPtr` (and a size) | make, copy, dereference, index, clear, clone | reading a pointer and using it are two steps |
| `FatPtr`, `scan_memory` (`gc_base.h`) | header word and tagged pointer | atomic load, update, compare-exchange, test; conservative scan | torn reads, boundary of the scan |
| `GCRoots` (`gc_scan.*`) | stack range of every thread, global roots | `update_stack_range`, `get_roots` | reads the stacks of running threads; ranges of ended threads |
| `seq_cst_cpy` (`concurrent_gc.cpp`) | none | a copy in 8-, 4-, 2- and 1-byte accesses | writes past the end; not atomic as a whole |
| Memory protection (`mem_prot.*`) | registered heaps, protection of pages | `register_heap`, fault handler, `RegionProtection` | constructors that register at once, table limit, shared pages |
| `ThreadCounter`, concepts, `AlignedAllocator` | | | debugging aid, compile-time only, unused |

How they interact: `SafePtr::make` calls `GC::alloc`, which calls
`CopyingCollector::alloc` and, when there is little room, `collect`.  `collect`
flips the spaces under `m_lock` and hands a lambda to the policy, which runs it
inline or pushes it to `Task`.  The lambda asks `GCRoots` for the places that
look like a `FatPtr`, forwards each of them with `forward_ptr` and `copy`, and
removes from `m_metadata` what was not reached.  It shares with the mutators
the atomics `m_nexts`, the map `m_metadata` (under `m_lock`), the memory of all
objects (without any lock) and the pointers themselves (through
`FatPtr::compare_exchange`).  A caller of `collect` that finds a collection
under way waits for the shared future `m_collect_result`.

What makes each part correct, and what may go wrong, is listed under `hazards`
in `PROJECT.json` with the line where it bites.  In short: the program must not
be able to tell that objects move; reservations must not overlap; one
collection at a time, into a space that is empty; what is allocated during a
collection survives it; every collection ends and every call returns; the
worker carries its tasks out once each, in order, and can be stopped; what a
collection uses outlives it; `get_roots` misses no variable of a frame it has
been told of, and reads no memory that is not there; no element of a moved
array is torn, and a copy writes to nothing but the copy; the handler knows
every heap that was registered.  Not all of this is true of the code: section 3
lists where it is not.

`generational_gc.h`, with `FinalGenerationPolicy`, is included by the sources
and is not in the repository.  The model takes `need_promotion` as true, which
makes the collector copy every live object, and `init`, `collected` and
`promote` as having no effect on the collector's state.  The policy object
itself, `m_gen_policy`, is the one member a collection uses that is destroyed
before the worker is joined; `Teardown` says so, section 3 what follows.

## 2. The modules

| Module | Models | Role |
|---|---|---|
| `SpaceReservation` | what `reserve_space` promises: one atomic step | abstract |
| `ReserveSpace` | `reserve_space`, `calc_alignment_bytes` and the `compare_exchange` helpers, one access per step | implements `SpaceReservation` |
| `ReserveSpaceProofs` | | proofs for any callers, requests and limits |
| `WorkQueue` | what a worker thread promises | abstract |
| `Task` | `push_work`, `do_work`, `~Task` | implements `WorkQueue` |
| `Teardown` | the destruction of a `CopyingCollector`, member by member | extends `Task` |
| `TaskProofs` | | proofs for any pushers and tasks, about `Teardown` too |
| `ManagedHeap` | what a program sees of its heap | abstract |
| `CopyingCollector` | the collector, its policies, the front end and the program's use of pointers | implements `ManagedHeap` in the runs below |
| `CopyingCollectorProofs` | | proofs for any heap, threads, requests and policy |
| `OneMutatorProofs` | | extends it: proofs for one mutator beside the collection, either policy |
| `SerialProofs` | | extends that: proofs for `SerialGCPolicy` |
| `GcRoots` | `update_stack_range`, `get_roots`, `scan_locals` and `scan_memory`, with the program's threads, stacks and frames | |
| `GcRootsProofs` | | proofs for any threads, stacks, frames and red zone |
| `ArrayMove` | `seq_cst_cpy` and the redirection in `copy`, beside a program that uses a `SafePtr<T[]>` | |
| `ArrayMoveProofs` | | proofs for any arrays and number of writes |
| `MemProt` | `register_heap`, `segfault_handler`, `RegionProtection` | |
| `MemProtProofs` | | proofs for any table, heaps, threads, regions and pages |
| `MCReserveSpace`, `MCCopyingCollector`, `MCGcRoots`, `MCArrayMove`, `MCMemProt` | | values for TLC |

`CopyingCollector` uses the two smaller components by what they promise: a
reservation is one step (`ReserveSpace` refines exactly that), and `tasks` is
the queue of `WorkQueue`, in which a task is over when its future is ready
(`Task` keeps it at the head of `m_tasks` a little longer; `TasksInOrder`
relates the two).

### State and actions of `CopyingCollector`

* `m_nexts`, `m_space_num`, `m_metadata`, `m_collect_result` are the members of
  that name.  `m_collect_result` is `"invalid"` before the first collection.
* `tasks` is the queue of the worker thread.
* `mem` is the contents of the pointer variables on the stacks (`Slots` of each
  thread) and of both spaces.  What a cell is depends on what the heap holds.
  Where objects hold pointers, a cell is a `FatPtr`, which is what `scan_memory`
  and a compare-exchange work on; sizes and alignments are then whole cells, so
  that an access of `seq_cst_cpy` stays inside one, and `Word` is 1.  Where
  objects hold plain data only (`WordAssumption`), `Word` cells are the 8 bytes
  of its widest access, and an object may be smaller than that.
* `CopyWord` is one access of `seq_cst_cpy`.  As in the code its width depends
  on the address of the source alone (`Width`): the last one may write behind
  the copy (`Overrun`), where a mutator may have an object by then.  What is
  written behind the whole space is not kept track of.
* `th[t]` is where mutator `t` is in `GC::alloc`, `alloc`, `collect` or in the
  use of a pointer: `pc`, the request, where it goes on after `collect` (`ret`),
  and the pointer it holds in a register.
* `w` is the worker in the lambda of `async_collect`: `roots` not yet taken,
  the `stack` of `forward_ptr` (of locations, as in the code, not of values),
  the location and value being forwarded (`p`, `ptr_val` in the code), the copy
  and a loop counter.  `visited` is the map of that name.

A step is one critical section of `m_lock`, one access to an atomic, or one
access to memory; so `alloc_attempt` is `Reserve` (or `NoRoom`), then
`Emplace`, then `Construct`, with anything in between.  With `Serial` the same
actions run, but the mutator stays in `"inline"` until `Finish`.

Abstractions, each of which leaves out something the properties do not tell
apart or which is named as a gap:

* the two loads of `free_space` are one step;
* the roots are found in one step and are all stack variables; they are taken
  in any order (the code's order depends on addresses and on a hash map); the
  globals and `extra_roots` are empty;
* `get_space_num` at the start of `copy` is left out: `forward_ptr` has just
  excluded the new space, and an object's space does not change;
* `ThreadCounter` is left out: it is created and destroyed inside the critical
  section of `collect` and cannot exceed one;
* `m_collect_result` is read in one step.  The code reads it outside `m_lock`
  while it may be assigned under it, a data race whose worst outcome, the use
  of a freed shared state, is outside the model;
* destruction of the collector is in `Teardown`, not here.

### The other modules

`GcRoots` has an address for every word.  Stacks grow downwards; a frame is its
saved `rbp` and the two words of one `FatPtr` variable.  `call[t]` is where
thread `t` is in `update_stack_range` or `get_roots`, with the `base_ptr` and
the stack pointer that were read before the lock was taken; `w` is the scan
under the exclusive lock (`todo` is the rest of the loop over
`m_stack_ranges`, `a` and `to` the bounds of `scan_memory`).  A step is one
region under `m_mutex`, one word looked at, or one thing a program does to its
stack: push, pop, construct or overwrite a variable, end with its stack unmapped
or kept.  `announced` and `must` are history: which frames a thread has
announced, and which variables of such frames have stayed where they are since
the scan took the lock.  The contents of a word are only whether a `FatPtr`
begins there.  A frame that is popped while its range is recorded leaves its
words behind, as on a real stack, so the scan may report more than there is.

`ArrayMove` has one variable per byte, holding the number of the write it comes
from.  `CpyLoad` and `CpyStore` are the two memory accesses of one round of
`seq_cst_cpy`; `Swing` is the compare-exchange in `copy`.  The program loads
`m_ptr`, and then stores or reads through what it has loaded; `clone` does so
for every element.  What lies behind the array and behind the copy is modelled
too, since the last access may reach it.

`MemProt` has the table and its count as separate variables, written in the
order of the code, an entry half by half (`std::pair` is not assigned at once).
Reading beyond the table gives any pair of `Behind`.  A write that faults runs
the handler, which returns, so that the write is tried again, or aborts.
`Protect`, `lock`, `unlock`, `Move` and `Destroy` are the operations of
`RegionProtection` on whole pages.  `Asserts` is `FALSE` for a build without
assertions: `sigaction` is called inside an `assert`, so such a build never
installs the handler.  `HandlerKnows` is stated for builds with assertions.

`Teardown` adds to `Task` the set of members destroyed so far, in the order the
declarations imply; the destructor of `Task` is one of them.  `CollectionUses`
are the members that the lambda of `async_collect` reads or calls, directly and
through `forward_ptr`, `copy` and `alloc_no_constraints`.  `m_gen_policy` is
one of them and the first to be destroyed.

## 3. What the runs show

| Run | Bounds | Shows |
|---|---|---|
| `reserve` | two callers, limits 3 and 6, sizes 1-2, alignments 1, 2, 4 | the compare-and-swap loop is one atomic step (`ReserveIsAtomic`); disjoint, aligned, below the limit; every call returns |
| `task` | two pushers, three tasks, any wake-ups, twelve members | `TasksInOrder` (refinement), `NoSleepOnWork`, every future settles, the destructor works outside one window; all members a collection uses but `m_gen_policy` outlive it (`MembersAlive`) |
| `serial_data` | one thread, two variables, 3 of 6 cells of half a word, objects of one and two cells, copies of pointers and data writes | the program cannot tell that objects move (`CollectionInvisible`, a refinement of `ManagedHeap`), no write is lost, the old space is emptied |
| `serial_field` | one thread, two variables, 4 of 8 cells, objects of two cells, pointers between objects | the traversal is complete for what `scan_memory` reports |
| `concurrent_one` | one mutator through `GC::alloc` beside the worker, one variable, 2 of 4 cells of half a word, objects of one and two cells | no variable loses its object, also after a collection that throws; objects never share a cell, although mutator and collection reserve in the same space and failed collections leave objects behind; the program sees nothing of a collection but the contents of an object that a copy overruns (`OnlyOverrunShows`); every collection ends and every call returns |
| `concurrent_two` | two mutators, one variable each, 1 of 3 cells | one collection at a time, a flip leads into an empty space, no object of the space in use is dropped |
| `roots` | a mutator with two frames and a scanner, two places for stacks of 8 words, a red zone of 1 | `get_roots` misses no variable of an announced frame, reads memory that is not mapped only after a thread has ended, and always returns |
| `array_move` | six arrays with elements of 8, 4, 2 and 1 bytes at the alignments that differ, three writes | no element is torn, the copy overruns by less than 8 bytes, only writes behind the copy loop are lost (`OnlyLateWritesLost`) |
| `mem_prot` | table of two entries, three heaps, two constructors, three registrations, one writer, two overlapping regions, two objects | the handler never aborts for a registered heap, pages are given back, a write to a protected page goes through |

The configurations that TLC is to refute are below, under the disagreements
they show.

Why the bounds are enough: the collector's decisions depend on whether a
request fits below one of two limits, on whether two objects overlap, on
whether a pointer is null, managed, already moved or in the new space, and on
how far the other side has got.  Three cells with a limit of one already give
every flip a space with a copied object, a new object and the last cell, at
which a collection fails; two variables give an object shared and not shared,
moved and not yet moved; two cells per object give one cell copied and one not,
and one scanned and one not; two mutators give two decisions to collect.  Four
cells of half a word add a copy that overruns, and room for a new object behind
it.  None of the runs bounds the number of allocations or collections: the
state space is finite because the heap is.

`concurrent_one` has one variable, because a second one makes the state space
twenty times as large.  The object an overrun reaches is then the one being
allocated, or the one the variable has been given since the collection read it.
Two variables beside a concurrent collection are in `concurrent_two`, and any
number of them in the theorems `RootsStayManaged` and `AloneOverrun`.

In `roots` the stacks of the two threads can swap places, a thread can start
again on what another has left, and frames can be announced in either order;
two frames give one announced and one not.  In
`array_move` every width is used, each as the first and as the last access, and
some sizes are no multiple of 8; `MaxWrites` lets one element be written before,
during and after the copy.  In `mem_prot` the third registration finds the table
full, and one page belongs to both regions.

Fairness (`FairSpec`): the operating system runs every thread, so a call that
has begun goes on and so does the worker.  Nothing is assumed of mutators
beginning a call, of which root comes first, or of spurious wake-ups of the
condition variable.  In `GcRoots` a scan that has begun goes on, and a thread
that waits for `m_mutex` gets it sooner or later although others keep taking it
(strong fairness).  The standard does not promise the latter: a lock that
prefers readers starves a writer while calls of `update_stack_range` overlap
without end, which programs that allocate now and then do not do.  In `MemProt`
the writer runs and a protection is destroyed in the end, as it is at the end of
its scope.  In `Teardown` a destructor that has begun goes on.

Deadlock is not checked where the system really stops: in `task` (the collector
is destroyed), in `roots` and `ended_thread` (a scan that reads unmapped memory
kills the program) and in `mem_prot` and `shared_page` (so does the handler).

### Where the code and its documentation disagree

Three runs are expected to be refuted; `findings` in `PROJECT.json` quotes the
lines that say otherwise.

* `stale_members` (`MembersForwarded`): `forward_ptr` redirects the members of
  the object left behind.  The copy, made before that, keeps addresses of the
  old space.
* `aborted_collection` (`NoHeapCorruption`): `alloc_no_constraints` refuses an
  object that ends at the end of the space, `reserve_space` does not.  The
  collection ends in an exception, and later allocations meet the objects it
  left behind.
* `two_flips` (`MetadataDisjoint`): an object is entered into `m_metadata` after
  the critical section that checked for overlaps (`copy_collector.cpp:206`).
  After two flips in between, another mutator has been given the same room.
  With one mutator this cannot happen (`concurrent_one`).

Eight more configurations are kept beside the runs, to reproduce what else the
code does differently from what is said of it.  TLC refutes the property of
each in seconds (`tlc -config copy_overrun.cfg MCCopyingCollector`), and a run
or a theorem states what is left.

| Configuration | Property | What happens | What is said | What is left |
|---|---|---|---|---|
| `copy_overrun` | `CopyTouchesOnlyCopy` | the last access of `seq_cst_cpy` writes up to 7 bytes behind the copy (`concurrent_gc.cpp:55`), into an object a mutator has been given since | "Copies memory from src to dst", `size` bytes (`concurrent_gc.h:76`) | `OnlyOverrunShows`, `OverrunBounded` |
| `lost_write` | `WritesKept` | what a mutator writes to an object behind the copy loop (`copy_collector.cpp:262`) stays in the old object | the assertion in `mt_test.cpp:59`; the comment in `copy` knows of it | `WritesKept` for the serial policy, `OnlyLateWritesLost` |
| `copied_pointer` | `RootsManaged` | a pointer copied during a collection from a variable not read yet into one already read (`copy_collector.cpp:324`) keeps the old address | what is collected is garbage (`collector.h:30`) | `RootsManaged` without copies |
| `dropped_new` | `AllocatedManaged` | a collection that another mutator starts removes an object whose pointer `alloc` has not returned yet (`copy_collector.cpp:193`): it is in registers, or in a frame below the announced range | `alloc` allocates a new object (`collector.h:20`) | `CurrentSpaceKept` |
| `last_member` | `MembersSurvive` | a pointer that ends where the object ends is not looked at (`gc_base.h:333`), and what it refers to is collected | `end` is exclusive (`gc_base.h:322`) | `TraversalComplete` |
| `wide_alignment` | `EveryCallReturns` | padding is counted in 8 bits (`copy_collector.cpp:174`): for an alignment of 512 the loop never ends | space and padding are reserved for any alignment (`copy_collector.h:159`) | the alignments of `reserve` |
| `ended_thread` | `ScanReadable` | the range of a thread that has ended is scanned when its stack is unmapped (`gc_scan.cpp:126`) | memory is readable (`gc_base.h:318`) | `FaultOnlyAfterEnd` |
| `shared_page` | `SharedPagesProtected` | unlocking one region takes the protection off a page of another that is locked (`mem_prot.cpp:119`) | all pages of a region are protected (`mem_prot.h:17`) | `OwnPagesProtected` |

Three more things were met while modelling, of which the repository says
nothing; the models contain them.

* With objects in the heap, an allocation that does not fit throws
  `bad_optional_access` from `check_overlapping_alloc` (`copy_collector.cpp:380`)
  instead of collecting (`NoRoom`).
* `~Task` notifies without the mutex (`task.inl:30`).  A worker between its test
  of the queue and its sleep misses it, and the join never returns.
  `StopsOutsideWindow` states what is left.
* `m_gen_policy` is declared after `m_lock` (`copy_collector.h:43`), and so is
  destroyed before the worker is joined; a collection that still runs uses it
  (`copy_collector.cpp:192`, `301`, `339`).  `MembersAlive` states that it is the
  only such member.  What the use does depends on a header that is missing.

## 4. What is proved

The proofs use the assumptions the modules declare and no others: the limit for
mutators is positive and at most half of a space, requests have a size and a
positive alignment, a cell smaller than a word holds no pointer and a space is
whole words (`WordAssumption`), constructors write data or null, with `SerialGCPolicy`
there is one mutator, a variable on the stack, an address and a value are
different things (`NameAssumption`), an array is aligned for its elements, and
no registered heap begins or ends at address 0.  Where a theorem holds for some
programs only, they are its hypotheses, which are named below.

Every safety invariant the passing runs check is stated by a theorem, and so
are the refinements and action properties apart from liveness.

`ReserveSpaceProofs` — for any number of callers, any requests and limits:
`TypeCorrect`, `Disjointness`, `Placement` and `Linearisability` (every step of
the loop is a step of `SpaceReservation` or a stutter).  The invariant relates
each caller's local `next` to the shared index: it is never ahead of it, and
while a caller pads, everything between `next` and its position is unaligned,
which is why the padding found is the smallest one.

`TaskProofs` — for any pushers and tasks: `NeverAsleepOnWork` and `Refinement`
(`Spec => TasksInOrder`).  The invariant adds that the queue is empty while the
worker is on its way to sleep, since it holds the mutex there, and that all that
is queued was pushed, so that running a task changes no other future.
`TypeCorrect` is its first part.  `MembersOutlive` is about `Teardown`: the Task
of a collector takes no steps but its own there (`TeardownIsTask`), and until it
is joined at most the three members declared after `m_lock` are gone
(`LifeInv`), of which a collection uses `m_gen_policy` only; a worker that is
joined has left its loop.

`CopyingCollectorProofs` — for any heap size, mutators, requests and either
policy: `TypeCorrect`, `OneCollection`, `InactiveReset` and `CurrentSpace`.
`TypeOK` is not inductive alone: that a copy and a scan stay inside the heap
needs that every managed object has cells and lies in its space (`ObjectInv`),
that the object being moved is still managed and is in the old space
(`WorkerInv`; mutators only add objects, because `emplace` keeps what is there),
and that what a mutator has reserved lies below its limit (`ThreadInv`).
`SingleCollection` ties the queue, the future and the worker together: it is
what makes the worker's target the space in use, hence `InactiveSpaceReset` and
`CurrentSpaceKept`.  TLC checked the whole invariant on the configurations above
before it was proved.

`GcRootsProofs` — for any threads, places, stack sizes, frames and red zone:
`Completeness` and `ReadableMemory`.  `AnnouncedFound` follows from
`ScanInv`: a variable the scan must find has been found, lies ahead of it in the
stack it is in, or in the range of a thread still to be scanned.  When the scan
begins that needs `CoverInv` (the entry of a thread covers the frames it has
announced), which `Widened` keeps because the start of a range never shrinks
and because a thread that is inside `update_stack_range` has not left the frame
it announces (`CallInv`).  `FaultOnlyAfterEnd` needs `RangeInv` beside it: while
no thread has ended, every recorded range, with its red zone, lies in the stack
its thread runs on.

`MemProtProofs` — for any table size, heaps, threads, regions and page size:
`HeapsKnown` and `Released`.  That the handler finds every heap known at the
fault (`HandlerInv`: it has not gone past the heap's entry) needs that entries
stay as they are once written.  They do because an entry is written by one call
only, and what that call has not written yet is zero (`SlotInv`), so that no
half-written entry looks like a heap; and an entry that does is one whose
handler is installed or about to be (`EntryInv`, `RegInv`).  Here the module
assumes that no heap begins or ends at address 0.  `PagesReleased` is inductive
together with the types of the objects (`ObjectInv`).  `PagesHeld` needs that
two objects never have the same region (`OwnerInv`: a moved object gives its
region away), so that nobody else changes the pages a region has to itself
(`LockInv`), and that rounding the start down and the length up covers every
page with a byte of the region (`PagesCovered`).

`ArrayMoveProofs` — for arrays of any length, at any address that is aligned
for elements of 1, 2, 4 or 8 bytes, and any number of writes: `NoElementTorn`,
`LittleOverrun` and `OtherWritesKept`.  An access of the width the alignment
allows begins and ends between two elements (`Access`, `LoopInv`), so every
element is copied, in the register, or not reached yet (`Places`), and each of
the three holds whole elements (`WholeInv`).  `WantInv` says where the last
value written is: in the old object as long as anybody uses it, and in the
register and the copy but for the late elements.

`OneMutatorProofs` — for one mutator (`OneMutator`), any heap, requests,
operations and either policy: `ObjectsApart` and `OldSpaceCleared`.  The
invariant `DInv` adds to `MetadataDisjoint` that what the mutator and the
collection have reserved and not yet entered lies below the next free index and
apart from each other (`PendingInv`), and that what has been moved is gone from
the old space while its copy is managed (`MovedInv`).  With a second mutator
`ObjectsApart` is false (`two_flips`).
For mutators that moreover copy no pointers and store none in objects
(`Ops` without `"copy"` and `"field"`), `RootsStayManaged`: what a variable
leads to is managed, or has been moved and the variable is still to be
forwarded (`PtrInv`: `LiveInv`, `ForwardInv`, `RootsInv`).  A collection that
throws leaves variables that were not forwarded; they are safe since no object
is in two variables (`AloneInv`), so none leads to one that has been moved.
For the same mutators, when they write no data either, `AloneOverrun` states
`OnlyOverrunShows` for any `Word`: the target of a variable is looked up through
`visited`; a copy equals what it is copied from until the pointer is redirected
(`CopiedInv`), since the cells already copied lie before the access and nothing
else overruns them; so no step of the collection shows but an access that
overruns (`CollectionView`, `CopyWordView`), and every step of the mutator is
what the abstract heap offers or no step (`MutatorView`).  With `Word = 1` no
access overruns, and `AloneInvisible` is the refinement of `ManagedHeap`.
Neither property could be had for copies of pointers or writes of data:
`copied_pointer` and `lost_write` refute them.

`SerialProofs` — for `SerialGCPolicy` (`Serial`): `TraversalReachesAll`, for
all operations.  `TravInv` says that every member reported of an object that
has been scanned is settled: it leads to nothing that is to be moved, or it is
on the stack of `forward_ptr`, or it is being forwarded.
`NoOverlapFound` and `CollectionsSucceed` assume also that sizes are multiples
of their alignments (`AlignedRequests`, which C++ guarantees of `sizeof` and
`alignof` and of arrays).  The invariant (`CapacityInv`) counts cells: objects
in use fill at most half of a space, and a copy with its padding takes less
than twice its size, so whatever survives fits.  Hence no collection is given
up, and no object is left in a space that is used again.  It follows that
variables are always forwarded, so `SerialInvisible` and `SerialWritesKept`
need no `AloneInv`: pointers may be copied and data may be written.  They hold
for any `Word`: while the only mutator waits, the copy being made is the last
object of its space (`LastInv`), so what is behind it belongs to nobody
(`NothingClobbered`).  Their last hypothesis is that no pointers are stored in
objects (`"field"`): with them the refinement is false (`stale_members`).

Every invariant was checked by TLC on the configurations above before it was
proved.

## 5. What is only model-checked

* Liveness (`EveryCallReturns`, `FuturesSettle`, `StopsOutsideWindow`,
  `CollectionEnds`, `CallsReturn`, `WriterProceeds`): the prover does not reason
  about fairness.
* What forwarding does with pointers stored in objects beyond `TraversalReachesAll`
  (`serial_field`; see `stale_members` and `last_member`), and everything that needs two mutators
  beyond `CopyingCollectorProofs` (`concurrent_two`).

## 6. Not modelled

* The generation policy: `generational_gc.h` is not in the repository.
* `ThreadCounter`, the compile-time concepts and the unused `AlignedAllocator`.
* The search for globals (`scan_globals`), which reads `/proc/self/maps` once,
  when the instance is made.  That is before the first pointer is stored in a
  global, since `alloc` makes the instance; what is found depends on the
  contents of the process image.
* The bits of a `FatPtr`: the tag and the header are taken as telling a pointer
  from anything else, which on a real stack they do only almost always.
* `mprotect` that fails, and the move assignment of `RegionProtection`, which
  calls itself through `std::swap` without end and is used nowhere.
* A `SafePtr` to an array set to `nullptr`, which keeps its size.
* The data race on `m_collect_result`, as said in section 2.

## 7. Plan

1. `FatPointer`: header and pointer words, `test_ptr` as two loads,
   `compare_exchange`; what a reader can see of a pointer being replaced.
2. The collector with what `GcRoots` promises in place of its `Roots`, and with
   `Task` in place of its queue.
3. Proofs: which objects stay disjoint with several mutators (those whose
   entry did not wait for two flips), and what holds of members in objects
   between two collections.
