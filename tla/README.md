# The Verona runtime and its FUSE filesystem in TLA+

The repository holds three things. `verona-rt` is a fork of the Verona runtime:
behaviours that are scheduled on *cowns* (concurrent owners) with `when`, a work-stealing
thread pool under it, reference counts, regions and immutables for the data, and libraries over it
(notifications, noticeboards, promises, epochs). `verona-rt/test/func/hello_cpp` is the
program of the thesis: an in-memory filesystem behind libfuse, whose inodes and
data blocks are cowns and whose requests are behaviours. `StackFsOpt` is the multi-threaded
pass-through filesystem it is measured against. This directory specifies
the core of the three, checks the specifications with TLC on small
instances, and proves the main results about the runtime with TLAPS for all instances.

## 1. Inventory

Paths are relative to `src/verona-rt/src/rt` (runtime) and
`src/verona-rt/test/func/hello_cpp` (filesystem).

| component | state | operations | what makes it correct |
|---|---|---|---|
| **Behaviour scheduling** `sched/behaviourcore.h`, `sched/behaviour.h` | `Cown::last_slot` (tail of a chain), `Slot::status` (wait / ready / next behaviour), `exec_count_down`, the cown's strong count | `schedule` (phase 1: exchange every tail in address order; phase 2: mark ready; `resolve`), `invoke`, `release_all`, `Slot::release` | a behaviour has all its cowns to itself; it is run exactly once, after its `when` has returned from its last access; overlapping `when`s are ordered the same way on every cown; no deadlock; no access to a freed behaviour; one strong count per chain |
| **Cown reference counts** `sched/shared.h`, `object/object.h` | `rc` with a closed bit, `weak_count` | `acquire`, `release`, `weak_acquire`, `weak_release`, `acquire_strong_from_weak` | contents live while a strong reference exists, memory while any exists; collected and freed once; wait-free |
| **Scheduler queue and cores** `sched/mpmcq.h`, `sched/core.h` | intrusive list: `back`, `front`, `next_in_queue` | `enqueue` (exchange, then link), `enqueue_front`, `dequeue`, `nothing_old` | nothing lost or run twice; never empty; a core dies with only its token |
| **Thread pool** `sched/threadpool.h`, `sched/schedulerthread.h` | `next_work`, `pause_epoch`, `unpause_epoch`, `active_threads`, `external_event_sources`, `teardown_in_progress` | `get_work`, `steal`, `schedule_fifo`, `schedule_lifo`, `pause`, `unpause`, add/remove event source | no lost wake-up; everything scheduled runs; teardown only when nothing is left |
| **Scheduler lock** `sched/threadsync.h` | three-state lock, list of waiters, a semaphore per thread | `lock`, `unlock`, `lock_for_unpause`, `pause` | a wake-up that meets a held lock is passed on; one wake per sleep |
| **Notifications** `sched/notification.h` | a status word of four values, a behaviour whose slot is used again and again | `notify`, the behaviour's end, destruction | a notify is followed by a whole run; never two runs queued |
| **Promises** `cpp/promise.h` | a cown whose first slot belongs to the writer | `fulfill`, drop, `then` | readers run after the promise is settled, and then always |
| **Epochs** `sched/epoch.h`, **asymmetric lock** `ds/asymlock.h` | global epoch, one epoch and one lock per thread, delayed-decrement lists | use and release of an epoch, refresh, rejoin, advance, ejection | what is retired is not freed while a reader of its epoch is inside |
| **Noticeboards** `sched/noticeboard.h` | content pointer | `update`, `peek` | `peek` never touches freed content |
| **Freezing, immutables** `region/freeze.h`, `region/immutable.h` | headers used as ring links, union-find and counts | `Freeze::apply`, `acquire`, `release`/`free` | the count of a component is the number of references into it; freed once, nothing leaked |
| **Trace and arena regions** `region/region_trace.h`, `region/region_arena.h`, `region/region_api.h` | rings of objects through their headers, arenas, additional roots | create, alloc, merge, swap_root, gc, release | an object stays until its region or its roots let go; finalisers see the region |
| **Reference-counted regions** `region/region_rc.h` | a count and a colour per object, the Lins stack | incref, decref, `gc_cycles`, release | counts equal references; cycles go, nothing else |
| **Remembered set, external references** `region/rememberedset.h`, `region/externalreference.h`, `ds/hashmap.h` | two hash maps per region | insert, mark, sweep, merge, discard; create, find, erase | what the region refers to outside is counted once; a reference is found while its object lives |
| **File data** `RegInode.cpp`, `Block.cpp` | attributes of the inode, map of block cowns, block buffers | read, write, truncate, fallocate | the answers are those of one sequential file; every request answered once |
| **Namespace** `FileSystem.cpp`, `DirInode.*`, `Inode.*` | directory entries, `krefs`, `nlink`, tables of inodes | lookup, create, mkdir, unlink, rmdir, rename, forget, ... | an inode lives while named or known to the kernel; every request answered once |
| **Session loop** `my_fuse_loop.h`, `main.cpp` | one receive buffer | receive, dispatch | data are not reused while a behaviour needs them |
| **Comparison filesystem** `StackFsOpt/main.c` | hash table of nodes (linear hashing), lookup counts | lookup, create, unlink, forget, and requests that use a node | a node is found under its name and lives while the kernel knows it |

`PROJECT.json` also lists the parts with nothing to model (logging, statistics, platform layer,
vendored libfuse).

How they interact: a filesystem handler, called by the one session thread, ends in
`when(cowns) << body`. `when` builds a `BehaviourCore` and calls `schedule`, which enqueues
slots on the cowns and moves or copies the callers' strong counts. The last `resolve` gives the
behaviour's work item to the thread pool (`Scheduler::schedule`, FIFO from a scheduler
thread, LIFO round-robin from a thread outside such as the session loop). A
scheduler thread runs the body, then `release_all` hands each cown to the next slot. A body allocates in regions, whose objects
become shared by freezing them into immutables; a region keeps the immutables and cowns it refers to alive through its
remembered set. Noticeboards hand immutables from one thread to many, under an epoch.

The hard behaviours, each listed with its line in `PROJECT.json` under `hazards`, are:
the window between exchanging a tail and linking to the slot found there; counts taken
down by several threads; promotion of a weak reference against the last release; a
thread that decides to sleep while work arrives; teardown against a late wake-up; a notify that comes while its behaviour
finishes; a reader between two loads while others advance the epoch or eject it; a graph whose counts are kept per
component; collectors that unlink, decrement and restore on their way; a hash table that moves its entries;
requests of the filesystem that spread over several behaviours.

## 2. What is modelled, and where

### BoC: what a `when` promises

`BoC` is the abstract specification. A behaviour is `new`, `pending`, `running`, `releasing`
or `done`; it starts when no behaviour that was spawned before it and shares a cown still holds that cown.
`Isolation` says that two running behaviours share no cown.

### BehaviourCore: the two-phase queue

`BehaviourCore` is `behaviourcore.h` and `behaviour.h` at the granularity of one atomic
access per action. Each behaviour has two program counters, `scall` for the call of
`schedule` on its creator's thread and `work` for `Behaviour::invoke` on the scheduler
thread.

| action | code |
|---|---|
| `Exchange` | phase 1: `last_slot.exchange`, on the next cown in sorted order |
| `AcquireCown` | a new chain: `Cown::acquire` (NoTransfer) or keep the caller's count (YesTransfer) |
| `AwaitPrev`, `Link` | spin while the slot ahead waits, then `set_behaviour`; a surplus transferred count is dropped |
| `SetReady` | phase 2 |
| `CallLoad`, `CallSub` | `resolve(ec)`: the plain load that avoids the last atomic, or the `fetch_sub` |
| `CallerDrop` | the caller destroys a `cown_ptr` it kept |
| `Run`, `BodyReturns` | the work item is picked up, the body returns |
| `ReleaseRead`, `ReleaseCas`, `ReleaseCown` | `Slot::release`: no successor seen, CAS of `last_slot` to null, drop of the chain's count |
| `AwaitLink`, `ResolveLoad`, `ResolveSub` | wait for the successor's link, take its count down |
| `Dealloc` | the behaviour is freed |

`pos`, `joined`, `served`, `time`, `spawned` and `wakes` are history: no guard reads them.
`BehaviourCoreInv` holds the inductive invariants.

### SharedRC over WeakRefs: reference counts

`WeakRefs` says what strong and weak references promise. `SharedRC` is the wait-free
implementation: `rc` with its closed bit, `weak_count`, one place per reference, and
for each place where its holder is inside `release`, `weak_release` or
`acquire_strong_from_weak`.

### ThreadPool over WorkPool: the scheduler

`WorkPool` says what the pool promises: work is started only if scheduled, once, and
the pool closes only when all work is finished and no event source is left. `ThreadPool`
is the implementation: queues with two-step enqueues, tokens, `next_work` and batches,
both kinds of steal, the two epochs, the three-state scheduler lock with its waiters and semaphores,
active-thread counting, and teardown. `Programs` are the programs it may run: what each work item spawns, which one adds or
removes an event source, and what a thread outside schedules.

### Signals over CownChain: notifications and promises

`CownChain` is the chain of one cown again, for slots that are used repeatedly or released by somebody who never ran.
`Signals` puts a promise and a notification on it.

| action | code |
|---|---|
| `Fulfill`, `FulfillAcquire`, `DropWriter`, `ReleaseSlot...`, `DropFulfilled` | `PromiseW::fulfill` and `~PromiseW`: the value, the chain's count, the release of the promise's own slot |
| `Then`, `ThenSchedule`, `DropReader` | `PromiseR::then` (a `when` on the promise's cown) and `~PromiseR` |
| `Notify`, `NotifyAcquire`, `NotifySchedule` | `notify`: exchange of the status; the first request takes a count and schedules |
| `SetRunning`, `BodyRelease...`, `NoteReset`, `FinishedRunning`, `NotifiedMeanwhile`, `Reschedule` | `Notification::invoke`: running, the release of the slots, `reset`, the compare-exchange back to waiting, or the next round |
| `DropNotifier` | the notification's last count destroys it, with the counts of its slots |

### Epoch with AsymLock: epochs and the noticeboard

`AsymLock` is the lock with a store buffer: the owner's plain stores become visible later, in order, and `Barrier` is the
system call that makes every thread's stores visible. `Epoch` is a thread's structure under that lock, and one noticeboard whose content is retired through it.

| action | code |
|---|---|
| `Peek` ... `HandOver` | `use_epoch`: `internal_acquire`, with the slow path when an external locker came first |
| `Check`, `Refresh`, `Publish`, `Rejoin` ... `Rejoined` | `acquire_epoch`: refresh of a stale epoch and flush of one slot, rejoining after an ejection and flush of every slot that is due |
| `Read`, `ReadIncref` | `Noticeboard::peek`: load, then `incref` |
| `Update`, `Put`, `DecInEpoch` | `Noticeboard::update`: load of the old content, store of the new, `dec_in_epoch` of the old one |
| `AdvanceIsSensible` ... `Advance` | `advance_epoch`: a scan over all threads that stops at one in another epoch, and a plain store of the next epoch |
| `ScanEject` ... `HeldByOwner` | `try_eject` under the external lock |
| `Exit` | `~ThreadLocalEpoch` |

### Freeze and Immutable: immutable graphs

`Freeze` is `Freeze::apply`: the search with its explicit stacks, whose elements and union-find live in the object headers, and the sweep.
`Immutable` continues with several threads that take and release references to the result.

| action | code |
|---|---|
| `NextRegion`, `VisitIso` | the worklist of entry points: a region is opened, a nested one is queued |
| `VisitUnmarked`, `VisitPending`, `Collapse`, `VisitCounted`, `VisitPostOrder` | the cases of the search by the class of the object reached; `Collapse` is one round of the loop that joins the components on the path |
| `StartSweep`, `SweepUnreached`, `SweepReached`, `Dealloc`, `Done` | the sweep over both rings, the objects not reached, the metadata object |
| `Acquire`, `Release`, `DecrefLoad`, `DecrefSub` | `immutable::acquire`, `release`, `decref` with its load that avoids the last atomic |
| `Classify`, `NextScc`, `NextMember`, `Finalise`, `Destroy`, `Return` | `immutable::free`: tracing a dead component, its references to others, finalisers, destructors |

### ObjectMap and RegionTables: the tables of a region

`ObjectMap` is the Robin Hood hash map of `ds/hashmap.h` as operators: probing, exchange of entries, growth, `find`, `erase`, marks.
`RegionTables` is the remembered set and the table of external references of two regions on it: `Remember` (insert with or without a
transferred count), `GcStart`, `GcMark`, `GcSweep`, `Merge`, `ReleaseRegion`, `CreateRef`, `CollectObject`; `ReadOut`, `Forget`, `Hold`
and `DropHeld` are what the program does with the immutables.

### Regions over RegionSets: trace and arena regions

`RegionSets` says what a region promises, as sets: objects enter, move with a merge, and are reclaimed only when the region is dropped
or its roots do not reach them. `Region` has the state and what both kinds share (`SetField`, `StoreRegion`, `TakeRegion`, `PushRoot`, `Release`,
...), `TraceRegion` the two rings and mark and sweep (`AllocTrace`, `MergeTrace`, `SwapTrace`, `Gc`, and one action per object of a sweep),
`ArenaRegion` the arenas and the ring of large objects. `Regions` runs them together: regions of both kinds nest in one another.

### RcRegion: reference-counted regions

`RcRegion` is `region_rc.h`: `Decref` with its cascade, `GcCycles` with trial deletion in three colours and the jump stack
(`MarkRed`, `Scan`, `RestoreGreen`, `DeallocReds`), and `Release`, except one whose `release_cycles` meets a subregion (§3). Each runs to its end in one action, as the region is owned by one thread.

### FsData over SeqFile: the data of one file

`SeqFile` says what the data of a regular file promise: each request takes effect at one
moment between its arrival and its answer, on one sequence of cells. `FsData` is the code, from the session
loop to the block buffers. A behaviour's body is one action, because `BehaviourCore` shows that it has its cowns
to itself and that cowns serve behaviours in the order of their `when`s; what no cown protects is
finer.

| action | code |
|---|---|
| `Receive` | `my_fuse_session_loop` reads the next request into its one buffer, and the handler's `when` on the inode |
| `CopyCell` | `FileSystem::write`, inside the behaviour: the copy of the data out of that buffer |
| `WriteInode` | the answer to the write, then `RegInode::write` (missing blocks, the size) and `batch_write` |
| `ReadInode`, `ReadBlock`, `CountPiece` | `RegInode::read`: a behaviour per block, each followed by one on the counter, the last of which answers |
| `Setattr`, `OpenTrunc` | the two callers of `FileSystem::truncate` |
| `FreeBlock` | `free_space`, the behaviours a shrinking truncate spawns |
| `Fallocate` | `my_fallocate` |
| `WriteBlock` | the behaviour of `batch_write` on its one or two blocks |

The refinement mapping shows the file as it will be once the block behaviours spawned so far have
run (`Settled`), and a read in progress as what it will find (`Found`): a behaviour that is queued on a block has
its place in the order, though it has not run. So the effect of a request takes place in the behaviour on the
inode, and the answers agree with that order.

### Namespace: names and inodes of the filesystem

`Namespace` has the handlers that read or change directory entries or count links and lookups. `behaviours` is the sequence of
behaviours spawned and not yet run; one may run when no earlier one shares a cown with it, and its body is one action, by what `BehaviourCore` shows.

| action | code |
|---|---|
| `AskName`, `AskInode`, `AskSetattr`, `AskRename`, `AskForget` | the kernel sends a request, and its handler spawns the first behaviour |
| `LookupEntry`, `GetInode` | `lookup`: on the directory, then `get_inode` on the inode and its table |
| `Refuse`, `MakeEntry`, `AddInode` | `create` and `mkdir`: the entry and the answer, then `add_inode` |
| `UnlinkEntry`, `UnlinkCount`; `RmdirEntry`, `RmdirRemove` | `unlink` and `rmdir` |
| `RenameFind`, `RenameDenied`, `RenameMove` | `rename` up to `replace_entry` or `replace_entry_same_parent` without a target |
| `RenameTwo`, `RenameTables`, `RenameReplace` | their other branch: a behaviour on both tables, then one on the parents and the inodes found |
| `Forget`, `UseInode`, `Setattr` | `forget`; `open`, `opendir`, `access`; `setattr` |

The kernel is the environment. It locks the parents and the inodes concerned for requests that change names (`pins`), sends lookups at any
time, as it does to revalidate a name, uses an inode number only while it counts lookups of it, and forgets an inode that none of its requests uses.

### StackFs over NodeTable: the comparison filesystem

`NodeTable` is the hash table of `main.c` as operators, bucket by bucket: insertion and deletion, and the splitting
and merging of linear hashing. `StackFs` has the requests that touch it, on several threads: `Lookup` and `Reply`, `Create` and
`CountCreated` (the count is taken after the lock is released), `Unlink`, `Use`, and `Forget`, `ForgetWrite`, `Delete` (read, write and removal are separate).

## 3. Runs

| run | instance | shows |
|---|---|---|
| `when` | footprints {a,c,d}, {a,d}, {d}, one transferring, two not | mutual exclusion, no use after free, no overtaking, no leak, the refinement of `BoC`, and that every behaviour runs |
| `shared_rc` | 5 references | no access to freed memory, wait-freedom, the refinement of `WeakRefs` (which says that a strong reference keeps the contents) |
| `pool` | 2 threads; items that spawn items, or an event source with an item from inside and one from an outside thread | no lost wake-up, one wake per sleep, `active_threads` misses nobody who is up and never reaches zero, the refinement of `WorkPool`; everything scheduled runs, and the pool stops |
| `signals` | two notifiers, the notification's behaviour and a reader on one promise | no use after free, the outcome first, no double scheduling, every request is followed by a run |
| `epoch` | 3 threads in two casts: an updater that advances and ejects, an advancing reader, a reader that exits and rejoins; or an updater that is ejected with its decrements delayed, and rejoins, while one other thread advances | `peek` is safe, and who missed an epoch flushes only what is due; epochs in use differ by at most one, the global epoch moves by single steps |
| `freeze` | every heap of 3 objects with at most 2 fields, one or two regions, an object outside; 2 threads | counts of components are exact, nothing held is freed, nothing leaks |
| `region_tables` | 2 regions; 3 immutables that collide and exchange their slots, or 3 of which one refers to another, or 5 objects that collide | what is referenced is alive, in the set and counted; external references are found, once, exactly while their object lives |
| `regions` | 2 regions of either kind, 3 objects | the refinement of `RegionSets`, what finalisers see, collections are complete |
| `rc_region` | an entry point, 2 objects, a subregion, 3 references of the program | nothing reachable is freed, counts are exact, candidates go |
| `fs_file` | 2 blocks of 2 cells; a writer that cuts off at last, a reader, a client that empties the file, a request without permission | the refinement of `SeqFile` (an acknowledged write is in the file), every request is answered |
| `namespace` | 2 clients, 3 requests and any forgets, on a directory of two files and one with a subdirectory | numbers and iterators stay valid, lookups and links are exact, removed inodes go, every request is answered; without the requests of §3 that the code gets wrong |
| `stackfs` | 2 threads, 3 names that collide, 4 nodes | a node is where its hash says, an inode the kernel knows has its node |

*The bounds.* Three behaviours are the smallest number
where a chain has a first, a middle and a last slot and where waiting could
be cyclic; the footprints are the example in the comment of `schedule` that motivates the two phases. Five
references let two releases of the last count and a promotion be under way together while a
weak reference survives. In the pool two threads make every race between a pauser
and an unpauser, a stealer and an owner, a waker and a sleeper; the outside thread adds
the one unpauser that is never counted as active. `MaxFutile` bounds the attempts to pause
that find work in a queue: without a bound the epochs grow for ever; with `MaxFutile = 0` a thread starts
to pause only when the queues hold nothing but tokens, and work may arrive at any
point after that. `BatchSize = 1` makes both branches of `get_work` occur.

In `epoch`, two objects are the fewest for an update. `MCEpoch` chooses between two casts at the start: in one several threads advance and nobody else ejects the updater, in the other the updater is ejected and one thread advances, so that the ejector never lags (§3). `MaxEpoch = 3` lets a thread be absent while the epoch passes it twice, the distance at which all its delayed slots are due;
`MaxBuffer = 1` is enough for the one store of the fast path. In `region_tables` maps start with eight slots (`InitCap`), as in the code, and the
hashes are such that one immutable, or object, displaces another behind a third; the probe bits reach one (`MaxProbe`; 7 or 15 in the code), as with two an entry may be lost (§3), and the map of
external references grows when a third key has one hash. As the two tables do not meet, a behaviour starts with immutables or with objects (`Starts`). `MaxCount` bounds the counts the program takes. The regions are symmetric: `Starts` is closed under exchanging them. In `regions` three objects put a first, a middle and a last one on a ring, `ArenaSize = 1`
makes the second small object start an arena, `MaxRoots = 1`. In `rc_region` the program's three references (`MaxRefs`) make cycles, shared cycles and objects
that are candidates twice. In `stackfs` tables start with 4 buckets (`MinSize`), so that four nodes split, double, merge and halve it; nodes and threads are
symmetric, as no property tells them apart; `MaxLookups` bounds the kernel's count.

In `namespace` three requests (`MaxRequests`) are enough for one that changes names in the middle of another's chain of behaviours, with forgets in between; three directories
are the fewest between which a directory moves, two files and two names the fewest that replace each other. `Asks` shares out the kinds of request, as
clients are alike but for their rights (`NoRights`).

In `FsData` two cells per block give blocks that are written in part, and two blocks give the one- and two-block
branches of `batch_write` and reads of more than one piece. `MaxBlocks` bounds the
block objects ever allocated and never constrains a behaviour: `TypeOK` would fail if an allocation went past it.

`CHECK_DEADLOCK FALSE` is set where the modelled system stops by itself: all behaviours
are freed, no reference is left, every scheduler thread has returned, every request is answered, every object is
collected. `epoch`, `signals` and `stackfs` check for deadlock.

Operators whose names end in `Slip` are the neighbouring definition with a plausible slip (a
dropped guard, a wrong comparison, a missing reset). No action uses them; `PROJECT.json` names, for each property,
a slip that violates it.

### Where the code disagrees with itself

These counterexamples were found with the modules; the runs leave their conditions out, by the constant or the property named here.

* *A file that is cut and grown again.* A shrinking truncate frees the buffers of the blocks behind the new end (`FileSystem.cpp:976`) and erases none of
  them, because `erase(it, end())` (:981) is reached with `it == end()`; it does not clear the rest of the last block either.
  A truncate that grows the file again finds these blocks and does not "init them with zero" (:986), and a read meets the null buffer (`NoNullBuffer`). In `fs_file` nothing grows the file after the cut.
* *Sparse files.* A write behind the end leaves a hole; `RegInode::read` skips it without counting it (`RegInode.cpp:145`) while `total` includes it, so the
  last piece never reaches the total and the request is never answered (`EveryRequestAnswered`). In the run no write starts behind the end.
* *Two writers.* The data of a write are copied inside its behaviour (`FileSystem.cpp:920`), when the session loop may have received another
  write into the same buffer (`my_fuse_loop.h:104`). In the run one client writes, and waits for each answer. The headers of the
  other requests are no longer than a write's, except setattr's, whose arguments reach the first cell of the data: `Received` models it.
* *Leaving the epochs.* A thread that rejoins in the epoch that it left flushes four slots, as the loop (`epoch.h:367`) ends early only at an epoch ahead of the old one; the objects of the last two epochs, which a reader
  may still hold unreferenced, lose their counts, though the comment at :102 promises they wait. With two threads, three objects, `MaxEpoch = 2` and thread 1 alone in `Updaters`, `Advancers` and `Exiting` (2 reads), the updating thread exits and comes back at once, and `PeekSafe` fails; `~ThreadLocalEpoch` ejects without taking its lock (:547).
  An ejection does the same when the ejector lags: the header says that a thread one behind is ejected (:15), but `in_epoch_try_eject` ejects one in any other epoch (:411), so an ejector that another
  thread has overtaken since its refresh may eject a thread of the current epoch (`Readers = Advancers = {1, 3}`, `Updaters = {2}`, `Ejectors = {3}`, three objects, `MaxEpoch = 2`). `PeekSafeHolds` leaves out just these two, by its hypothesis `ReturnsLater`.
* *Freezing with finalisers.* `object.h:88` promises a finaliser that all objects of the region are valid; a freeze deallocates the unreachable objects in order, and `Immutable::free` one component after the other: `FinaliserSeesFields` fails.
* *Marks and growth.* `RememberedSet::mark` may grow the map, and `resize` reinserts keys without their marks (`hashmap.h:105`): what was marked before is swept (`SweepKeepsMarked`). In the run no set grows in the middle of a mark.
  An insert without transfer of an object that is already in the set also keeps the count it took (`InsertCount`); the counts then cover more than the entries, which `CountsCover` allows.
* *Insertion after an erasure.* An insertion looks for its key only up to the first free slot (`hashmap.h:330`), and takes the slot of an entry with a lower probe index before it has looked further (:341). Where an entry was erased, a key behind it is therefore entered
  a second time, though the comment promises an update (:298). If M took the erased slot meanwhile, a second insertion of K displaces M, meets the old K at :319 and drops M: M's count is never released, and K has two entries for one count, which sweeps release one after the other.
  `CountsCover` fails with `InitCap = 8`, `MaxProbe = 7`, one region and three immutables with the hashes 0, 1 and 8 (mod 8: 0), of which the first refers to the second; `ReferencedAlive` when the first refers to the third. With `MaxProbe = 1` second entries occur, each with its count, and no loss.
  An insertion by `mark` that displaces a marked entry into a free slot fails the assert at :333 in a debug build; the model is one without asserts.
* *Reference-counted regions.* `release_internal` frees what is reached without cycles and from the Lins stack, so other cycles stay (`ReleasesAll`, around `region_rc.h:241`); an object whose count a cascade drops to more than zero becomes no candidate (`GarbageGoes`, :192);
  `dealloc_reds` traces the object it starts from twice, so its subregions are released twice (`SubsReleasedOnce`); entries of the Lins stack may be freed objects, as the FIXME at :272 says (`NoFreedEntries`, with `StaleEntries = TRUE`);
  a trial deletion that reaches the entry point takes counts down behind it and does not give them back (`CountsExact` with `EntryRefs = TRUE`);
  `release_cycles` has no case for the entry point of a subregion, which a candidate outside the entry point's reach may lead to (an object that refers to itself and to the subregion is enough): it fails `assert(0)` at :357 (`NoIsoMet` with `IsoInCycles = TRUE`),
  and a build without asserts, which the model then follows, never releases that subregion unless a finaliser collected it. The run excludes such releases: the program runs `gc_cycles` before them.
* *Regions.* The sweep of a trace region erases external references of trivial objects only (`externalreference.h:108`); `merge` of trace regions adds the other's memory use twice (`region_trace.h:352`); `gc` has no case for reference-counted subregions.
* *Renaming.* With `AllRequests = TRUE` the run fails. A rename onto an entry of another directory gives it its old name and not the new one (`FileSystem.cpp:1226`), or none if the new parent has that name already (`insert` keeps what is there), and counts links of
  directories that did not move (:1228); a directory that is replaced keeps its links and so its place in the table for ever (:1228) (`CountsExact`). Moving a directory without rights on it to another one, or a
  file onto a directory, returns from the behaviour without an answer (:1400, :1220) (`RequestsAnswered`), as names that are too long (:1339) and sticky directories (:1405, :1427, :1499, :1520) do, which the module leaves out.
  Entries are read after they were erased: the number (:1157, :1226, :1255, :1315) and the name (`dupl_entry->first` at :1315, `old_entry->first` at :1226). What is read is what was there only while the name lies in the entry itself, which a string of up to 15 characters does;
  the memory of a longer name is freed with it, and the copy of a long name may be given the memory of the erased entry. With `LongNames` not empty, which `AllRequests` goes with, both values are arbitrary, and `NothingDangles` fails.
* *Attributes of the root.* `setattr` tests for an odd number first (`FileSystem.cpp:459`); the root's is 1, so it takes the root for a file with a cown at the address 0 and ends the program; the branch for directories would take the number for an address too (:587).
  The model keeps of that that nobody answers (`Setattr`); with `AllRequests = TRUE` `RequestsAnswered` fails.
* *StackFsOpt.* `forget` reads and writes the lookup count outside the lock, and `create` counts after unlocking (`main.c:737`): a forget that overlaps with a lookup of its name loses the lookup's count, and the assert at `main.c:1094` fails: with `Overlap = TRUE` the run violates `ForgetAsserts`.
* *Promises.* A move assignment over an unfulfilled `PromiseW` (`promise.h:152`) releases its count but not its slot, so that its readers never run; it is not an action of `Signals`.

## 4. Fairness

* `BehaviourCore`: a thread inside `schedule` or inside an execution keeps running (weak fairness per behaviour),
  a work item that was scheduled is run, and a body returns. The second is what `ThreadPool` shows with
  `PoolStops`; the third is a duty of the program.
* `SharedRC`: a thread inside an operation continues. Nothing obliges anyone to start one.
* `ThreadPool`: a thread keeps running between its accesses; a thread that finds nothing eventually sees
  its quiescence timeout pass (strong fairness of `GiveUp`, because each new round of stealing restarts
  at the check); a thread outside the pool that began to schedule goes on.
* `Signals`: as in `BehaviourCore`, and the program fulfils its write end or drops it (`Writer`): a promise that is kept
  unsettled keeps everyone waiting, by design. Nobody is obliged to notify, to call `then` or to drop an end.
* `FsData`: the session loop goes on reading requests, and behaviours run.
* `Namespace`: the oldest behaviour, which nothing is ahead of, runs. Nobody is obliged to send a request or to forget.

The other specifications state no fairness and their runs no liveness.

## 5. Proofs

| theorem | module | statement |
|---|---|---|
| `IsolationHolds` | `BoC` | `Spec => []Isolation` of the abstract order |
| `Invariance`, `TypeCorrect` | `BehaviourCoreProofs` | the inductive invariant |
| `MutualExclusionHolds`, `WokenOnceHolds`, `NoUseAfterFreeHolds`, `ReleaseAssertsHold`, `NoOvertakingHolds` | `BehaviourCoreProofs` | the safety properties of the queue |
| `RefInvariance`, `ChainHoldsOneCountHolds`, `CownAliveHolds`, `NoLeakHolds` | `BehaviourCoreProofs` | the strong counts of the cowns: one per chain, none too few, none left over |
| `QueueImplementsBoC` | `BehaviourCoreRefinement` | the queue implements `BoC`; with `IsolationHolds`, every execution of the real queue isolates behaviours |
| `Invariance` and one theorem per invariant | `SharedRCProofs` | accounting, lifetime, single reclaim, no leak |
| `CountsImplementWeakRefs` | `SharedRCProofs` | the counts implement `WeakRefs` |
| `EpochInvariance`, `OneBehindHolds` | `EpochProofs` | the asymmetric lock excludes; epochs in use are at most one behind, the global epoch moves by single steps |
| `PeekSafeHolds` | `EpochProofs` | with any number of updaters a reader finds a count on what it read, unless a thread with delayed decrements comes back to the epoch that it left |
| `RankedInvariance`, `OutcomeFirstHolds`, `ScheduledOnceHolds` | `SignalsProofs` | one chain for slots that are used again or never ran: one behaviour at a time, the outcome first, one call per slot |
| `CountsInvariance`, `NoUseAfterFreeHolds` | `SignalsProofs` | both counts are exact, so nobody touches what is gone |
| `PoolInvariance`, `NoLostWakeupHolds`, `OneWakePerSleepHolds`, `EpochsMonotoneHolds` | `ThreadPoolProofs` | where the work is, who is woken and how the epochs stand; a sleeping pool has nothing left to do |
| `SomeoneInChargeHolds` | `ThreadPoolProofs` | `active_threads` misses nobody who is up, counts at most one more, and is never zero |
| `PoolImplementsWorkPool` | `ThreadPoolProofs` | the pool implements `WorkPool`, in programs whose event sources cover what outside threads schedule |
| `ShapeInvariance`, `NamespaceInvariance` | `NamespaceProofs` | what a behaviour carries and its request pins; the entries it found stay; links, lookups and tables agree |
| `NothingDanglesHolds`, `CountsExactHolds` | `NamespaceProofs` | no inode number that is in use is that of a freed inode; `krefs` and `st_nlink` are exact, tables too |

They hold for every finite set of behaviours, cowns, references and threads, every footprint, every address
order, every choice of transferring callers and of what the threads may do, every ring of cores, every set of programs, every directory tree, every set of clients and
what they ask for, and without the bounds of the runs. The assumptions are the `ASSUME`s of the modules, which TLC evaluates on every run: finite sets, distinct names, and three that
say more. `RingAssumption` says that the cores are one ring (`CorePool::init` links each to the next and the last to the first).
`ProgramAssumption` says that a work item is scheduled by one step of the program and a thread outside is started by one: a `Work` is itself the node of the intrusive list, so
a second `schedule` of an item that is queued would corrupt the list. `NamespaceAssumption` says that the entries to start with are those of directories that have names themselves, that nothing has two
names (there is no `link`) and that the root has none.
The theorems about `Namespace`, except `ShapeInvariance`, have the hypothesis `~AllRequests`: the kernel sends no `setattr` of the root and none of the renames that the code gets wrong, with long names among them (§3); with the renames the statements are false.
`PoolImplementsWorkPool` has the hypothesis `[]SourcesCover`, the duty of programs with threads outside the pool: a work item removes a source only while one is registered (the assert at `threadpool.h:146`), and no outside thread is about to
schedule, or in the middle of it, when none is registered. It is the environment's duty and no property of the code, so no run lists it; the programs of the run `pool` keep it. Without it the promise is not the pool's to keep: an item pushed while the last thread decides on the teardown never runs.

*The argument for the queue.* Mutual exclusion is not inductive: nothing in it says why
a behaviour whose count reached zero is not behind someone. `IInv` gives every slot its
place `pos` in the order of exchanges on its cown; the places up to `served` were released, the next owns the
cown, later ones are `Blocked`. `CountInv` ties `exec_count_down` to the number of
blocked slots plus what the call still has to resolve, so zero means blocked nowhere; `TailInv`, `PrevInv` and `NextInv`
tie `last_slot`, the local `prev` and `status` to neighbouring places, so
that a release that reads or swings any of these reaches exactly the slot one place behind. `TimeInv` and `AheadInv` say that the
places agree on all cowns with the order of finishing phase 1, because nobody passes a slot that
still waits: that is `NoOvertaking`, and in the refinement it is what makes the concrete start a start of
the abstract order.

*The argument for the cown counts.* `ChainHoldsOneCount` alone is not inductive: a call in
`Cown::acquire` must be the only one to count its chain, and a swap to null must find the chain
counted. `AcquireInv` gives the acquirer the place that owns the cown, so by `PlaceInv` nobody else
is there and no release can overtake it; `CallerInv` says which cowns a caller still counts on at each step of the call, so that
the transfers and surplus releases have something to take. `CownAlive` follows: a caller without a count of its own on a cown is past its
turn there, its slot is unreleased, and by `AheadInv` the first of the chain has finished its acquire (`HeldCounted`).

*The argument for the weak and strong counts.* `weak_count` always equals the weak references, plus the threads that took `rc` to zero and are not
yet through, plus one for all strong references together (`WeakAccounting`).
`StrongAccounting` says that while the closed bit is clear `rc` is the number of strong
references and that a zero has somebody about to swap; `OneCollector` and `OneFreer` that the winner of the swap, and of the last weak
count, is unique.

*The argument for the epochs.* `OneBehind` needs two things. First, that an ejector never ejects an owner that uses its epoch: `OwnerInv`
says that the latest store of an owner that is inside, or about to look at the external side, is 1, so after the barrier
an owner seen as 0 is outside (`BarrierInv`), and while the external side has its one holder (`HolderInv`) nobody comes in. Second, that a
thread the scan passed cannot fall behind it: `PassedInv` says so of every thread that is not ejected, and
of one that rejoins, of the epoch that it read the second time; the first announcement of a rejoining thread may be arbitrarily old, which is
why the code announces twice. Then an advance leaves everybody at most one behind (`EpochInv`), and of two threads that advance at once the
second sets the epoch that is there.
`PeekSafe` needs the counts: `CountInv` says that the board's count of an object is in one place, on the board, with the writer that took it off or in one slot of one thread (`OwnedOnce`), and that `rc` is this
count plus the references held. `ReadInv` says of a reader before its incref that its object still has the board's count, and that a slot with it is not due before two epochs after the reader's; slots are counted from the epoch up to which their
thread has flushed (`Flushed`). The slot that `DecInEpoch` takes is three away, the writer is in the global epoch or one behind, and by `EpochInv` the global epoch is at most one ahead of the reader, so a flush up to the global epoch never reaches that slot.
A thread that was ejected flushes by what it missed, at least one slot; `AwayInv` says that it does not count from an epoch ahead. That it has indeed missed one is all that the theorem asks of the threads (`ReturnsLater`): one that rejoins with delayed decrements finds another epoch than it left. Any thread may update,
advance, eject and exit.

*The argument for notifications and promises.* The chain of `CownChain` has no `pos`: slots enter it again and again. `Ranked` says that there is
a rank of every slot and a rank `lo` of the head such that the slots of rank `lo` and above are the chain: ranks differ, each slot is linked to the
next one or its caller is about to link it (`Links`), only the head runs (`Running`), a slot without a call waits for the slot ahead only (`Waiting`). An exchange gives the new
slot the next rank, a release raises `lo`. `OutcomeFirst` follows, because the promise's slot is the head until the write end releases it
(`SlotFirst`). `NoteInv` and `NotifierInv` exclude a second enqueue of the notification's slot: whoever found `Waiting`, the behaviour's own call and its run are one at a
time. For `NoUseAfterFree`, `CountInv` counts who holds each object: the ends, the call that took a count, the chain from its first slot on,
the slot of the notification; whoever touches an object is one of these.

*The argument for the pool.* `NoLostWakeup` says that sleeping threads have nothing to do, so the invariant must relate three things.
`WorkInv` says where each item is: in one queue, in one thread's hand or finished (`NothingLost`), and that the item an enqueue is to link has one behind it, so that a
dequeue never empties a queue (`LinksOK`). `SleepInv` says that a thread that decided to sleep is on the list of waiters, on the list of one waker, or
has one wake in its semaphore, and that a lock in the state `LockedUnpauseNeeded` has a holder who will take the waiters. `PauseInv` is about the moment at which every thread has announced its pause.
Then there is a thread `z`, the last to advance `pause_epoch`, with `snap`, the unpause epoch it read before, and `Seen`, the cores it
has looked at since; no other thread of the pool enqueues meanwhile, as all have announced. Either the unpause epoch is beyond `snap`, or `Untouched`: whatever work is in a queue of `Seen` is `Fresh`, from an outside thread that is in
its `unpause` and will find the epochs apart. The first case is one for the waiters: if `z` is among them, somebody is about to wake them (`WakesWaiters`), and if `z` is not yet, it will find the epoch changed.
When all sleep and no `unpause` is under way neither is the case, so `z` has seen no work in any queue, and by `WorkInv` all is finished and what is left in the queues is their tokens. A thread that works need not be related to the epochs
at all: it has not announced a pause, and when it does it becomes the last to do so.

*The pool implements its promise.* Most steps do not touch what `WorkPool` sees; the starts, ends and schedules are steps of it by `WorkInv`, as an item is in one place only. The hard step is `Teardown`. The thread that takes it finds `active_threads` at one,
no source, and the unpause epoch unchanged since it announced. `ChargeInv` says that `active_threads` counts the threads that are not `Gone` to sleep, so all others are, every thread has announced, and `LastPauser` speaks: `z` is the thread itself or one that is gone,
whose `snap` is no older than the epoch the thread compares with; so no unpause came after `snap`, and no work is in any queue but `Fresh` work. `SourcesCover` excludes that as well: with no source registered, what an unpausing outside thread pushed has started. Hence no work is queued or in anybody's hand, and all that was scheduled is finished.
Afterwards it stays so (`ClosedInv`): nothing runs, so nothing is scheduled and no source is added, and by `SourcesCover` no outside thread schedules.

*The argument for the namespace.* Behaviours hold inode numbers between steps, and what another request does in between could make them those of freed inodes. The invariant has three layers.
`Shape` says what a behaviour is allowed to be: it runs on the cowns of its request, a request has one behaviour at a time (`OwnRequests`), the kernel knows what a request pinned (`PinsKnown`) and lets no two requests
that change names pin one inode (`PinsLocked`), and the `add_inode` of an inode is ahead of all that use it (`AddsFirst`), so that no behaviour that shares a cown with it can run first.
`Places` says that an inode has one name (`OneName`), that the directories of a request that changes names are still named (`InPlace`), and that the entries which the behaviours of an `rmdir` or `rename` found are those that are there (`Captured`): only another
request that changes names could move them, and it would have to pin one of the inodes.
`Tally` is the counting: `krefs` is the kernel's lookups plus those that wait to be forgotten, less one while `add_inode` waits (`LookupsCounted`); `st_nlink` of a file is 1 while it has a name or waits in `unlinked`, that of a directory its name, its own "." and its subdirectories (`LinksCounted`);
an inode is in its table exactly when it was added and one of the two counts is positive (`TablesExact`). The latter is what `forget` and `get_inode` keep between them: a lookup that found a name races
the `unlink` of it and the `forget` that removes the inode, and `GetsAlive` says that either something still holds the inode or that `forget` was spawned behind the lookup, which then counts first.
Neither layer is inductive alone: `rename` finds both its inodes in the tables only by `Tally`, and a step that erases a name must take it from the inode that `Captured` says is there.

Only model-checked: the liveness properties (`EveryBehaviourRuns`, `WaitFree`, `PoolStops`, `RequestsRun`,
`EveryRequestAnswered`, `RequestsAnswered`), and all of `FsData`, `Freeze` and `Immutable`.
Liveness under fairness is out of the prover's reach and stays with TLC. So do the modules that compute over
graphs and tables with recursive operators: `RegionSets` with the region modules, `RcRegion`, `ObjectMap` with `RegionTables`, `NodeTable` with `StackFs`.

## 6. What the models leave out

* Memory order: accesses are sequentially consistent, except the owner's stores in `AsymLock`. The code uses acquire/release and relaxed accesses in a few places; every
  read-modify-write the arguments rest on is sequentially consistent or stronger than needed for the argument.
* `BehaviourCore`: a `when` that names one cown twice (it would wait for its own slot); read-only acquisition, which no code in this commit uses.
* `SharedRC`: the collector's loop over nested objects is one step; each of those is released by the modelled operation.
* `ThreadPool`: a dequeue is one step, its successful compare-exchange. It can also fail because another thread
  was faster; then the caller looks elsewhere, as it does when the queue is empty, and `nothing_old`, which does not
  fail spuriously, is what a pauser relies on. `enqueue_front`'s retry loop is one step.
  One thread serves each core. Thread creation, statistics and `enter_barrier` (no caller) are left out. A local that is dead has its
  initial value, which only merges equivalent states.
* `Epoch`: uses do not nest; the epoch does not wrap (2^63 advances); the delayed deletion of raw memory, which is handled like a decrement; the heuristic for when advancing is sensible is a free choice.
* `Signals`: copies and moves of the ends; a notification has one cown.
* `Freeze`, the region modules, `RcRegion`: sizes and memory use, descriptors, the stack of open regions of `region_api.h`, alignment. An object has one or two fields. A finaliser reads and adds subregions but does not write.
* `RegionTables`: an immutable refers to at most one other. Objects are collected one at a time.
* `FsData`: one regular file. Attributes other than the size, permission bits (`Denied` names the requests that would fail) and
  `st_blocks` have no part in the properties.
  A write of three or more blocks is in `WriteInode` as the code has it, acknowledged and dropped (`RegInode.cpp:51`), and
  `my_fallocate` in steps of a block from its offset (`FileSystem.cpp:1137`), which misses the last block of a range
  that starts inside one; the runs use neither: with the first `ImplementsSeqFile` fails at once, with the second `FallocateAllocates`.
  The width of the counter in truncate's loop (`FileSystem.cpp:987`, an `int`) is not modelled. Allocation does not fail.
* `Namespace`: times, modes and owners; `readdir` and `getattr`, which only read (`getattr` without a cown); the blocks of an inode that is forgotten. Inode numbers are not reused, though an address may be.
  Names are short enough for the string object, except where `LongNames` says otherwise (§3). `setattr` of a directory takes the table's cown too, which only orders it after more. The end of the program in a `setattr` of the root is modelled by the missing answer alone. The cown that a leaked `FileHandle` keeps alive (`create`, `open`) is not counted on: the property asks for the table.
* `StackFs`: what the filesystem below does; failures of the calls to it; open files and directories.

## 7. Plan

1. Theorems for `Immutable` and `FsData`.
2. `RcRegion` with remembered sets, as reference-counted regions release theirs differently.
