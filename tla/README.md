# Verification of the Shannon Direct-IO PCIe driver

TLA+ models, TLC configurations and TLAPS proofs for the open part of the
Shannon Direct-IO flash driver (the C sources under `src/`; the flash
translation layer itself is shipped as objects without source). The kernel of
reference is 6.8: where a source file has a branch per kernel version, the branch
for that version is the one modelled. `DiskStats` and `Transfers` are about code
that differs between kernels, and model all versions of it; `DiskLife` holds for 6.0
to 6.8 (from 6.9 on `shannon_rotational_setting` sets nothing), `GfpXlate` has the
encodings of 6.8 and 6.9.

## 1. The system

| Part | Source | State | Operations | Talks to |
|---|---|---|---|---|
| map-table block lock | `shannon_memblock.h` | one atomic counter per memblock | shared lock, shared lock with retries, exclusive trylock by a sharer, unlocks | core's map-table code |
| striping, user counts | `shannon_memblock.h` | counters per memblock | index arithmetic | core |
| real-time work queue | `shannon_workqueue.c` | list of works, PENDING bits, worker thread, flush event | queue, worker loop, flush, destroy | wait queue, kthreads |
| request path | `shannon_block.c`, entry points in `shannon_module_init.c` | a `shannon_bio` per request, its table, bounce pages, statistics, `pending_bios` of a namespace | make_request (device, namespace), blk-mq request, submit tasks, completion | block layer, core |
| conversion and bounce pages | `shannon_block.c`, `shannon_scsi.c`, `shannon_scatter.c` | scatter-gather table, bounce pages | convert bio / request / SCSI command, allocate, copy, free | request path |
| disk and queue lifecycle | `shannon_block.c` | gendisk, queue, tag set, limits | alloc, add, attach, detach, cleanup | module life |
| disk statistics | `shannon_device.c` | counters per CPU and partition | start, end, read | request path, core |
| module and PCI life | `shannon_module_init.c` | mempool, work queue, misc devices, registrations, control files | init, exit, probe, remove, open, release | everything |
| SCSI host | `shannon_scsi.c` | host, commands | queuecommand, end, attach, detach, answers | SCSI layer, core |
| wait queue | `shannon_waitqueue.[ch]` | list of waiters | prepare, wake, autoremove, finish | work queue, core |
| GFP translation | `shannon_gfp_legacy.h` | none (pure) | decode, test, translate | every allocator |
| sysfs and hwmon | `shannon_sysfs.c` | attribute files | init with unwinding, removal | core |
| error injection | `shannon_err_injection.c` | seven bit maps | allocate, mark, test, release | core |
| character device | `shannon_cdev.c`, `shannon_file.c` | file position, memory blocks | read, write, seek | core |
| PCI helpers | `shannon_pci.c` | registers of card and bridge | reset methods, retrain, tuning | PCI layer, port services |
| kernel primitives | `shannon_kcore.c`, `shannon_sched.c`, `shannon_time.c`, `shannon_dma.c` | - | wrappers, allocators, rate limit | kernel |
| core | `*.o_shipped` | - | external | - |

What makes it hard: a request is worked on by the submitter, by a per-CPU work
item and by the core's completion, and each may end it; five exits of each
handler undo different subsets of what was acquired; a namespace is removed
while its bios are under way; the real-time worker sleeps and is woken without
holding the lock that protects its list; one counter is both a reader count and
a writer flag; a table is sized by a formula and filled by another. Around it:
probe and attach fail at some twenty places, and each must undo what came before;
two module parameters decide what a pointer points to and can be written while the
module runs; a bridge is reprogrammed with sleeps between reading a word and writing
it back; pools go away under the files open on them.

`PROJECT.json` lists the hazards at the line where each bites and the property
that would catch it.

## 2. Modules

| Module | What it is |
|---|---|
| `RwLock` | abstract readers-writer lock with upgrade |
| `SmbLock` | the `smb_*` macros, one step per atomic operation |
| `RtWorkqueue` | `rt_thread_fn`, `shannon_rt_queue_work`, flush and destroy |
| `IoContract` | what the block layer expects: each request answered once, success only with its data delivered |
| `IoPath` | life of a request from submission to its answer and the release of everything |
| `IoPathProofs` | proofs of its safety properties and of the refinement |
| `MCIoPath` | the error numbers the core returns in the runs |
| `SgConvert` | the three conversions to a scatter-gather table, and bounce pages |
| `MCSgConvert` | all requests of up to `MaxSegs` segments cut at the places `Cuts` |
| `SgConvertProofs` | proofs for requests of any length and any sizes |
| `WaitQueue` | the wait queue, pointer by pointer |
| `WaitQueueProofs` | proofs for any number of waiters and wakers |
| `GfpXlate` | the translation of the core's allocation flags, at a mempool and at cache creation |
| `MCGfpXlate` | the encodings of Linux 6.8 and 6.9 and the words that are passed |
| `DiskLife` | queue, tag set and gendisk of a device, as operators on its record |
| `SysfsTree` | sysfs objects and hwmon files, as operators on the same record |
| `DriverLife` | composes both: module init and exit, probe, attach, detach, remove, users |
| `MCDriverLife` | its symmetry for TLC |
| `DeviceRecord` | the invariant of one device's record, and how operations relate two records |
| `DriverLifeInv` | lemmas: what each operation does to a record, and that it keeps the invariant |
| `DriverLifeProofs` | every action keeps the invariant of module and devices; the theorems |
| `PciBus` | resets, retraining and tuning of a card below its bridge |
| `DiskStats` | the disk statistics of ten kernel generations |
| `ErrInjection` | the bit maps of injected errors |
| `ServiceProofs` | proofs about `PciBus`, for any cards, and `ErrInjection`, for any geometry and any number of callers |
| `Transfers` | the answer to a SCSI command; the debug character device |
| `PoolLife` | control file and sysfs directory of a pool |
| `Services` | the five service modules side by side, one active at a time |
| `MCServices` | their cards, geometry and offsets |
| `CountProofs` | proofs about `SmbLock` and `DiskStats`: the counts are exact |
| `KernelProofs` | proofs about `PoolLife`, `GfpXlate` and `RtWorkqueue` |

### SmbLock
`count` is `map_table.memblock_lock[list_index]`; `pc[t]` is the place of a
thread in a macro. `smb_simultaneously_lock` adds one and spins while the
counter is negative (`SpinRead` is a read that ends the loop);
`smb_simultaneously_lock_retry` gives up after its retries (`RetryGiveUp`);
`smb_exclusively_trylock` subtracts the bias and, if it was not alone, adds it
back (`TrylockUndo`) in a second step. The bias (0xffff) is a constant.
Refinement to `RwLock`: a thread is a reader or the writer there according to
its `pc`.

### RtWorkqueue
A section under `rtwq->lock` is one step; unlocked reads, changes of task state
and wake-ups are steps of their own. `tpc` follows `rt_thread_fn` statement by
statement, `tstate` is the task state (`schedule` blocks unless it is RUNNING, a
wake-up makes it RUNNING), `policy` the scheduling class really in force and
`isRt` the code's belief. `qpc` has the caller between unlock and
`wake_up_process`; `fpc` follows `shannon_wait_event` (test, prepare, test again,
schedule). A work's function may queue itself or another work. The number of queue
calls is not bounded: a work is on the list once.

### IoPath
`pc[i]` is the place of request `i`; `holds[i]` what the driver holds for it
(structure, table, bounce pages, open statistics, a count in `pending_bios`);
`bufs[i]` where its data is (the caller's pages, bounce pages, the medium);
`answers[i]` and `status[i]` how often and how it was ended. `shannon_bio_endio`
stores a negative errno in eight bits (`error % 256`), `shannon_end_request` maps
its flag. The labels `end_io_acct`, `free_sg_list`, `free_sbio` of the handlers
are actions, with the differences between the three handlers (only the device's
handler frees bounce pages, only the namespace's decreases `pending_bios`). The
core is external: it accepts (`CoreAccepts`) or rejects (`CoreRejects`), transfers
or fails, calls `shannon_complete_fs_io`, and frees structure and table
(`CoreFree`). A failing device, a device that turns read-only, and the removal of
the namespace (freeze, wait for `pending_bios`, free) are the environment.

### SgConvert
`req` is the request, as the block or SCSI layer passes it: segments that lie in
one page each, with the `bi_idx` of each for a bio. One step is one round of a
loop: `Segment` is the head of the segment loop with the two hole tests, `Split`
the inner loop that appends one entry, `AllocPage` and `AllocPageFails` the
rounds of `shannon_alloc_bounce_pages`, `CopyChunk` a round of
`shannon_copy_bounce_pages`. `FreePages` gives the pages back, on completion or when
`shannon_make_request` gives the bio up after the conversion; `RejectBio` is the way
out that does not (a submit task, `shannon_make_request_ns`). `sgCount` is the size
computed beforehand, `sg` the entries written. A page has 8 units, a sector 4, the
alignment is 2.

### WaitQueue
`next` and `prev` are the real list pointers. A section under `q->lock` is one
step, except for the removal of a descriptor by a waker: `shannon_finish_wait`
reads the descriptor's pointers without the lock, so `Unlink`, `SelfNext` and
`SelfPrev` are three steps, and `ReadNext`, `ReadPrev` two. Memory is sequentially
consistent; what a weakly ordered machine may add is not modelled.

### GfpXlate
A flag word is the set of its bits. `LegacyBit` is the encoding compiled into the
core, `Modern` (a constant) that of the running kernel; `Becomes` is the table in
`shannon_gfp_decode_legacy`. `asked[c]` is the request in its caller's own flag
names, `gfp[c]` the word; `Wanted` and `Read` say what a request means to its
author and what the running kernel reads in a word. `mempool_alloc` is the
kernel's. Names a kernel's configuration leaves out are absent from the slab
encoding. The words with legacy `__GFP_REPEAT` or `__GFP_NOFAIL`, whose bits are
this kernel's reclaim bits, are excluded by `GfpAssumption`: the header says that the
core does not pass them, and the discriminator would take them for native.

### DriverLife, DiskLife, SysfsTree
`dev[d]` is everything the driver keeps for device `d`: the queue and what its
`queuedata` points to, the gendisk and its references, limits, SCSI host, sysfs
objects, hwmon files, users. An operator of `DiskLife` or `SysfsTree` is one function
of the source on that record, so a handler is a composition of them; a parameter
(`stop`, `ok`) says which kernel call inside it fails. `pc[d]` is where a probe or
attach stands, so that those of two devices, writes of module parameters, control
files and users interleave. The core's part (`shannon_probe`, `shannon_detach`,
`__shannon_remove`) is external, taken as the sequence of calls it makes into the
sources. Misuses go to `faults`, objects nobody points to any more to `lost`, and
`causes` says what went wrong before: the properties do not say that nothing is ever
lost, but exactly what is, and why. A gendisk that cannot be allocated is NULL, which the
test for an error pointer lets pass; the thread that follows it ends there (`dead`).

### PciBus
`pci.bus` has the three words of the bridge that helpers read, change and write back
(slot control, link control, bridge control), each a bit of the helper and the `rest`;
`loc` is the word held across a sleep; `dev` the card's configuration, `saved` its
saved copy. Between two sleeps is one step. The card drains and comes back when it
likes (`Drain`, `Ready`), port services write the bridge (`PortServiceWrites`).

### DiskStats
`fly` has the in-flight counters by CPU, partition and direction. Accounting is one
step, as preemption is off; the reader takes a CPU per step. `Repartition` changes the
table while requests are in flight. From 5.7 on the counting is the block layer's
(external): on the whole disk, and from 5.15 on, for the requests in flight, only on the
block device the bio was sent to. Nanoseconds are counted by 8, modulo 2^29, so that
the product the code takes modulo 2^32 fits TLC's integers; the ghost `lost` has what that
product cut off.

### ErrInjection
A map is the set of its bits; sizes are rounded as the code rounds them, and a bit
beyond the end goes to `stray`. `Short` has the maps of a geometry that this makes too
small for their bits. The addresses marked are those of `Addrs` that a lun has.
`mark_fake_rd_bad_lunpba_raidmutex` is a step per lun looked at and one for the mark.
`met` has the groups and sectors in which two such calls overlapped.

### Transfers
The answer to a command is one step with the code's loop as a fold over the scatter
list; a read or write of the debug device is a step per piece. `missed` has the blocks
copied without having been made sure of.

### PoolLife
`at` is the step in a pool's life, `mtx` the kernel's `misc_mtx`, held over `open` and
needed to deregister. `misc_register` may find no minor, which leaves `this_device` NULL,
or no device, which leaves an error pointer there that `shannon_sysfs_init_pool` follows;
its result is not tested, and deregistering what was never registered returns before the
mutex. `open` is two steps, under `pool_sem` and after it. Cards are probed and removed
one at a time.

## 3. Runs

| Run | Instance | States | Shows |
|---|---|---|---|
| `smb` | 4 threads, bias 5, 2 retries | 59,292 | counter exact, refinement of `RwLock`, spinning ends once exclusive attempts die out; no deadlock |
| `rtwq` | 3 works, 2 callers, flusher, destroyer, loop limit 2, any number of queue calls | 95,892 | listed once, no lost wake-up, exits drained; every accepted work is taken, every flush returns once queueing dies out |
| `rtwq_destroy` | 1 caller, loop limit 1 | violation | destroy may wait for ever |
| `io` | device bio + namespace bio, pool of 1, with and without work queue | 711,232 | resources, counters, namespace life, error status, refinement of `IoContract` |
| `io_live` | namespace bio + blk-mq request, pool of 1 | 286,040 | both are answered |
| `io_nomem` | two blk-mq requests | violation | -ENOMEM fails the request |
| `sg` | up to 3 segments, cuts at 0, 1, 2, 4, 5, 8 | 70,347 | table large enough, exact cover, copy exact, aligned or marked as a hole, pages returned or, on the ways out named, all left; loops end |
| `sg_hole` | the rest of a split bio | violation | a hole may be missed |
| `waitq` | 3 waiters (1 interruptible), 2 wakers (1 tests first) | 2,123,472 | list sound, descriptors alive while used, no lost wake-up; no deadlock |
| `gfp` | 2 callers, pool of 1, 10 words of the core, 5 native ones, two slab encodings | 71,414 | requests and caches are what was asked for, the pool's promise; no deadlock |
| `life` | 2 devices, 2 attributes, 3 calls that fail or 1 with a parameter written, 2 probes, all 16 settings of the parameters | 2,224,161 | every misuse and every loss is traced to the trouble that explains it, live disks are whole, resources released in reverse |
| `services` | one service at a time: 7 cards with 2 calls; 10 kernel generations, 2 CPUs, 2 requests; 6 luns in 2 groups, 2 marks, 2 callers; all scatter lists of 3 entries and debug devices of 2 blocks; 2 pools with 2 files | 1,433,334 | resets undo what they do and return, statistics exact, injected errors fail what was asked and nothing else, transfers exact, pools outlive files |

Why the bounds are enough. Threads and requests are treated alike, and every
interaction is between two of them, or between one and the environment: with two
requests and a pool of one structure each waits for the other at some point. A
one-off run with one request of each kind and a pool of two (30 million states)
found nothing more; for blk-mq requests the safety properties rest on that run and
on the proofs. Four threads let two upgrade while one spins and one
retries. A loop limit of 1 or 2 stands for 1000: the limit is only compared with
a counter. The safety properties of these three are proved without bounds. For the
conversion, three segments give a first, a middle and a last one, and the cuts
have a place of each kind: page end, sector end, aligned and unaligned. Three
waiters give a descriptor with neighbours on both sides other than the head.

In `life` up to three calls fail, or one fails and a parameter is written before or
after it: every failing call alone, with every other and with every write. Two devices
share only the module's resources and the block operations, and two probes let one
device be bound twice or two devices once. Two writes, `scsi_mode` switched and switched
back among them, were in a one-off run with any two troubles (3,912,851 states, no
error); the properties of `life` are proved without any of these bounds (section 4). In
`services` the cards are one for each way through the reset
methods and the retraining; a clock jump of 1100 jiffies is just beyond 2^32 ns, one of
1 below; the bit maps of pages, sectors and blocks fill their memory to its last bit, and
the addresses are the first ones and the last page, sector and block of a lun, so that
neighbours meet and the last mark is the last bit of the memory. The services share no
state with each other, so they are explored side by side and not in each other's company:
the run is five state spaces.

Deadlock is checked for the lock, the wait queue and the mempool. In the other runs the
system may stop: every request ended, the queue destroyed, the module unloaded, or the
bound on calls reached.

Fairness. Kernel threads, work items and waiters that can run are run (weak
fairness of each step of each thread or request); a one-jiffy timer expires. Nobody is
obliged to submit, queue, flush or destroy. `alloc_sbio` under GFP_NOIO waits
for a structure and is served if structures keep coming back (strong fairness
of that one step, the guarantee of a mempool's wait queue). For the map-table lock, a
reader is served only if exclusive attempts die out: the macros are not fair,
and the premise of `LockReturns` says so. A flush waits for an empty list and not for
the works that were on it, so `FlushReturns` has the premise that queueing dies out;
`WorkRuns` needs none. The wait queue is checked for safety
only: `WokenInTime` says that whoever sleeps on a true condition has a waker under
way. In `services` only the thread inside a PCI call is fair: it sleeps for fixed times
and waits for nobody. The hardware is not: `CallReturns` holds for a card that never
finishes its transactions.

## 4. Proofs

All by induction on an invariant, with one step per action, for every value of the
constants that the named assumptions allow; liveness stays with TLC.

* `CountProofs`, `SmbLock`. Assumes finitely many threads, fewer than the bias, and a
  counter that fits an `int`. `CountExact` (the counter is the number of counted
  threads less a bias per exclusive or undoing one) is not enough alone: exclusion
  needs that a thread becomes exclusive only when the sum is that of a single
  reader. Theorems: `TypeCorrect`, `CounterIsExact`, `MutualExclusion`,
  `SmbImplementsRwLock`.
* `CountProofs`, `DiskStats`. For any number of CPUs and requests and durations of any
  length. A request may start on one CPU and partition and end on others, so single
  counters mean nothing: the invariant has the sum over the CPUs (`CountSound`), what an
  undisturbed reader has gathered of it (`ScanSound`; before 5.0 there is only one word),
  and that time counted is time spent less what durations lost in 32 bits (`TimesAgree`).
  `StartFields` and `EndFields` say what accounting does in every generation, `SumsMove`
  what one counter does to the sums. Theorems: `CountersAddUp`, `TimesAreTold`.
* `KernelProofs`, `RtWorkqueue`. `RtInv` strengthens the checked invariants with the relation
  of scheduling class and `is_rt` (`ClassInv`), with what the destroyer has done when
  the worker is where (`DrainInv`, `StopInv`, `ExitInv`). Theorems: `RtTypeCorrect`,
  `ListedOnce`, `TakeIsSafe`, `WakeupsAreKept`, `IdleIsRealTime`, `ExitsDrained`.
* `KernelProofs`, `GfpXlate`. From `GfpAssumption` (distinct bits, zone bits in place, no word
  of the core with a reclaim bit): `DecodedNames` says which names a decoded word
  has, `Sources` where each comes from. The invariant adds to `PoolPromise` that each
  caller carries its request's word, then its translation. `SlabAssumption` says of a slab
  encoding only that its bits are distinct and its names among those the header translates
  to. Theorems: `XlateIdempotent` (every word, no assumption), `IntentIsKept`,
  `AllCanReclaim`, `PoolPromiseKept`, `SlabFlagsAreKept`.
* `ServiceProofs`, `PciBus`. For any set of cards and any bounds. What a call leaves behind depends
  on words it holds across sleeps, so `BridgeInv` says for each place in a call which
  word (the register or the local copy) is the one found, unless a port service wrote
  the register; `CardInv` where the good configuration of the card is; `ResultInv` which
  resets go with which result. Theorems: `ConfigurationIsKept`, `ResultsAreHonest`.
* `IoPathProofs`. `Good(i)` says for each place of request `i` what it holds, where
  its data is, which `ret` it carries and whether it was answered; it depends only
  on the request itself, so a step of another request preserves it (`Frame`,
  `SameGood`). Counters are cardinalities of sets of requests (`CountStep`).
  Theorems: `TypeCorrect`, `CountersAreExact`, `NamespaceOutlivesUse`, `EndIsLast`,
  `ResourcesReturned`, `ErrorsAreReported`, `PathKeepsContract`. Assumption on the
  core: it rejects with negative numbers that are not multiples of 256 (with
  -ERESTARTSYS, -512, the eight-bit status would read as success).
* `WaitQueueProofs`. For any number of waiters and wakers; assumes that the head is none of
  them. `ListSound` speaks of the pointers while the lock is free, and is not inductive:
  the invariant names the list as a sequence `q[1..n]` between the head and itself
  (`RingOf`), says which descriptors are on it or half removed by which waker
  (`WaiterInv`, `WakerInv`), and that each sleeper on a true condition has a waker whose
  walk has yet to come to it (`WakeInv`, by the order of `q`). Theorems: `ListStaysSound`,
  `DescriptorsStayAlive`, `NoWakeUpMissed`.
* `SgConvertProofs`. For requests of any length; `SgAssumption` says that pages are whole
  sectors and sectors whole alignment units, that the logical block is a page, and what
  the block layer guarantees of segments. On own pages the invariant says of each entry where
  in the request it lies and that it crosses neither page nor block (`Whole`, `Follows`), and
  bounds their number by the segments and block ends passed (`InBlock`): hence the table
  size. With bounce pages the n-th entry ends at `PageEnd(n)`, and each copy is of the same
  bytes on both sides (`Copied`). Sums of lengths are recursive functions; what they
  compute is proved from the least element of a set of numbers (`NatSets`). Theorems:
  `TableIsLargeEnough`, `TableIsTheRequest`, `CopyIsExact`, `EntriesAreAligned`,
  `AllPagesReturned`.
* `DeviceRecord`, `DriverLifeInv`, `DriverLifeProofs`. For any number of devices, attributes,
  failing calls, parameter writes and probes. `DevInv(s, p, e)` is about one device: its
  record, the step it stands at, and what it shares with the others (parameters and
  causes so far). An operation is described by the fields it changes
  (`...Fields` lemmas), a step by how the record moves (`...Step`), and a step of another
  device only adds causes (`Later`), which keeps what was explained explained. The module's
  own resources are a list, given back from its end. Theorems: `FaultsStayExplained`,
  `NothingStaysBehind`, `LiveDisksAreWhole`, `ReleaseOrder` (an action property).
* `KernelProofs`, `PoolLife`. For any pools and finitely many files. An open in progress holds
  `misc_mtx` (`FileInv`), without which a registered pool that was in the list cannot get
  beyond `bare`: only of one that failed to register may the open find the minor freed
  (`Steady`, `LateInv`). The pool it looks for is registered, so it never is that one. The
  count is exact by `RefInv`, where the pool's own reference lasts until it is destroyed.
  Theorem: `PoolsOutliveFiles`.
* `ServiceProofs`, `ErrInjection`. For any geometry and any number of callers. A mark already made
  in the group of a call that looks is still ahead of it, or the call that made it was
  met (`MarksAhead`); marks stay (`MarksStay`), and two calls in one group at once have
  met (`CallsMeet`). The walk that chooses two luns is followed group by group. Bits of two
  addresses never coincide (`BitsDistinct`), so the maps are a ledger of what was
  asked (`Ledger`), and a map that is not too small answers for every address exactly what
  was asked (`TestsAreTrue`); no assumption on the sizes. Theorems: `RaidMarksAreExclusive`,
  `PairsAreFound`, `OnlyWhatWasAsked`, `ShortOnlyByRounding` (which maps can be too small,
  and when).

Some theorems state what no run checks, as the run would add nothing to the proof:
`MutualExclusion`, `TakeIsSafe`, `IdleIsRealTime`, `AllCanReclaim`, `XlateIdempotent`,
`ResultsAreHonest`, `RaidMarksAreExclusive`, `ShortOnlyByRounding`, `TypeCorrect`,
`RtTypeCorrect`.

The theorems about a service are about its own specification (`StatsSpec`, `PoolSpec`,
`PciSpec`, `InjSpec`), of which `Services` runs the steps.

Only model-checked: liveness (`LockReturns`, `WorkRuns`, `FlushReturns`,
`EveryRequestEnds`, `ConvertEnds`, `CallReturns`), which the proof system cannot
express with fairness; and `Transfers` (`FillExact`, `CdevExact`), whose operations are
folds over sequences, for which there is no induction in the prover.

## 5. Findings

1. `rtwq_destroy`: `rt_thread_fn` tests `kthread_should_stop` before it sets its
   state for sleeping, so the wake-up of `kthread_stop` can be lost and module
   removal hangs.
2. `io_nomem`: the comment says a request that meets -ENOMEM is queued again; it is
   failed with BLK_STS_IOERR.
3. `sg_hole`: the comment exempts only the last segment from ending at a page end;
   the code finds the last one by comparing `bi_idx`, which for the rest of a split
   bio does not start at 0, with a number of segments, so an earlier segment is
   exempted and a hole is not marked. (With an entry of several pages the same
   comparison sets `has_hole` without a hole.)

Observed in `RtWorkqueue`: the loop counter is reset whenever the list is seen empty,
so a real-time streak has no bound; and the one-jiffy sleep starts without a look at
the list, so it lasts its jiffy even with work waiting. A flush waits until the list is
empty, so works that keep being queued, by others or by a function that queues itself, keep
it waiting for ever.

Observed in `IoPath` and `SgConvert` and stated by `OnlyBounceLeaks` and
`BouncePagesReturned`: bounce pages are lost when a
namespace bio, or a bio in a submit task, is rejected after conversion.

Observed in `DriverLife`, and named by `FaultsExplained` and `NothingLeftBehind`:
* Writing `shannon_scsi_mode` or `shannon_use_iosched` while the module runs makes later
  calls take one structure for another, as each reads the parameter again
  (`shannon_block.c:124`, `:410`, `shannon_module_init.c:515`). The comment at
  `shannon_block.c:32` calls the second one unused in namespace mode; the disk functions
  read it for namespaces too.
* A gendisk waiting in `queuedata` is lost when its queue is cleaned up before a disk was
  attached: always in SCSI mode, with `auto_attach=0`, and after a failed probe or attach.
  With an I/O scheduler, the reference of an mq queue is never dropped from 6.0 on.
* When `add_disk` fails, `shannon_add_disk` puts the disk and `shannon_detach` deletes and
  puts it again.
* `blk_alloc_disk` and `blk_mq_alloc_disk_for_queue` return NULL when they fail, up to 6.8;
  the code tests for an error pointer and follows the NULL (`shannon_block.c:1880`, and the
  debug line at `:137`).
* `scsi_host_alloc` is not tested; the host is lost when the core's probe fails, and removed
  at the end even if it was never added.
* Attaching with an I/O scheduler clears `submit_bio` in the operations of all disks, for good.
* A control file keeps a bare device pointer, which is stale after an unbind or a failed
  probe. The result of `register_blkdev` is not tested.

Observed beside it: `shannon_sysfs_init_ns` deletes the disk's object when the link fails
(`shannon_sysfs.c:801`); objects are never put; the comment at `shannon_module_init.c:87`
gives getgeo 64 heads and 32 sectors, the code sets 32 heads. `alloc_sbio` is used without
a test for NULL (`shannon_block.c:1626`), under GFP_NOWAIT for SCSI commands.

Observed in `PciBus`: `shannon_set_bridge_timeout` masks with 0xf where ~0xf was meant, and
clears all other fields of Device Control 2 (`shannon_pci.c:262`); the power management and
bus resets return -ENOTTY after they reset, so the first is followed by the second; words of
the bridge are written back over what port services wrote meanwhile; the configuration is
restored after a fixed sleep, onto a card that may not be back.

Observed in `DiskStats`: durations wrap at 2^32 ns on kernels 4.19 to 5.6
(`shannon_device.c:739`); the counters of one partition drift when the table changes while
requests are in flight, those of the disk do not; from 5.7 to 5.10 the in-flight reading is
only 0 or 1; from 5.15 on it misses the requests sent to a partition, which the block layer
counts on the partition's own block device. The reader for 5.8 to 5.14 names `hd_struct`,
which ends with 5.10: it does not compile for 5.11 to 5.14.

Observed in `ErrInjection`: release leaves `rwe_err_buf_done` set and a failed init leaves the
pointers of freed maps; the twin maps of the two heads share a word unless luns times blocks is a
multiple of 64; the luns chosen are numbered within the first group whatever the group;
two overlapping RAID marks may both be made; sizes are rounded down to bytes before they are
rounded up to pages, so with a number of bits that is no multiple of 8 the last of them may be beyond the end.

Observed in `Transfers`: the index given to `check_and_alloc_memblock` is right for reading a
map table and writing a temporary one, but a byte offset for writing a map table
(`shannon_cdev.c:132`) and shifted by two for reading a temporary one; a fault in the middle of a call
leaves the file position advanced.

Observed in `PoolLife`: the list of pools is read and extended without `pool_sem` when a card
arrives. The result of creating the miscdevice is not tested: without a device the sysfs
directory is asked for below an error pointer, an oops; without a minor the pool lives on
without its file. Only the kernel's `misc_mtx` makes the last read of `c->minor` safe: the
removal of a pool that failed to register does not take it, and an open of another pool may
read the minor of the freed one (`late`), which `PoolOutlivesFiles` names.

## 6. Plan

1. Proofs: refinement of an abstract event by `WaitQueue`; the copies of `Transfers`.
2. Namespace disks and their sysfs objects, once the core's calls agree with the source.
3. The state of a SCSI command, as far as the sources hold it.
4. Rate limit, pm_qos, `find_next_le_bit` and striping as operators against a reference.

## 7. Not modelled

* The core (no source). Where it calls into the sources it is external, reduced to the calls
  it makes.
* Namespace disks: the shipped core calls `shannon_alloc_disk` with one argument where the
  source takes two, so what the queue would be is undefined.
* SCSI commands between `queuecommand` and their end, and the ioctls: their state is in the
  core.
* Wrappers of one kernel call (`shannon_kcore.c`, `shannon_sched.c`, `shannon_time.c`,
  `shannon_dma.c`, `shannon_file.c`, MSI-X and register access in `shannon_pci.c`): there is no
  state of the driver's between two of them.
* Branches for kernels before 6.0 in `shannon_block.c`, except in `DiskStats` and `Transfers`.
* Weak memory order; formatting of sysfs values and log messages; build and host scripts.
