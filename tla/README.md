# Verification project for the OpenSHMEM reference library on GASNet

This directory holds TLA+ models of the library, the TLC runs that check them,
and TLAPS proofs of the safety of ten of its parts: locks, barrier, atomics,
transfers, global variables, start-up and shutdown, broadcasts, collects,
reductions, symmetric heap. Paths in this file
are relative to the root of the repository; `CI` stands for
`src/comms/gasnet/comms-inline.h`. `PROJECT.json` lists components, runs,
mutants, the lines each definition translates, findings, hazards and theorems.

- [The system](#the-system)
- [Inventory](#inventory)
- [The modules](#the-modules)
- [The runs](#the-runs)
- [Fairness](#fairness)
- [What is proved](#what-is-proved)
- [Findings](#findings)
- [Divergences](#divergences)
- [What is not modelled](#what-is-not-modelled)
- [Plan](#plan)

## The system

A program is a set of PEs (processes), numbered from 0. Each has a symmetric
heap and symmetric global variables that the others reach with one-sided
operations. All communication goes through one header, `CI`, on top of GASNet:
implicit and explicit non-blocking puts and gets, active messages for atomics
and (with managed segments) for global variables, and GASNet's own barrier.
Everything else is built in C from those calls and from spinning on local
memory with `GASNET_BLOCKUNTIL`, which polls GASNet and so runs handlers of
active messages in the program's own thread. A PE may also have a progress
thread that polls.

      locks      barrier   broadcast   collect   reductions   symmetric heap   global_exit
        |           |          |          |           |          |     |            |
        +-----------+----------+----------+-----------+----------+  allocator       |
        |                                 |                      |  debug table     |
    atomics,      puts, gets, strided, fence, quiet         barrier_all             |
    wait_until          addresses                                |                  |
        +---------------------------------+----------------------+------------------+
                     CI  (environment, start-up, progress thread)
                                        |
                                     GASNet

What makes it hard: puts are implicit and non-blocking, so they land in any
order until a fence or quiet; a counter or flag another PE changes is reset
locally with a plain store; a PE may be a whole call ahead of another in the
same collective; handlers run in whichever thread polls; the same `pSync`
array is reused by consecutive calls; heaps may start at different addresses;
and a program may mix C and Fortran, whose types and units differ.

## Inventory

| component | source | state | operations | talks to |
|---|---|---|---|---|
| locks | `src/atomic/lock.c`, `CI` 2984-3159 | two 32-bit words per PE: tail, list node | set, test, clear | atomics (swap, cswap), puts, quiet |
| barrier | `src/barrier/` | `pSync[0..1]` per PE | `shmem_barrier` | atomic increments, quiet |
| barrier_all | `src/barrier-all/` | the algorithm chosen | `shmem_barrier_all` | quiet, GASNet's barrier |
| atomics | `src/atomic/atomic.c`, `CI` 908-1797 | a handler lock per type, a payload per request | swap, cswap, fadd, finc, add, inc, fetch, set, xor | active messages |
| wait_until | `src/atomic/waituntil.c`, `CI` 2651-2714 | none | wait, wait_until by type and comparison | puts and atomics of others |
| transfers | `src/ptp/`, `CI` 2172-2600 | table of explicit handles, GASNet's implicit handles | put, get, p, g, nbi, nb, wait, test | GASNet |
| strided transfers | `src/ptp/strided.c` | none | iput, iget | p, g |
| fence, quiet | `src/fence/`, `CI` 2455-2495 | as transfers | fence, quiet and their tests | GASNet |
| symmetric addresses | `CI` 556-611, `src/memory/symmtest.c`, `src/globalvar/` | areas of static variables | lookup, accessible, symmetry check | segment table |
| global variables | `CI` 1823-2164 | `put_counter`, `get_counter`, the chunk under way | put, get in chunks | active messages |
| global_exit | `CI` 2606-2640 | none | `shmem_global_exit` | active messages, fence |
| start-up, shutdown | `src/updown/`, `CI` 298-451, 723-845, 2829-2960 | status, segment table, replies, progress thread | init, finalize, bailout | GASNet barrier, active messages |
| environment, tracing | `src/utils/`, `CI` 672-704 | heap size, levels, log stream | parse, round, log | start-up, shutdown |
| argument checks | `src/utils/utils.h` 74-155 | none | up, PE number, symmetric address | status, addresses |
| broadcast | `src/broadcast/` | `pSync[0..1]` per PE | tree (default), linear | puts, fence, get, increment; barrier |
| collect, fcollect | `src/collect/`, `src/fcollect/` | last entry of `pSync`: the offset | linear | puts, barrier |
| reductions | `src/reduce/` | temporary target | all `to_all` calls | gets, barrier |
| symmetric heap | `src/memory/` | one mspace per PE, debug table, error code | malloc, align, realloc, free | barrier_all, one get |
| allocator | `src/dlmalloc/`, `src/memory/memalloc.c` | chunks, bins, tries, designated victim, top | malloc, memalign, realloc, free | none |
| hash tables | `src/uthash/` | buckets, insertion order | add, find, replace, delete, grow | none |
| Fortran interface | `src/fortran/` | none | one wrapper for each routine of C | all of the above |
| C interface | `src/shmem.h`, `src/shmemx.h` | none | what is declared, generic variants of C11 | all of the above |
| profiling interface | `src/pshmem.h`, `src/pshmemx.h`, the weak symbols of each file | none | the same routines by second names | all of the above |

What makes each one correct, and which of its behaviours are hard:

- **Locks.** At most one holder, in the order of the swaps; the next holder
  sees what earlier ones put; nobody is lost between a swap and the link that
  follows it, nor when the last holder gives up while somebody queues. Hard: the
  tail, the nodes and two kinds of puts change independently.
- **Barrier.** Nobody leaves before all have arrived, `pSync` comes back as it
  was, earlier puts have landed. Hard: counters are incremented by active
  messages and reset by plain stores, and the wait is for equality.
- **Atomics, wait_until.** Each is one atomic step between its call and its
  return; the payload is not touched after the caller has freed it; a wait ends
  if its comparison comes to hold and stays so.
- **Transfers.** Fences order puts; a source may be reused when the interface
  says so; descriptors are released when complete; each of some 200 routines
  moves the elements it was given, no more and no fewer, however a program names it.
- **Global variables, global_exit.** Transfers arrive whole; counters are zero
  exactly when nothing is outstanding; everybody exits, after flushing.
- **Start-up, shutdown.** The heap of a PE that runs is known to all; it has the
  size asked for; it is freed when nobody uses it any more; nobody waits for ever.
- **Collectives.** Whoever returns has the right data of this call, whatever the
  others are doing, and `pSync` is ready for the next one.
- **Symmetric heap, addresses.** All heaps stay alike; a put through one's own
  address reaches the block it was meant for.
- **Allocator.** Live blocks do not overlap and keep their contents; no byte is
  lost to fragmentation the algorithm was to undo; a request fails only if
  nothing fits. Hard: the invariants of tries and bins hold after long
  sequences of calls or not at all.

The hazards that a test would hardly reach are listed in `PROJECT.json`, each
at its line, with the properties that cover it or the reason why none does.

## The modules

| module | what it is |
|---|---|
| `FifoLock` | abstract: requests are served one at a time in order |
| `McsLock` | the lock, one action per access to shared memory; implements `FifoLock` |
| `McsLockProofs` | its theorems |
| `SyncBarrier` | abstract: nobody leaves the n-th barrier before all have entered it |
| `BarrierLinear` | `shmem_barrier`; implements `SyncBarrier` |
| `BarrierLinearProofs` | its theorems |
| `AtomicMemory` | abstract: each operation takes effect at one point between call and return |
| `Amo`, `AmoProofs` | the atomics (request, handler, reply) and wait_until, from C or Fortran; implements `AtomicMemory`; theorems |
| `Headers` | what the C headers let a program call, by name or by type, as sets |
| `Rma` | puts, gets, fence, quiet, wait_req, test_req of one PE |
| `Transfers`, `TransfersProofs` | every transfer routine of C and Fortran over `Rma`: elements, sizes, strides; it implements `Rma`; theorems about both |
| `GlobalVar`, `GlobalVarProofs` | transfers of global variables by chunks, and global_exit; theorems |
| `Environment` | the heap size from the environment, trace levels and the log, as operators |
| `Lifecycle`, `LifecycleProofs` | init, exchange of segment addresses, progress thread, barrier_all, finalize, exit, bailout; uses `Environment`; theorems |
| `ActiveSet` | what the models of collectives share: the set of PEs, the state of their calls |
| `TwoTree` | the tree of the broadcast as operators |
| `BroadcastTree` | the tree broadcast, with its inductive invariant; uses `TwoTree` |
| `Collectives`, `CollectivesProofs` | collect, fcollect, the linear broadcast and the reductions, over `SyncBarrier`; theorems about them and about `BroadcastTree` |
| `ReduceOps` | what the reductions compute for each operation and type, in C and Fortran; extends `Collectives` |
| `SymmAddr` | areas of static variables, lookup of symmetric addresses, as operators |
| `SymmHeap`, `SymmHeapProofs` | the symmetric heap, over `SyncBarrier` and `SymmAddr`; theorems |
| `Allocator` | abstract: blocks that do not overlap and keep what is in them |
| `Mspace` | dlmalloc's mspace as operators from heaps to heaps |
| `UtHash` | a table of uthash, as operators |
| `MemAlloc` | `memalloc.c`: an mspace and the debug table; implements `Allocator` |
| `MCMcsLock`, `MCLifecycle`, `MCSymmHeap`, `MCMemAlloc` | constants of those modules for TLC |

Conventions: PEs keep the code's numbers; a `pc` names the statement a PE is
about to execute; `Goto` moves it. A loop on shared memory
(`GASNET_BLOCKUNTIL`, `shmem_long_wait_until`) is the guard of the step after
it. A put is a record in `flight`, `net` or `puts` until a `Land` action takes
it out and writes its value. An operator named `Bug_...` is a plausible mistake
in the definition that follows it; nothing uses it, and substituted for that
definition it must break a property.

**Composition.** `BarrierLinear` is checked, and proved, to implement
`SyncBarrier`; `Collectives` and `SymmHeap` then take `SyncBarrier` as their
barrier (`Barrier == INSTANCE SyncBarrier`), with the quiet that precedes it.
`McsLock` and `BarrierLinear` take atomics and puts as `Amo` and `Rma` justify them:
an atomic is one step or, where the lock of the handler matters (the barrier's
increment), a load and a store under that lock; puts land in any order until a
quiet. `Transfers` extends `Rma`: each of its steps is a step of `Rma` for the
elements that a routine's arguments amount to, which is proved. `SymmHeap` takes
an allocator that any two PEs run alike, which `MemAlloc` is: it is a function of
the calls made. `Lifecycle` takes the heap's size from `Environment`.

**McsLock.** `tail` is word 0 of the lock on each PE, of which only the owner's
counts, `l_next` and `l_locked` are word 1. `Prepare`, `MarkLocked`, `Swap`, `Link`
and the two waits are the acquire; `Quiet`, `CSwap`, the wait for a successor and
`Handoff` the release. `LandLowByte` lets one byte of `l_next` land first, as the
comment in the source reports. `queue` is a history variable: PEs in the order
of their swaps. `LockWord` is the address of the lock on each PE; who its owner is
depends on it.

**BarrierLinear.** `round` and `thatpe` are the loops. `IncLoad`, `IncStore` and
`IncReply` are the increment on another PE under `amo_lock_long`; `ResetSync` takes
no lock, which is why `ResetIsUncontested` needs an argument. `step`, that is
`1 << logPE_stride`, is a constant.

**Amo.** One type (`DataType`) and one variable per PE. `OutLoad` and `OutStore` run
on the target under its handler lock, `BakValue`, `BakDone` and the unlock on the
caller, so that the flag, the value and the freeing of the payload can
interleave. Which operations exist depends on the type and on the language the
PE's program is in (`InFortran`). A `wait_until` is an operation on one's own
variable that returns at a moment its comparison holds.

**Rma, Transfers.** One PE, one call at a time; GASNet completes transfers in any
order. The source buffer changes between calls, and what a put carries is told
apart by the version it read. `Transfers` has the table of routines with the type
each one moves, computes how many bytes go where, with `int` and `size_t` wrapped
to `IntMod` and `SizeMod`, and gives the result to `Rma`; a strided call is a loop
of `p` or `g`.

**Headers.** A set for each family of routines that `shmem.h`, `shmemx.h` and their
`pshmem` counterparts declare, and a record for each generic variant: what it
selects by and the routine it names for each type. `Callable` is what a program may
call for its elements: a declared routine, or the one the variant selects if all it
names are declared. `Transfers`, `Amo` and `Collectives` take it, with the routines that are
defined and those that have a weak symbol, to find out which code a call reaches.

**GlobalVar.** `call` holds the loop variables of the transfer under way; `stuck` the
threads of a PE in which the handler of global_exit waits for its fence. The
counters are operators: requests not yet answered and transfers under way,
which is what the increments and decrements of the code add up to.

**Lifecycle.** A job is an environment, the host of each PE and the PEs that get no
memory. `barcount` counts GASNet's barriers by position, so that a PE that
calls one barrier too many meets the others in the wrong one, as in the code.
`shmem_barrier_all` is GASNet's barrier as well, after a quiet. `spoilt` remembers
the PEs that wrote to a closed log.

**BroadcastTree.** `pSync[p][0]` goes from -1 to 0 (entered), 1 (data is there) and
back; `pSync[p][1]` counts children. The data of call n is n.

**Collectives.** Data is symbolic: an element knows its PE, call and index; a
reduced element is the bag of PEs it combines, so "each exactly once" does not
depend on the operation. `ReduceOps` adds what the seven operations yield for each
type and which routine a program reaches. Whole numbers are bits, a few of them for each
width; floating values are a number, one of two zeros or a NaN, which is all that a
comparison tells apart. A minimum or maximum is that of the elements combined after the
last NaN, if there is one (`IsExtreme`). Bitwise operators keep the module out of
the proofs, which are about `Collectives`, but the run is of both. `MaxCount` bounds
the elements that a PE may pass.

**SymmHeap.** First fit stands for the allocator: among all places, or, for
`memalign`, among those whose address on this PE is aligned (`PlaceAligned`); that
`memalign` asks for more than it keeps, and may fail for it, is in `Mspace`. A block is
named by the call that allocated it, so that "the block a put was meant for" can
be stated. Fortran calls count in words of `Scale` bytes. Addresses are those of
each PE; a put looks the target's up with `SymmAddr`, in the heap or among the
static variables. `ExecutableAssumption` says what a program's executable is like: the
heaps do not overlap static variables, and each variable the program puts to is in one of
the three sections the table reads, of which there is one each, ahead of the symbol table.
A PE puts to a block (`InUse`) when the PEs have met since its allocation and
nobody has released it by `shfree_nb`, which no barrier precedes; a block with puts on
their way is not released that way (`Settled`). `shfree` quiets before it releases.

**Mspace, MemAlloc.** A heap is a record of chunks, bins, tries, designated victim and
top; an operator takes the heap and a request to the heap after it, statement by
statement where the order matters (splitting, coalescing, unlinking, trie
insertion). Sizes, addresses and thresholds are those of the 64-bit build. What
the operators answer was compared with the compiled C library: on the same
sequences of calls both returned the same addresses.

## The runs

| run | instance | what it shows |
|---|---|---|
| `mcs` | 3 PEs, unbounded calls | mutual exclusion, FIFO order as a refinement, writes published, every request granted |
| `barrier` | 3 PEs, stride 2, 2 calls, a put each | synchronisation as a refinement, flush, uncontested resets, restored `pSync`, all leave |
| `amo` | 2 PEs, one in Fortran, one call each of any operation or wait, 2-bit type | atomicity as a refinement, no use after free, completion |
| `rma` | any routine, 3 calls, 2 elements, strides up to 2 | fences order puts, puts keep their value, descriptors, elements |
| `globalvar` | 2 PEs, 3 transfers, 3 bytes in chunks of 2, either may exit | whole transfers, gets see puts, acknowledged chunks at exit, transfers return |
| `lifecycle` | 3 PEs, four jobs, one barrier_all, a put | heaps known and there while used, of the size asked for, all come and go |
| `broadcast` | 5 PEs, stride 2, 3 roots, 3 calls | data, restoration, no call disturbs another, all return |
| `collectives` | 3 PEs, one in Fortran, 2 calls of any collective | slices in place, the root's data, each PE combined once, the values of each operation; no deadlock |
| `heap` | 3 PEs, 3 calls, debug build, heaps at different addresses | heaps alike, puts land in their block, live comparison |
| `mspace` | one heap of 2600 bytes, four histories, 3 calls | the allocator as a refinement, consistent lists, nothing lost, best fit, table |
| `mcs_unaligned` | 3 PEs whose addresses of the lock differ | finding: mutual exclusion fails |
| `global_exit_in_put` | 2 PEs, one puts, the other exits | finding: a PE never exits |

Safety and liveness of a component are checked in one run under its fair
specification. Every property of a passing run has a mutant: a plausible mistake in one
definition, under which TLC refutes the property with the run's own constants.

**Why the bounds are enough.** Three PEs are the fewest with a holder, a waiter and
somebody who is just queueing; with a left neighbour, oneself and a right one;
with two PEs that race about a third. Two calls are the fewest in which a PE can be
a call ahead; the collectives and the heap calls end with all PEs having arrived,
so none can be two ahead, which the barrier's proof shows in general
(`PhasesAreClose`). Three calls are used where there is no such barrier
(`broadcast`: a PE may return while others are two calls behind its parent) and
where a sequence is the point (`rma`; `heap`: allocate, free, reuse). Five PEs
give a root with two children, one of which has two of its own and one none. Three bytes in chunks of two, and three elements in chunks of two, give a
whole chunk, a remainder and a seam. One call of each PE is enough for two
atomics to overlap in every way, handlers being serialised by one lock per PE.
The lock has no bound at all but the number of PEs.

Bounds of single runs:

- `amo`: a `long` of two bits, operands 0 and 3, so that additions wrap; five
  comparisons (`ne` is the negation of one of them). Unknown codes of
  comparisons end the program and are left out.
- `rma`: a call is any routine of the C and Fortran tables with any number
  of elements and any strides up to the bounds (`Sample`: those of two kinds of element are
  made again, later in a program). In an `int` of 64 values the length of two
  elements of 16 bytes overflows; a `size_t` of 256 values holds every length.
- `lifecycle`: a job with a heap to be scaled and rounded, messages on and hosts
  numbered downwards; one in which a PE gets no memory; one with an unknown unit
  (the size is then left unset: `Garbage`); one with a log file and an unknown
  algorithm. A `size_t` of 256 values, pages of 4 bytes and units that double keep
  the arithmetic small; `HeapAsAsked` compares with numbers that do not wrap.
- `collectives`: the first call moves elements of 8 bytes, the second of 4
  (`Wide`); counts 0 and 3 for the call that takes one from each PE.
- `heap`: bases 21, 23 and 21, so that heaps overlap as those of different processes
  may, and an alignment of 2, which the bases agree about but none is a multiple of, so
  that an aligned block is not at an aligned place of the heap. The bases of real heaps are
  multiples of a page, so they agree about every alignment up to that; the menu has `malloc`, `align`, `realloc`, `free`, the `_nb` variants and the
  Fortran routines. The call at which sizes differ is given positive ones.
- `mspace`: requests that are small, large and too large, an alignment above the
  default; histories that leave a tree with grandchildren, rings of equal sizes
  and several bins in use. A hash with few values makes entries share buckets, and
  two buckets to start with make the table grow.

**What the program may do** is a parameter. In `broadcast`, calls with one root
follow each other freely and the program synchronises before it passes another
(`SeparateRoots = TRUE`). In `collectives` it synchronises only after a linear broadcast
(`Separated = {"broadcast"}`). In `heap` the second call may pass different sizes
on different PEs (`Differing = {2}`).

**Deadlock.** `collectives` and `mcs_unaligned` check for it; in
`collectives` the end of the last call is a step of its own, `Finished`,
so that any other stop is reported. Elsewhere `CHECK_DEADLOCK FALSE` is used
because programs end: after the last call, after exit, or when a PE has exited
with a fatal message and the others wait for it. That nobody else hangs is what
the liveness properties of those runs say (in `mcs`, `LockGranted`); `rma` and `mspace`
have one process, whose calls end when the bound is reached.

## Fairness

- A PE in a library call keeps running: weak fairness of its steps. A step that
  waits is enabled only when its condition holds; conditions on one's own flags
  stay true until the waiter itself resets them, so weak fairness suffices. A
  `wait_until` is such a step too, which is why `OperationsComplete` promises its end
  only if the comparison comes to hold and stays so.
- Puts land and transfers complete: weak fairness for each source.
- Handlers run on a PE that polls. A PE polls whenever it waits in the library, or
  if it has a progress thread. In `Lifecycle` a running program polls because it
  calls the library again and again: a strong fairness assumption that a program
  computing for ever would not meet. In `Amo`, delivery
  competes for a handler lock, which is assumed fair (strong fairness).
- The holder of a lock clears it in the end; nobody is obliged to ask for one.
- A collective is called by all PEs of its set: fairness of `Call` in
  `BroadcastTree`, which is the interface's rule. In `BarrierLinear`
  nobody is obliged to call; `AllLeave` says that those who have met go on.
- Nobody is obliged to finalize, or to call global_exit.

## What is proved

Eight modules, `...Proofs`, hold the theorems. TLC checks each property they state as
well, and the inductive invariants `IInv` of the lock and of the transfers as invariants of
their runs (that of the tree broadcast holds in its run too; it is not listed there). All
theorems are about the specifications the runs check, with the constants left open; the
assumptions on them are named in the modules that declare them, and TLC evaluates them on
every run. Hypotheses beyond those are stated in the theorems and given here.

**The lock**, for every number of PEs up to 2^15 (`l_next` is an `int16_t`) and any
number of calls, under `OwnersAgree`: all PEs compute the same owner for the lock's
address. Without it the property is false (finding `mcs_unaligned`).
`LockInvariant` proves `IInv`. Mutual exclusion alone is not inductive: whether two
PEs hold the lock depends on the tail, on who is blocked, and on the puts on their
way. `IInv` says: `queue` holds the PEs between swap and cswap (`QueueMatchesPc`);
the tail names its last (`TailNamesLast`); its head and nobody else can get in
(`HeadHasLock`, `OthersAreBlocked`); `l_next` is the next one in the queue or not
there yet (`NextIsSuccessor`); puts on their way are those the queue calls for
(`TrafficIsExpected`); and a PE that waits in release has a successor. From it follow
`LockMutualExclusion`, `LockPublishesWrites` (the quiet in release) and
`LockImplementsFifo`, a refinement: a swap is a request, entering is entering,
the end of a release is leaving, all else stutters.

**The barrier**, for every active set and any number of calls. `BarrierInvariant`
proves `IInv`: with `Phase(p) = 2 * done[p] + round[p]`, a counter is the number of PEs
whose increment for the round it counts has been stored (`CounterCounts`); phases
differ by at most one, and whoever is ahead has had the other's increment
(`PhasesAreClose`); whoever resets has had all (`ResetHasAll`); the handler that
holds the lock has read the present value (`LockHolderIsCurrent`). The counters
alone are not inductive, because a reset is right only if no increment for the
next use of the counter can come before it. From it follow
`BarrierResetIsSafe`, `BarrierFlushes`, `BarrierRestoresPSync` and
`BarrierSynchronises`, the refinement of `SyncBarrier` on which the collectives rest.

**Transfers**, for any number of calls and stores. `RmaInvariant` proves `IInv`:
explicit transfers are in the table until freed, a fence under way is the last
call and knows which half of its wait is over, blocking transfers still see the
source they were given (`InProgress`). `PutsAreOrdered`, `PutsKeepTheirValue` and
`ReleasedIsComplete` follow.

**The interface over them**, for any bounds on elements and strides and any widths
of `int` and `size_t` in which 16 bytes an element fit (`TransfersAssumption`).
`InterfaceImplementsRma` shows that `TransfersSpec` implements `Spec` of `Rma`: each call of a
routine, and each element of a strided one, is a `Call` of `Rma`, everything else
is a step of the same name. So `InterfaceInvariant`, `ElementsAreOrdered` and
`ElementsKeepTheirValue` come from the theorems above. `CallsMoveTheirElements`
rests on `CalledByItsType` (what the headers let a C program call for its elements is the
routine for their type, under either name) and on an invariant of its own: what a call has moved so far and what is left of a
strided one add up to what its arguments name.

**Global variables**, for any number of PEs, any size of the variable and of a chunk
(`GlobalVarAssumption` says that both are numbers and a chunk is not empty).
`GlobalVarInv` proves `IInv`: each PE has at most one request or reply on its
way, of the call it is in and with the flag it waits for (`OneChunk`); a call is
split into whole chunks and a remainder that begin where the last one ended
(`Split`); what a put has acknowledged is written at the target until somebody else
puts there, what it has not begun is untouched (`Written`, `Untouched`), and what a get
has received is what was there (`Fetched`). That transfers arrive whole is not
inductive without the split, because a last chunk too short or too long shows only
in the call after it. `PutsArriveWholeAlways`,
`GetsSeePutsAlways` and `ExitFlushesChunksAlways` follow, the last from `Counted`: the
counters count what is outstanding.

**Atomics**, for any number of PEs, any type the operations exist for, any width and
any number of calls (`AmoAssumption`). `AmoInvariant` proves `IInv`: an operation is
in one place, a request, a reply or the handler of one of them (`OnePlace`), of the
call its sender is in and waits for (`Awaited`); no lock is taken but that of
the variable's type, because every routine that C or Fortran can call names that type (`RoutineOfType`); and
what an out handler has read is still in the variable (`LockedBy`). Without the last
the two halves of the handler do not make one operation. From it follow
`PayloadsFreedLast` and `OperationsAreAtomicAlways`, the refinement of
`AtomicMemory`: a request is a call, the store of the out handler or the look at which
a wait_until ends is the instant, and all the rest until the return is a stutter.

**Collectives**, for every active set, every number of calls and of elements, any mixture
of collectives, and every order in which puts land. `CollectivesInvariant` proves `IInv`.
Its first part is that the barrier keeps the PEs together (`Lockstep`): who has begun a
call has seen all others arrive at the last barrier of the one before, so what one PE reads
of another is of the same call. Then `Wave`: the offset a PE uses in collect is the number of
elements to its left; a PE that is not using one has either none or the one its left neighbour
has sent for the call it is about to make or waits in; and nobody passes an offset on before
its left neighbour has. `FlightIsCurrent` says that puts on their way are of the call
their sender is in, and that an offset finds the place reset.
`SlicesArrive` and `OnlySlices` say that a slice once put is on its way or in its place,
and that nothing else is in the target; that slices then fill the target without gap or
overlap is a fact about sums (`SlicesFill`). `Reducing` says how far a reduction is: each element in
hand combines the PE's own and those of the PEs it has come past (`Done`), each once. From it follow
`SlicesArriveInPlace` and `ReductionsCombineOnce`. `RootsDataReaches` has the hypothesis
`"broadcast" \in Separated`: the program synchronises after a linear
broadcast. Without it the property is false (see [Divergences](#divergences)).

**The tree broadcast**, for every active set, start and stride, any number of calls on one
`pSync`, any roots, and every order in which puts land. Its definitions are named `Tree...`
where `CollectivesProofs` has those of `Collectives` as well; the two specifications share
variables and no theorem is about both. First the tree, which has no state: `TreeShape` says
what `build_tree` computes at each PE, namely the binary tree in which the parent of place `i` is
in place `(i - 1) \div 2`, with the first PE and the root exchanged; so parents and children agree,
each PE but the root is the child of one other, and all are below the root (`DownTheTree`).
Then `TreeInvariant` proves `IInv`. Data goes down the edges and reports come up (`Ordered`):
a PE has the data of call `n` only if its parent has put data and flag in call `n`, and counts
itself only when its children have. `pSync[0]` is zero only while a PE waits (`Flags`), and
`pSync[1]` is the number of children that have reported (`Counts`). That does not yet make
`PutsAreExpected` inductive, because a parent that finds a zero does not see which call the child is in.
By `Ordered`, a child of the same tree cannot be in an earlier or a later call without
its parent having been there for it; and the trees are the same, because the calls that
some PE has not returned from have one root (`Uniform`). From it follow
`TreePutsAreExpected`, `TreeReturnedWithData` (the root returns last, up the chain of
reports) and `TreeSyncRestored`. There are two hypotheses. The program synchronises before it passes another
root (`SeparateRoots`; a program with one root has nothing to
synchronise): without it the property is false (see [Divergences](#divergences)). And
`TreeSyncRestored` has `PE_size > 1`, because a broadcast over one PE leaves `pSync` changed.

**Start-up and shutdown**, for any number of PEs, jobs and calls of `shmem_barrier_all`.
`LifecycleInvariant` proves `IInv`. A PE counts replies, not who has replied; so the
invariant accounts for each of them (`Asking`): the replies counted, one perhaps
counted and not stored yet, and the PEs whose message or reply is on its way are together all
the other PEs, and who is not among the latter knows the heap. How many barriers of GASNet a
PE has called tells where it is (`Place`), and one it has passed tells where the others are
(`Met`). From these follow `HeapsStayReachable` (`HeapsKnown`, `FreedAtTheEnd`,
`FlushedByBarrier`), and from the arithmetic of units, rounding and `SizeMod`
`HeapsHaveTheirSize`. The loop over units is a recursive function of seven arguments, which is
unfolded.

**Symmetric heap**, for any number of PEs, any menu of calls and any addresses of the heaps
that agree about the alignment the program passes.
The program's calls have one history: `After` is what a call makes of a heap, an error, a
Fortran code and a count of barriers, and `IInv` says that there is a sequence `H` of these
for the calls so far (`Past`) such that each PE in the n-th call is a known number of steps
from `H[n - 1]` or `H[n]` (`At`). That heaps are alike between calls is not inductive by
itself: calls overlap, and `malloc_nb` and `free_nb` meet nobody. It is the count of barriers
that says how far apart two PEs can be: the size that a PE reads of another is of the same
call and still there, because it has passed the barrier after which sizes are compared,
and nobody passes the next, after which they are freed, before it arrives there too.
`SymmHeapInvariant`, `HeapsStayAlike` and `SizesComparedAreLive` have the
hypothesis `Debug \/ Differing = {}`: a release build does not compare sizes, so there
heaps are alike only if the program passes the same ones. They and `PutsLand` also have
`PlacesAgree`: the program calls no `align`, or the heaps start at the same remainder of the
alignment (`AlignedAlike`), as all do for alignments up to a page; then `memalign` finds
the same place everywhere (`AlignedSame`), and otherwise the heaps part
(see [Divergences](#divergences)). `PutsLand` holds in
a debug build whatever the program does, and in a release build if besides it never
resizes a block: a release build reallocates before it synchronises, so there the
property is false (see [Divergences](#divergences)). The theorem rests on `Stable`, that
between two barriers only `shfree_nb` changes where the blocks allocated before them
are, and on `Flying`: a put on its way has
a target that has the block, at the same offset, until its sender has quieted for a barrier. In a
release build the sender may in the meantime allocate, which it does before it meets
anyone, but only a new block (`NewBlock`). That a static variable is
looked up to be itself follows from `ExecutableAssumption`.

**Only model-checked**:

- all liveness (`LockGranted`, `AllLeave`, `OperationsComplete`, `TransfersReturn`,
  `AllComeAndGo`, `CallsReturn`), which under fairness is beyond the prover;
- `ResultsAreRight`, the values of folds and of bitwise operators;
- `Mspace`, `UtHash` and `MemAlloc`, and so the refinement of `Allocator`: they walk
  trees, rings and chains with recursive operators, which are out of the prover's reach.

The library's theorems on induction take the statement as an operator, which none of the
provers can instantiate. Where a proof above needs induction, as for sums and
histories, it takes a least counterexample, which exists because `<` is well-founded on
the numbers.

## Findings

Where the code and what the repository says of it disagree, as runs that end in
a counterexample.

- `mcs_unaligned`: `LOCK_OWNER` uses the caller's own address of the lock. With
  heaps at different addresses PEs use different owners of one lock, and two of
  them hold it.
- `global_exit_in_put`: the handler of global_exit fences. If the program's own
  thread runs it while waiting for a chunk of a put, it waits for a counter that
  only the code it interrupted would decrement, and the PE never exits.

## Divergences

Smaller disagreements met while modelling. Each is stated as a property in its
module that no run checks, because the code does not keep it; TLC refutes it
when it takes the place of the properties in the configuration
named here, with the constants changed as the last column says.

| property | configuration | what the code does | constants |
|---|---|---|---|
| `TestLockReturnsNonZero` | `MCMcsLock.cfg` | `shmem_test_lock` returns 0 on success; `shmem.h:1893` says non-zero | |
| `TestLockDoesNotWait` | `MCMcsLock.cfg` | `shmem_test_lock` may queue and block; `shmem.h:1889-1891` says it returns at once | |
| `QuietTestMeansAll` | `Transfers.cfg` | `quiet_test` succeeds with non-blocking gets on their way; `shmemx.h:310-311` says all operations | |
| `ClearedMeansComplete` | `Transfers.cfg` | `test_req` after `wait_req` may answer 0; `CI` 2586-2589 says cleared means complete | |
| `Moves128Bits` | `Transfers.cfg` | the Fortran routines `put128_nbi`, `get128_nbi` and their `_nb` kin move elements of 64 bits | |
| `ExitFlushes` | `GlobalVar.cfg` | a PE may exit with half a put delivered; `shmem.h:249-250` says communication is flushed | |
| `ExitEndsAll` | `GlobalVar.cfg` | two callers of global_exit may end each other before a third PE is told; `shmem.h:248-249` | three PEs, `MaxOps = 0` |
| `EveryoneUpToSpeed` | `MCLifecycle.cfg` | a PE may run before it knows where other heaps are; the barrier at `CI` 843 is commented out | |
| `NoMorePendingIO` | `MCLifecycle.cfg` | a heap may be freed with an implicit put on its way to it; the comment at `CI` 2839 | |
| `NobodyRunsWithout` | `MCLifecycle.cfg` | a PE without memory bails out through the barrier the others wait in after allocating, which lets them go on; the comment at `CI` 806 | |
| `ThreadOnEveryHost` | `MCLifecycle.cfg` | a host whose number is below its predecessor's gets no progress thread | |
| `LogOpen` | `MCLifecycle.cfg` | messages after finalize go to a log that has been closed | |
| `SourceUnchanged` | `BroadcastTree.cfg` | the tree broadcast overwrites the source of the other PEs; `shmem.h:1754` says `const` | |
| `NoInternalError` | `MCSymmHeap.cfg` | a block that moved when resized cannot be freed in a debug build | two PEs, `MCMenu`: malloc 1, malloc 1, realloc 2, free |

With one caller that finds the others in gets, `ExitEndsAll` of `GlobalVar` holds.

Four more restrict what a program may do, and nothing in the repository
promises otherwise: two tree broadcasts with different roots back to back
disturb each other (`PutsAreExpected` with `SeparateRoots = FALSE`); the root of a
linear broadcast must not change its source until the others have read it
(`RootsData` with `Separated = {}`); realloc in a release build moves a block
before it synchronises (`PutsLandInTheirBlock` with `Debug = FALSE`: malloc, malloc, realloc);
`memalign` aligns addresses, and heaps are aligned to a page only, so that a block
aligned to more may be at another offset on another PE, after which heaps differ, puts land
outside their block and sizes are compared with other cells (`HeapsAlike`,
`PutsLandInTheirBlock`, `ComparesLiveSizes` in `MCSymmHeap.cfg` with 22 for 23 in `MCBase`,
that is a base that differs from the others modulo the alignment of 2).

Noticed while translating, in the models as the code has them, with no property
of their own:

- Addresses and heap: the lookup accepts an offset equal to the size of the heap
  (`CI` 578); `shpclmove` takes its length in bytes where the
  other Fortran routines take words, reports its error as `shpdeallc`, and
  after a failure has set the caller's pointer to null; the table of global
  variables skips a symbol only if it is neither an object nor visible
  (`src/globalvar/globalvar.c:246`), and nothing looks symbols up.
- Lengths and values: `put_nb` and `get_nb` hold the length in an `int`
  (`src/ptp/putget_nb.c:109`); the PEs combine reduced values in different orders, each its
  own first (`src/reduce/reduce-op.c:226-257`), so that floating sums and products may
  differ between them, and so may a floating minimum or maximum: a comparison with a NaN is
  false and yields the second operand (`src/reduce/reduce-op.c:143` and 149), which makes the
  result that of the elements after the last NaN, and of two zeros the one combined last
  stays. `ResultsAreRight` says so for each order; that every PE has the least of all elements
  is false with a NaN.
- Environment: a unit that is not known leaves the results of
  `shmemi_parse_size` unset (`src/utils/unitparse.c:137`), and a size above
  2^64 wraps, so that `16e` is 0; `SMA_SYMMETRIC_SIZE` is translated after
  the heap size has been read and `SHMEM_SYMMETRIC_SIZE` not at all
  (`src/utils/trace.c:290-296`); `SHMEM_LOG_LEVELS` is overridden by the variables
  that ask for version or information; without it `strtok` is called with a null
  pointer first (`src/utils/trace.c:308`), which the model takes to go on with
  what GASNet left; an unknown `SHMEM_BARRIER_ALL_ALGORITHM` leaves a null function
  pointer.
- Shutdown: the variable set against GASNet's timeout has a space in its name
  (`CI` 2819); a PE that has bailed out destroys a heap it does not have;
  `shmem_barrier_all` and the exit barrier are one count, so that a PE which ends
  early meets the others in their next `shmem_barrier_all` and frees its heap while they
  run (programs in `Lifecycle` meet equally often, which leaves this out).
- Headers: the generic `shmem_g` and `pshmem_g` select by the pointer and not by what
  it points to (`src/shmem.h:2076`), so no call of them compiles; the generic `pshmem_put`,
  `pshmem_get` and `pshmem_iput` name routines for `char` that `src/pshmem.h` does not
  declare; there is no generic `iget`, and those of `iput` and `add` are there twice.
  `shmemx_complexd_put_nb` and `shmemx_complexd_get_nb` are declared and not defined; the
  complex transfers, `shmemx_put16_nb` and `shmemx_get16_nb` are defined and not declared.
- A broadcast over one PE leaves `pSync` changed; the Fortran routines that take
  a `pSync` of INTEGERs cast it to `long *`; `atomic_wait_get_zero` (`CI` 1875) is
  called by nobody.

## What is not modelled

- **External**: GASNet (its transfers, active messages and barrier are modelled as
  the code uses them), the operating system's memory, threads and streams.
- **Dead code**: the tree barrier (disabled in `src/barrier/barrier.c`); alltoall
  (nothing calls `shmemi_alltoall_dispatch_init`, so the function pointers the
  public calls go through are null and no step of the algorithm can
  run); the Elan and non-GASNet branches; the entry points of `dlmalloc.c`
  that nothing in the library calls (calloc, the independent, bulk and statistics
  calls, trim, mallopt, the default heap) and those branches of the others
  that need `MMAP`, `MORECORE` or several segments, or that abort on a pointer that is not
  of a live block or on a heap the program has written over (`USAGE_ERROR_ACTION`,
  `CORRUPTION_ERROR_ACTION`); what `uthash.h` has beyond a table
  with add, find, replace and delete; `debug_alloc_check` and `_dump`; the reading of
  the time limit for pings.
- **No state or no concurrency**: `shmem_pcontrol` (a message), clock, cache, version, queries (getters of values
  fixed at start), `shmem_ptr` (always a null pointer), the ping behind `shmem_pe_accessible`
  (one request and reply of the kind `Amo` models), the reading of ELF headers, the texts of
  messages, build and launch scripts.
- **Abstracted in the models**: data except where its size or a seam
  matters; 32- and 64-bit variants, which are one macro; process memory running out, except for the heap
  itself and the blocks in it; memory ordering inside one PE, where a thread's stores are taken to be
  seen in order (the handlers take GASNet's locks around theirs).
- **Partly modelled**: the Fortran interface (the wrappers that only dereference
  their arguments are left out), tracing (which levels and which stream, not
  the text), the table of global variables (its areas, not its symbols), hash tables
  (nothing includes `utlist.h`, `utarray.h` and `utstring.h`), the C and profiling
  interfaces (the declarations and second names of the other calls, which lead to
  one routine each).

The map covers a third of the lines of the sources. What
remains is, by size: comments and licences (most of `shmem.h`), the dead code
above, the remaining declarations, and one-line wrappers. No more of it changes state.

## Plan

Done, in this order: lock, barrier, atomics, transfers, global variables and
global_exit, life cycle, broadcast, collects, reductions, heap; the
proofs of the lock, the barrier and the transfers. Then wait_until, the typed,
strided and Fortran routines with their proof, symmetric addresses, the environment and
the log, the collectives as one module, the allocator and its debug table, the headers, the
proofs of the global variables and of the atomics, and those of the
collectives, the life cycle, the symmetric heap and the tree broadcast.

Left, most important first:

1. An abstract specification of a collective call (whoever returns has the result of the
   call all have begun) that `Collectives` and `BroadcastTree` both implement.
2. Of the allocator, what needs no walk: that splitting and coalescing keep
   the chunks of a heap adjacent and disjoint.
