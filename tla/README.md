# immutable_cache: TLA+ models, checks and proofs

`immutable_cache` is a PHP extension: a key/value cache in shared memory, used
by all workers (processes, or threads in a ZTS build) of a PHP server, whose
entries are written once and never changed or removed. That is what allows a
`fetch` to hand out pointers into shared memory without copying. This
directory holds TLA+ models of the extension, the TLC configurations that
check them on small instances, and TLAPS proofs of the properties the design
rests on. `PROJECT.json` lists components, runs, mutants, the map from
definitions to source lines, findings, hazards and theorems.

To check a run: `tlc -config <run>.cfg <module>`. To check the proofs:
`tlapm <module>.tla` for `CacheProofs`, `LocksProofs`, `SignalsProofs`,
`ApiProofs`, `LifecycleProofs`, `IteratorProofs`, `SmaProofs` and
`PersistProofs`.

## The system

| Component | State it keeps | Operations | Correct when | Module |
|---|---|---|---|---|
| Shared cache (`immutable_cache_cache.c/.h`) | header counters, slots, chains of entries in shared memory | store, fetch, exists, stat, info | keys are unique; a linked entry never changes, moves or disappears; a reader that found an entry may use it after it unlocked; every call is atomic | `Cache`, `ImmutableMap` |
| Locks (`immutable_cache_lock.c`, `_windows_srwlock_kernel.c`, macros of `_sma.c` and `_cache.h`) | one SMA lock per segment, an array of fine grained locks | rlock, wlock, unlock; memory protection follows them | every lock build excludes what the cache expects; calls end; failing calls release what they hold, interruptions are unblocked | `Cache`, `Locks`, `RWLock` |
| Allocator (`immutable_cache_sma.c`) | block headers, free list, `avail` per segment, `sma->last` | malloc, free, info, get_avail_mem | blocks tile the segment; callers never share memory; free blocks are merged and found again | `Sma` |
| Persist (`immutable_cache_persist.c`) | measuring and copying contexts | persist, unpersist | the copy fits the block it was measured for, points to shared memory only, and reads back as what was stored | `Persist` |
| Iterator (`immutable_cache_iterator.c`, `_stack.c`) | slot and stack position, chunk of items, totals | construct, rewind, valid, current, key, next, totals, free | an entry is yielded at most once, one present throughout exactly once; the lock is released | `Iterator` |
| PHP functions (`php_immutable_cache.c`) | the call in progress | add, fetch, exists with a key or an array of keys | what the script is told agrees with the cache | `Cache`, `Api` |
| Lifecycle, serializers, preload (`php_immutable_cache.c`, `immutable_cache.c`, `_cache.c`) | ini flags, registry of 16 serializers, the process-local cache handle | MINIT, preload, RINIT, registering, MSHUTDOWN | every worker reads what any worker wrote | `Lifecycle` |
| Segments (`immutable_cache_mmap.c`, `_shm.c`, `sma_init`, `sma_detach`) | names in the system, mappings and `sma` of each process | the system calls of MINIT, fork, detach | a serving process has all its memory; no name is left behind | `Segments` |
| Signal handlers (`immutable_cache_signal.c`) | dispositions, saved handlers, running handlers | RINIT installs, the handler detaches, calls the earlier handler, sends the signal again | cores hold no shared memory; earlier handlers are called; a process that took such a signal ends | `Signals` |
| Process mutex, API headers, generated argument info | | | | not modelled, see below |

How they interact. A PHP function calls the cache. `store` calls `persist`,
which measures the value, takes a block from the allocator (SMA lock) and
copies; `store` then takes the SMA lock and the fine grained lock of the key,
walks the chain, and links the entry or frees it. `fetch` takes only the fine
grained lock of the key, and copies or points into the entry after it has
released it. `cache_info`, `sma_info` and iterators take the SMA lock. Slots
and fine grained locks are chosen by different moduli of the same hash, so
keys of one chain may be guarded by different locks and one lock may guard
several chains. The handle of the cache, the serializer it is bound to and the
registry are local to a process, as are the mappings of the segments and the
signal handlers; everything else is shared.

What makes it hard: workers interleave at every lock; a worker may be killed
while it holds a lock in shared memory, a lock call may fail, a PHP memory
limit may `longjmp` out of a loop; fetched values are stored again by pointer;
iterators work in chunks while the table grows; user code runs while values
are unserialized; extensions come and go around a cache that outlives them;
signals arrive between any two instructions, handlers included.

## Modules

- **`ImmutableMap`** is what the cache promises: add, fetch, exists and stat
  on a map whose keys are bound at most once, each call atomic at an instant
  between its start and its return. A read may miss if its lock fails
  (`ReadMayFail`), a fetch of a serialized value may fail to rebuild it
  (`DecodeFails`), an add may fail.
- **`Cache`** is the code of `immutable_cache_cache.c` with its locks. A
  worker's `pc` names the next step of a call: `s_*` for store (`s_calc`
  measure, `s_malloc`/`s_alloc` allocate, `s_unprot`/`s_copy` copy, `s_wlock`/
  `s_fine` take both locks, `s_insert`/`s_count` link and count, `s_wunlock`/
  `s_sunlock` release, `s_free`/`s_dealloc` free), `f_*` for fetch, exists and
  stat (`f_rlock`, `f_walk`, one entry of the chain per step, `f_count`,
  `f_store`, `f_entry` for the counters, `f_runlock`, `f_unpersist`), the rest
  for `cache_info` and `sma_info`. A block is a `Cell`; which blocks a value
  points into is kept (`refs`), because a value that was fetched is stored
  again by pointer. Values in `Serialized` (objects, or whatever a third-party
  serializer takes) are rebuilt by a fetch in the request's own memory, so they
  lend no pointers, and the serializer may refuse them after the entry was found
  (`UnpersistFails`): the fetch of a key that is there then answers false. The variable `recursive`, fixed in `Init`, is the build's
  lock kind, rwlocks or recursive mutexes (the constant `Recursive` says which
  an instance looks at); constants choose the faults: failing locks, crashes,
  bailouts, memory protection, threads. After a bailout inside `sma_info` the
  owner of an rwlock gets `EDEADLK` when it locks again, while the owner of a
  recursive mutex goes on alone and never gives it back (`kept`). `sma_info`
  locks and unlocks once per segment; here its walk is one critical section,
  because there is one SMA lock that counts (every segment's macros use the last
  segment's header) and an mmap build has one segment to walk. Atomic actions hold what the code does
  under one lock or without touching shared state; the increments of a build
  without atomics are split.
- **`Sma`** is the allocator down to the fields of the block headers: the
  sentinels, best fit search with its limit, splitting, merging with both
  neighbours, the free list, `avail`, and malloc's walk over the segments,
  which releases the lock between two of them. Sizes are real bytes for a
  block header of 32 and a word of 8. A segment may have any number of bytes, as
  `OnUpdateShmSize` accepts them: `sma_init` does not round, so the last
  sentinel, and the sizes counted back from it, may be no multiples of the word.
- **`Iterator`** is the iterator object and its methods against workers that
  insert and count hits. Chains grow at their tail and lose nothing, which is
  theorem `NeverTakenBack`. The variable `script` says whether a `foreach` loop
  or any sequence of calls drives it (`Scripts` are those an instance looks at).
- **`Persist`** is the algorithm of `immutable_cache_persist.c` on graphs of
  strings and arrays: two passes (measure, copy), memoization by hashed
  address, the fall back to serialization with its second measurement, reuse
  of nodes that already are in shared memory, and unpersist. `calc_ht` and
  `copy_ht` call themselves; here the loops that are running are a stack of
  frames, an array and the next bucket of it, and a step does one bucket, key
  and value, of the innermost loop. Node numbers are addresses: the nodes that
  were there lie below `Base`, copies at `Base` and their offset in the block.
  `Spread` is the width of `zend_ulong` as `HashKey` needs it. Sizes are weights
  chosen so that different sets of parts never add up to the same size.
- **`Api`** is the array form of add, fetch and exists: a loop over atomic
  calls (justified by `Cache` implementing `ImmutableMap`), interleaved with
  other workers, that builds the PHP array the script gets.
- **`Lifecycle`** is module startup in the order extensions are loaded, with
  preloading, then fork (or threads), requests, `dl()` and module shutdown. An
  entry is reduced to whose encoding it has and when it was written.
- **`Segments`** is how MINIT obtains shared memory, one action per system call
  (`Mkstemp`, `Ftruncate`, `Mmap` with its unlink; `ShmCreate`, `ShmAttach` with
  `IPC_RMID`), each of which may fail, then `LayOut`, `CacheCreate`, `fork`, and
  `sma_detach` in its steps: `SmaDetach` asserts and clears `initialized`,
  `UnmapSegment` lets go of one segment, `FreeSegs` ends it. The build, the number of segments, the file mask and
  `coredump_unmap` are a variable, `config`, that every run chooses anew.
- **`Signals`** composes `Segments` with the rest of a process: RINIT and
  `set_signals`, requests, MSHUTDOWN (`Mshutdown` frees the cache,
  `MshutdownDetach` detaches, `ShutdownSignals` frees the saved handlers), and
  handlers as a stack of frames, because a signal may arrive inside the handler
  of another, or between two steps of a detach. Earlier handlers have any of
  `Flags`, which ours inherits: `SA_RESETHAND` makes it good for one signal,
  `SA_NODEFER` leaves its own signal unblocked. The mask it inherits as well is
  left out: a signal that is blocked comes later, at an instant at which it may
  arrive anyway. `interrupted` remembers the processes that a signal reached in a
  window in which the code cannot keep the memory out of a core (`TooEarly`):
  while a detach has begun and not ended, or when a handler that was reset and
  does not block its signal had not begun to detach. A process that reads freed
  memory or fails an assertion becomes `undefined`: it may dump core at any time.
- **`RWLock`** is the lock the cache is written for: a writer alone, or readers,
  taken and released in one step. **`Locks`** is `immutable_cache_lock.c` in its
  five builds (rwlock, recursive mutex, spin, fcntl, Windows SRW), with blocked
  interruptions, failing calls, bailouts and kills, used in the order in which
  store, malloc, fetch, `cache_info` and `sma_info` use it, and implements
  `RWLock`. The refinement mapping takes a lock to be held from the return of the
  lock call to the start of the unlock, which is when the caller relies on it.

- **`Sums`** defines the sum of a function over a set, for `Cache`, `Iterator`
  and `PersistProofs`, as a cardinality: proofs can use it where a fold, which
  takes an operator, is out of their reach.
- **`CacheProofs`**, **`LocksProofs`**, **`SignalsProofs`** (with `Segments`),
  **`ApiProofs`**, **`LifecycleProofs`**, **`IteratorProofs`**, **`SmaProofs`**
  and **`PersistProofs`** hold the theorems about these modules (below).

`MCCache`, `MCSma`, `MCIterator`, `MCPersist`, `MCApi`, `MCLifecycle`,
`MCSignals` and `MCLocks` give the constants their values. Operators preceded
by a comment "Variant:" are mutated forms of the definition that follows; they
occur in no specification and are there to show that a property can fail
(`mutants` in `PROJECT.json`).

## Runs

Passing runs, with the bounds and why they are enough:

| Run | Instance | Shows |
|---|---|---|
| `cache_core` | 2 workers, 2 calls each, 3 keys, 2 values, one of them serialized, 3 blocks; k1 and k2 share a slot but not a lock, k1 and k3 a lock but not a slot | `UniqueKeys`, `NoDangling`, `AnswerStable`, `NoLeak`, `HitsExact`, `Immutable`, and the refinement `ImplementsMap`. Workers and blocks are symmetric, values are not. The hashes give every way two keys can meet; three blocks are fewer than the adds that may be pending, so memory runs out and freed blocks are reused |
| `cache_faults` | rwlocks and recursive mutexes, 2 workers, 2 calls each of add, fetch, stat and info, 2 keys, failing locks, 1 crash, `protect_memory` in processes | the inductive invariant `IndInv`, `InfoConsistent`, `ImplementsMap`, and `NoFault` of the memory protection |
| `cache_live` | rwlocks and recursive mutexes, 2 workers, 2 calls each of add, fetch, info and sma_info, bailouts in `sma_info`, fairness | `Completes`: only a bailout that leaves the SMA lock taken keeps a call from returning, where readers exclude each other too. `ReadsComplete`: fetch returns even then |
| `sma_segments` | 2 threads that share `sma->last`, 2 segments of 283 bytes, no multiple of the word (one to three blocks each), sizes 5 and 75, malloc interrupted between segments, failing locks | `SegmentSound` (`TypeOK`, `Tiled`, `Coalesced`, `ListSound`, `AvailMatchesList`), `LiveDisjoint`, `Reclaimed`, `RefusedOnlyWhenFull` over every sequence of malloc and free: splits with and without a rest, merges on both sides, exact fits, exhaustion, and a free that cannot lock, which loses its own block and harms nothing else |
| `iterator_scripts` | 4 keys in 3 slots (two collide, one does not match), chunk size 1; 2 `foreach` loops or any 6 method calls, failing locks, bailouts while an item is built, user code run by one key's value, fairness | `YieldedOnce`, `LoopComplete`, `LoopEnds` of the loops; `CurrentStays`, `TotalsBounded`, `LockReleased` of every script. 6 calls are enough for a rewind, a chunk, a failed fetch and a second pass |
| `persist_values` | values of up to 4 nodes with 2 elements on top, shared nodes, nodes in shared memory, failures; `Base` and `Spread` above every offset and address that occurs | `ExactFit`, `SelfContained`, `RoundTrip`, `RefusedForCause`. Four nodes are what it takes for a key, an element and the entry's key to be one node, for a node to be reached twice, and for a loop to be entered inside a loop |
| `api_arrays` | 2 workers, 2 calls each, arrays of up to 2 keys | `AddReportsFailures`, `LookupBracketed` |
| `lifecycle_server` | 2 workers, 2 requests each, processes or threads, with or without igbinary, 2 third-party serializers with one name, two, or a reserved one, in any load order or loaded by `dl()`, in a registry they may fill | `RequestValuesDecoded`, `NoStaleSerializer`, `ConfiguredSerializerUsed`. One key is enough: entries do not affect each other |
| `signals_processes` | a server process and one child, mmap memory (1 segment and the one of the locks) and System V memory (2 and 1), every kind of mask, failing system calls, 1 earlier handler or ignored signal (`MaxHandlers`) with any flags, 2 signals of 2 kinds or `SIGKILL` (`MaxSignals`), fairness | `ServesMapped`, `NamesDropped`, `CoreWithoutSegments`, `EarlierHandlerCalled`, `CoreSignalEnds`. Two signals are what it takes to interrupt a handler, its detach or MSHUTDOWN, or to come again after one; two kinds, because a handler blocks its own; two segments for a detach that is half done |
| `locks_builds` | 3 processes (one stores and allocates, one fetches and calls `cache_info`, one calls `cache_info` and `sma_info`), every build, failing calls, 1 kill, interruption or bailout, no bound on calls, fairness | `ImplementsRWLock`, `IdleHoldsNothing`, `Drains`. Three are what it takes for two others to keep a lock busy between them |

Runs of `Api` and `Lifecycle` use up their calls or requests and stop; in
`cache_faults` everyone may end up waiting for a dead worker's lock, and in
`cache_live` and `locks_builds` for the lock a bailout or a kill left taken; in
`signals_processes` all processes come to their end. These do not check
deadlock.

Runs that end in a violation, each a disagreement between the code and what
the repository says (quoted under `findings`):

| Run | What happens |
|---|---|
| `iterator_past_end` | two calls of `next` at the last item of a chunk read beyond the stack |
| `lifecycle_preload` | a preloaded object cannot be fetched when a third-party serializer is configured |

Further disagreements have no run of their own; each shows when a cfg is
changed as said:

| Change | What happens | What the repository says |
|---|---|---|
| `cache_core` with `Recursive = {TRUE}` violates `HitsExact` | with mutexes, `header->nhits` loses increments of keys with different locks | "we are free to perform increments without atomics" (`immutable_cache_cache.c:64`) |
| `cache_live` with the invariant `LocksNeverFail` | a memory limit hit inside `sma_info`'s locked loop leaves the SMA lock taken, and the worker's next locking call fails | "While locking calls should never fail" (`immutable_cache_lock.c:34`) |
| `cache_faults` with `ZTS = TRUE` and `MaxCrashes = 0` violates `NoFault` | with `protect_memory` and threads, one thread protects the memory another is copying into | protected "when not in use" (`README.md:256`) |
| `sma_segments` with the invariant `AvailIsFree` | `avail` is one block header more than the free blocks hold | "bytes available (not necessarily contiguous)" (`immutable_cache_sma.c:65`) |
| `iterator_scripts` with the invariant `ChunkBounded` | a chunk is larger than `chunk_size`: one entry more is pulled than asked for, and slots are pulled whole | `chunk_size` of the iterator |
| `iterator_scripts` with `WakeOp = "add"` and the invariant `NoSelfWait` | user code run by an iterator's unserializing adds an entry and waits for the lock the iterator holds | |
| `signals_processes` with the invariant `NeverUndefined` | a signal during or after MSHUTDOWN, a second one, or one whose earlier handler returned meets a freed cache or an `sma` whose detach has begun; `CoreSignalEnds` still holds | `assert(sma->initialized)` (`immutable_cache_sma.c:421`) |
| `signals_processes` with the invariant `CoreNeverHoldsSegments` | `sma_detach` clears `initialized` before it unmaps (`immutable_cache_sma.c:422`), so a second signal in between fails the assertion with segments still mapped; so does one after MSHUTDOWN has freed the cache and before it has detached (`php_immutable_cache.c:336`). A handler that inherited `SA_RESETHAND` and `SA_NODEFER` from an earlier one (`immutable_cache_signal.c:115`) is gone when its signal comes again before it has detached. `CoreWithoutSegments` is what holds outside these windows | "Registers all signals that coredump by default and unmaps the shared memory segment before the coredump" (`immutable_cache_signal.c:38`) |
| `signals_processes` with the invariant `MaskIsTemplate` | the second call of `mkstemp` gets the mask the first one has filled in: it is made a template again only if `sma->num != 1`, an mmap build always has 1 and maps one segment more for the locks. `/dev/zero` goes to `mkstemp` as well, its case is compiled out. No mask but the empty one gets through MINIT | "mktemp-style file-mask to pass to mmap" (`immutable_cache_globals.h:54`) |
| `locks_builds` with the property `WritersServed` | with rwlocks, file locks and SRW locks, readers that overlap keep a writer waiting for ever, even if a lock that is found free again and again is given to the one who waits for it | "the write lock prefers readers" (`immutable_cache_lock.h:37`) |
| `locks_builds` with the invariant `NeverUnlocked` | an error of `fcntl` is not looked at: a store goes on without the lock it asked for | "checks for the success of write-lock acquisitions" (`immutable_cache_lock.c:34`) |
| `locks_builds` with `Zts = TRUE` violates `ImplementsRWLock` | file locks belong to the process, so they do not keep its threads apart | |

### Fairness

`Cache!FairSpec` has weak fairness of each worker's `Step`, which does not
include starting a call: a worker inside a call keeps being scheduled, and a
lock call returns when the lock is free and stays free. Nothing is assumed
about who gets a contended lock: calls are bounded, so contention ends. No
fairness is put on crashes or on failing locks as such: a step that may fail
takes one of its outcomes. `Iterator!FairSpec` has weak fairness of the loop
(the script keeps running) and strong fairness of `next`: the body of a
`foreach` may call `getTotalHits` and the like any number of times, but comes
to its end.
`Signals!FairSpec` has weak fairness of `Handle`: a process inside a handler
keeps running, and the kernel delivers a signal that is due and not blocked;
nothing is assumed about requests, arrivals or kills. `Locks!FairSpec` has weak
fairness of `Advance`, every step of a call except the failures that may or may
not happen (a waiting caller is not saved by an error of its lock call): a
thread inside a call runs on, and gets a lock that stays free for it. Nothing is
assumed of a lock that others take again and again; neither an `xchg` loop nor a
pthread mutex promises an order, and starvation by an endless stream of calls is
possible in every build. So `Drains` speaks of behaviours in which calls stop
coming: then those that are under way, and wait for each other, all end.

## What is proved

All theorems hold for every value of the constants that the named assumptions
allow: any number of workers, keys, blocks, slots, locks, segments, signals,
calls and faults, and any graph of values. In each module one inductive invariant carries the theorems;
its conjuncts are named and commented. Each was checked with TLC on the
instance of the component's run before it was proved, except the one of
`SmaProofs`, which speaks of functions that exist; there the run checks what the
theorems conclude from it.
Proofs have one lemma per action and under it one step per conjunct that the
action can disturb.

### `CacheProofs`: the shared cache

| Theorem | States |
|---|---|
| `Invariance` | `Spec => []IndInv` |
| `TypeCorrect` | `Spec => []TypeOK` |
| `KeysUnique` | `UniqueKeys`: no two linked entries have one key, and each is in the chain of its key |
| `NothingDangles` | `NoDangling`: whatever an entry, a request's value or a pending add points into is linked, so it is never freed |
| `AnswersStable` | `AnswerStable`: an entry that a reader found is still the entry of its key when it is used after the lock is released |
| `NeverTakenBack` | `Immutable`: no step unlinks, moves, overwrites or frees a linked entry |
| `InfoIsConsistent` | `InfoConsistent`: the counters `cache_info` reports agree with the entries it lists |
| `NeverFaults` | if memory is protected only where workers are processes (`ProtectsProcesses`), `NoFault`: nobody writes to memory it has mapped read-only |
| `NeverAsksTwice` | without bailouts, `LocksNeverFail`: no worker asks for the SMA lock while it owns it |
| `NothingLeaks` | if locks do not fail and nobody dies or bails out (`FaultFree`), `NoLeak`: every allocated block is in the table or belongs to one pending add |
| `HitsNeverLost` | if counters are incremented atomically (`AtomicBuild`: rwlocks), `HitsBounded`: the hits in the header are at least those of the entries and of the fetches between the two increments, and more by at most one per killed worker |
| `HitsAreExact` | if, besides, nobody is killed, `HitsExact`: they are equal |
| `CacheImplementsMap` | `ImplementsMap`: every step of `Cache`, faults included, is a step of `ImmutableMap` or a stutter; where locks do not fail, `ImmutableMap` lets a read of a present key fail only if it is a fetch of a serialized value |

They rest on `CacheAssumption` (sets are disjoint where they must be, slots
and locks are not empty) and on `ScopeAssumption` (combinations of faults whose
effect the code leaves undefined are excluded). The hypotheses are what
the code needs: without each the conclusion is false, as the rows on
`cache_core` with mutexes, on `cache_faults` with threads and on
`LocksNeverFail` above show, and a worker that dies with a block loses it, one
that dies between two increments the second of them.

None of these invariants is inductive alone. `UniqueKeys` needs that only one
worker inserts at a time (`SmaOwned`: whoever is at a step between taking and
releasing the SMA lock is its owner) and that the inserted block holds the key
of the call (`BlockWritten`). `NoDangling` and `Immutable` need that a block
being filled or freed belongs to one add (`BlockOwned`) and is not linked
(`BlockPrivate`). `AnswerStable` of a miss needs that nobody who inserts the
key has its lock while a reader does (`FineOwned`) and that the entries a walk
has passed have other keys (`WalkPassed`). `CallShape` ties call, result and
`pc` together. `IndInv` is the conjunction; TLC checks it in `cache_faults`.
Chains are handled by lemmas on appending to a sequence.

`InfoConsistent` adds that readers of `cache_info` have the SMA lock
(`ReadersLocked`) and that the counters differ from the table only while a
writer is between linking and counting (`Counted`). `NoFault` adds that a writer
has its memory unprotected from `UNPROTECT` to its last write. `NoLeak` adds
that an add that succeeded has linked its entry (`InsertedLinked`), and that
each block of the heap has an owner (`BlocksOwned`).

`HitsInv` carries the two theorems on hits. A step changes the header, the sum
over the linked entries and the set of fetches that are between the increments
together (`HitsRel`): a hit moves a worker into that set, its second increment
moves it out and adds one unit to one entry, linking a block adds an entry
whose count is 0, because a block that is being inserted was written with 0 and
nobody counts in it. The sum is the cardinality of a finite set of units, so one
more hit is one more element.

In `CacheImplementsMap` an add takes effect when its entry is linked or it is
refused, a miss when the chain has been walked, a hit of exists and stat when
the entry is found, and a hit of fetch when its value is rebuilt, because only
then is it known whether that works (`Decoding`): the lock is released by then,
and the entry is still the one of its key. Every other step maps to a stutter. The
mapping needs, beyond `IndInv`, that the `pc` tells which call runs and whether
it is decided (`CallPhase`) and that linked entries hold values
(`LinkedValues`). `KeysUnique` and `AnswersStable` are what makes a decided
read agree with the map: the entry found is the only one of its key, and a walk
that ends without one ends while no add of the key can be at work.

### `LocksProofs`: the locks implement `RWLock`

| Theorem | States, if threads do not use file locks (`OwnLocks`) |
|---|---|
| `LocksInvariance` | `Spec => []LocksInv` |
| `IdleThreadsHoldNothing` | `IdleHoldsNothing`: outside calls no lock is held and no interruption blocked |
| `LocksImplementRWLock` | `ImplementsRWLock`: in each of the five builds a writer works alone, readers with readers |

`fcntl` locks belong to processes, so with threads the last is false (the last
row of the table above). The invariant relates three records of one lock: what
the implementation holds (`held`, `depth`), what the thread's call has obtained
(`got`) and what it still wants. `Recorded` and `Justified` say that the first
two agree except for a thread that a bailout threw out, `Exclusive` and `Depths`
are what the implementation guarantees, `Apart` that no call takes a lock twice,
and `BlockedPerLock` counts blocked interruptions.

### `SignalsProofs`: segments and signal handlers

| Theorem | States |
|---|---|
| `SignalsInvariance` | `Spec => []SigInv` |
| `AlwaysServesMapped` | `ServesMapped`: a process that runs its own code has all its memory |
| `NamesAreDropped` | `NamesDropped`: after MINIT no segment has a name but what a kill or a failed `shmat` left |
| `CoresHoldNoSegments` | `CoreWithoutSegments`: with `coredump_unmap` a core of a process that served holds no segment, unless a signal came in one of the windows of `TooEarly` |
| `EarlierHandlersCalled` | `EarlierHandlerCalled`: the earlier handler runs before the signal is sent again |

`Obtaining` follows MINIT through the system calls: which segments are mapped,
and that only the one in hand has a name. `Installed` is the heart of the rest: a
handler of ours that is no longer installed is on the stack of frames and about
to detach, or a detach has begun; without it a second signal might end a process
whose first handler was interrupted before it unmapped. `Noticed` says that
while a detach is half done no handler but the one at it is innermost, unless
the process is `interrupted`, so that a signal that comes then is always
remembered; `Attached` that a process that is `undefined` has no segment or is
`interrupted`. The number of signals, their kinds and flags and the depth of
handlers are arbitrary.

### `ApiProofs`: calls with arrays

| Theorem | States |
|---|---|
| `ApiInvariance` | `Spec => []ApiInv` |
| `AddReportIsExact` | `AddReportsFailures`: an array add reports exactly the keys that do not hold its value |
| `LookupIsBracketed` | `LookupBracketed`: a lookup names what was cached when it began and nothing that is not cached when it returns |

`AddLoop` and `LookupLoop` state the properties of the part of the array a loop
has passed; `Begun` (a value in the cache is of a call that has begun) is what
keeps another worker from having written the value before.

### `LifecycleProofs`: one serializer for all

| Theorem | States |
|---|---|
| `LifeInvariance` | `Spec => []LifeInv` |
| `StoredValuesDecode` | `RequestValuesDecoded`: what one worker stored every worker decodes |
| `SerializersStayLoaded` | `NoStaleSerializer`: no cache is bound to an unloaded serializer |
| `ScriptsUseConfigured` | `ConfiguredSerializerUsed`: scripts run with the configured serializer |

The argument: what the master's registry has under the configured name
(`Chosen`) is fixed when the first worker is born; a space that is not bound has
a copy of that registry, and one that is bound is bound to `Chosen` (`Bound`); a
worker is bound before its first script can load anything (`WorkerInv`). Lookup
takes the first slot of a name, so a serializer registered later hides none.

### `IteratorProofs`: iterators

| Theorem | States |
|---|---|
| `IterInvariance` | `Spec => []IterInv` |
| `LockIsReleased` | `LockReleased`: the lock is held inside the two loops only |
| `CurrentItemStays` | `CurrentStays`: the current item does not change until the script moves on |
| `LoopYieldsOnce` | `YieldedOnce`: a `foreach` yields no entry twice |
| `LoopYieldsAll` | `LoopComplete`: one that ends without a failed fetch has yielded all that was there at its start |
| `TotalsNeverExceed` | `TotalsBounded`: whatever is inserted and hit while the totals walk, they never exceed the matching entries and their hits |

`Position` says where `foreach` is in a chunk at each of its calls, `Once` that
what is in the chunk has been passed and what is beyond the position is not
yielded yet, `Due` that an entry that must be yielded has been, is in the
chunk, or is still ahead of the walk. `Chained` (chains hold the keys of their
slot, once each) is what lets "passed" be told by slot number and position.

### `SmaProofs`: the allocator

| Theorem | States |
|---|---|
| `SmaInvariant` | `Spec => []SmaInv` |
| `SegmentsSound` | `SegmentSound`: blocks tile their segment, freed neighbours are merged, the list holds the free blocks, `avail` is its total and one header |
| `CallersDisjoint` | `LiveDisjoint`: callers hold disjoint memory, clear of every header |
| `MemoryReclaimed` | `Reclaimed`: a segment of which nothing is held is one free block again |
| `PassedOverOnlyWhenFull` | `RefusedOnlyWhenFull`: malloc passes over a segment only if no free block fits |

They rest on `SmaAssumption`: sizes are positive, and a segment, of any number of
bytes, has room for one block. `SmaInv` says of each segment (`SegmentOK`) how
its blocks lie (`Shape`), that boundary tags and free blocks agree (`Tagged`),
that there is a path of links from sentinel to sentinel through the free blocks,
with a running total that ends in `avail` less a header (`Listed`), and that the
free bytes before an offset are never more than the bytes before it (`Below`);
and of the callers (`Held`) that each allocated block has one owner, whom it
fits. `Below` is what makes the test of `avail` in `sma_allocate` safe: it
bounds every free block by `avail`.

The proof goes from the inside out. `RemoveBlock`, `ReplaceBlock` and
`InsertBlock` say what relinking does to the path; `MergedShape`, `TakenShape`
and the lemmas on `Below` what joining and cutting blocks does to the tiling,
links aside; `TakeWholeFields`, `SplitFields`, `InsertFields` and
`UnlinkFields` what each assignment writes; `CarveSegment` and
`MergePrevSegment`, `MergeNextSegment`, `InsertSegment` put them together, with
`Pending` for the segment in the middle of a deallocation, when the merged block
is in no list. What `find_block` and `sma_info` read is the path
(`ListPath`, `TotalSums`). `FreeList` and `ListTotal` are recursive functions:
`LeastNatural` and `SetInduction`, on sets of natural numbers instead of
predicates, are the induction that shows what they compute.

### `PersistProofs`: values that are stored

| Theorem | States, for every graph of strings, arrays, objects, references and resources |
|---|---|
| `AssertionsHold` | `ExactFit`: copying stays inside the block that was measured and fills it exactly; what is serialized is an unmemoized array or object |
| `EntriesAreSelfContained` | `SelfContained`: a stored entry leads to shared memory only, to strings and arrays only |
| `StoredEqualsOriginal` | `RoundTrip`: what is fetched is bisimilar to what was stored, or is what was serialized |
| `RefusalHasCause` | `RefusedForCause`: a value is refused only for a resource in it, or by a serializer that failed on the value as a whole, never by the first pass that stumbled over an object inside it |
| `OnlyTheBlockIsWritten` | no step writes to a node of the request or of an earlier entry, though copies start as bitwise copies that still point to them |

They rest on `PersistAssumption`: values are what PHP and earlier calls can
leave behind (only arrays have buckets, keys are strings, shared memory leads to
shared memory, the top level is no reference), and addresses fit into a
`zend_ulong`, which makes the rotation `HashKey` injective (`HashInjective`).

Two passes that decide anew at each node whether to follow it must decide alike.
`IndInv` says why they do. While a value is measured (`Calculating`), the size is
that of the nodes visited, each counted once, and each bucket of a visited array
leads to nodes visited or in shared memory, or is `Ahead` of a running loop; so
when no loop is running the visited nodes are closed under what they hold
(`Complete`). While it is copied (`Copying`), copied nodes are visited ones,
placed one behind the other at offsets that are the sum of the sizes before
(`Placed`), so no two copies overlap and none passes the end; each bucket of a
copy leads to copies or into shared memory, or is `Ahead` of a running loop
(`Faithful`), whose buckets are still those of the original (`Looping`). When no
loop is running the copied nodes are closed as well. Every visited node is in
every closed set that holds the value, or is the key of the entry (the last
conjunct of `Measured`), so the copied nodes are the visited ones
(`CopyComplete`), and the block is full. The same conjunct gives the cause of a
refusal: a resource that was met is in the value. Values without loops (strings,
scalars, serialized ones) have the simpler `PlainMeasured` and `PlainCopied`.

### Only model-checked

- Liveness (`Completes`, `ReadsComplete`, `LoopEnds`, `CoreSignalEnds`,
  `Drains`), which needs fairness.

All invariants, safety properties of steps and refinements of the passing runs
are proved. `RoundTrip` says that the stored graph and the original are
bisimilar, with the twins as the relation; that bisimilar values without cycles
unfold to equal ones is induction over data, which the installed provers cannot
do, and is left to the reader.

## What is not modelled

- The process mutex: it is created and destroyed, and no code takes it.
- Memory ordering: models are sequentially consistent. Readers of a chain may
  hold another fine grained lock than the writer, so their view of a new entry
  rests on the architecture's ordering of stores.
- `shm_size`, `entries_hint` and the prime number of slots, phpinfo, argument
  info, parameter parsing, formatting of info arrays, regular expressions (a set
  of keys), the wrappers of PHP's and igbinary's serializers (an encoding that
  only its own decoder reads), reading of preload files (a set of readable ones).
- `sma_info` does not look at the result of `SMA_LOCK`; `Locks` has it for the
  failure in which it owns the lock already (`EDEADLK`). After any other it
  unlocks a lock it does not hold, which POSIX leaves undefined.
- Code that is compiled out (`#if 0`, the `SIGUSR1` handler) or never called
  (`immutable_cache_cache_store_internal`), huge pages, addresses.
- Integer overflow of counters and of `entries_hint`, canaries and valgrind
  hooks of the allocator.
- A list with repeated keys makes `immutable_cache_exists` return an array
  with repeated buckets (`Api!ExistsHit`); no property is stated.

Not a disagreement a model can show: `README.md` of the extension names the
preload setting `immutable_cache.preload`; the code registers
`immutable_cache.preload_path`.

## How the project grew

In this order: `ImmutableMap`, `Cache`, `CacheProofs`, `Sma`, `Iterator`,
`Persist`, `Api`, `Lifecycle`; then `Segments` and `Signals`, `RWLock` and
`Locks`; then the remaining invariants of `Cache`, the two refinements, and the
safety properties of `Signals`, `Api`, `Lifecycle`, `Iterator` and `Sma`; then
the sums (`HitsExact`, `TotalsBounded`) and `Persist` as a machine of steps,
with its proofs. `Sma` stays beside `Cache` and not inside it: `Cache` takes any
free block or none, which covers what a real free list answers, and the product
of both state spaces is out of TLC's reach.
