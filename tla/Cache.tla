-------------------------------- MODULE Cache --------------------------------
(* The shared cache of immutable_cache: workers that add, fetch, test and     *)
(* inspect entries of one hash table in shared memory, through the SMA lock,  *)
(* the fine grained locks and the shared memory allocator.                    *)
(*                                                                            *)
(* One block of shared memory (a Cell) holds one entry with its key and       *)
(* value.  A cell that was freed may be allocated again.  A chain is the      *)
(* linked list hanging from one hash slot.  Values are opaque, but the model  *)
(* keeps which blocks a value points into: a request may store again what it  *)
(* fetched, and persist then reuses the pointer instead of copying.           *)
EXTENDS Integers, Sequences, FiniteSets, Sums

CONSTANTS
  Proc,            \* workers: processes, or threads when ZTS
  Key, Val, Cell,
  Serialized,      \* values that are stored as the string of a serializer
  None,            \* NULL: no key, no value, no cell, no owner
  Ghost,           \* owner of a lock whose holder died
  Hash,            \* Hash[k]: ZSTR_HASH of key k
  NSlots,          \* cache->nslots
  NLocks,          \* IMMUTABLE_CACHE_CACHE_FINE_GRAINED_LOCK_COUNT
  Ops,             \* the operations workers call
  Recursive,       \* builds: FALSE if locks are rwlocks, TRUE if they are
                   \* recursive mutexes
  LockMayFail,     \* lock calls may return an error
  ProtectMemory,   \* immutable_cache.protect_memory
  ZTS,             \* workers are threads of one address space
  Bailout,         \* emalloc may exceed memory_limit and longjmp
  MaxCalls,        \* bound: calls each worker makes
  MaxCrashes       \* bound: workers killed in a behaviour

AllOps == {"add", "fetch", "exists", "stat", "info", "smainfo"}

ASSUME CacheAssumption ==
  /\ None \notin Proc \cup Key \cup Val \cup Cell \cup {Ghost} \cup BOOLEAN
  /\ Ghost \notin Proc
  /\ Serialized \subseteq Val
  /\ Hash \in [Key -> Nat]
  /\ NSlots \in Nat \ {0} /\ NLocks \in Nat \ {0}
  /\ Ops \subseteq AllOps
  /\ Recursive \subseteq BOOLEAN
  /\ {LockMayFail, ProtectMemory, ZTS, Bailout} \subseteq BOOLEAN
  /\ MaxCalls \in Nat /\ MaxCrashes \in Nat

\* Releasing a lock that the caller does
\* not own is undefined: sma_info, which ignores a failed SMA_LOCK, is
\* modelled for the one failure in which the caller does own it (EDEADLK).
ASSUME ScopeAssumption == "smainfo" \in Ops => ~LockMayFail

VARIABLES
  \* shared memory
  smaW, smaR,      \* SMA lock: its writer and its readers
  fineW, fineR,    \* fine grained locks: writer and readers of each
  heap,            \* allocated cells
  mem,             \* mem[c]: entry last written into cell c
  chain,           \* chain[s]: cells linked from slot s, oldest first
  hdr,             \* counters of the cache header
  \* workers
  writable,        \* writable[p]: p's mapping of the segments is PROT_WRITE
  held,            \* held[p]: cells that PHP values of p's request point into
  pc,
  call,            \* call[p]: operation, key, value and blocks it points into
  ent,             \* ent[p]: entry being stored, or found
  pos,             \* pos[p]: entries of the chain a reader has passed
  reg,             \* reg[p]: a header counter p has loaded
  res,             \* res[p]: result to be returned
  todo,            \* todo[p]: calls left (bound)
  crashes,         \* workers killed so far (bound)
  recursive,       \* the build, which never changes
  kept             \* a bailout has left the SMA mutex to its owner for good

locks  == <<smaW, smaR, fineW, fineR>>
shared == <<heap, mem, chain, hdr>>
local  == <<call, ent, pos, reg, res>>
bounds == <<todo, crashes, recursive, kept>>
vars   == <<locks, shared, writable, held, pc, local, bounds>>

Slot == 0 .. NSlots - 1
Lock == 0 .. NLocks - 1
SlotOf(k) == Hash[k] % NSlots
LockOf(k) == Hash[k] % NLocks      \* hash & (count - 1), count a power of 2

Counters == {"nhits", "nmisses", "ninserts", "nentries"}
NoCall   == [op |-> "none", key |-> None, val |-> None, refs |-> {}]
Entries  == [key : Key \cup {None}, val : Val \cup {None}, refs : SUBSET Cell, nhits : Nat]

\* Cells reachable from the hash table.
Linked == {c \in Cell : \E s \in Slot : \E i \in DOMAIN chain[s] : chain[s][i] = c}

Init ==
  /\ smaW = None /\ smaR = {}
  /\ fineW = [l \in Lock |-> None]
  /\ fineR = [l \in Lock |-> {}]
  /\ heap = {}
  /\ mem = [c \in Cell |-> [key |-> None, val |-> None, refs |-> {}, nhits |-> 0]]
  /\ chain = [s \in Slot |-> <<>>]
  /\ hdr = [n \in Counters |-> 0]
  /\ writable = [p \in Proc |-> ~ProtectMemory]
  /\ held = [p \in Proc |-> {}]
  /\ pc = [p \in Proc |-> "idle"]
  /\ call = [p \in Proc |-> NoCall]
  /\ ent = [p \in Proc |-> None]
  /\ pos = [p \in Proc |-> 0]
  /\ reg = [p \in Proc |-> 0]
  /\ res = [p \in Proc |-> None]
  /\ todo = [p \in Proc |-> MaxCalls]
  /\ crashes = 0
  /\ recursive \in Recursive
  /\ kept = FALSE

Goto(p, l) == pc' = [pc EXCEPT ![p] = l]
Answer(p, r) == res' = [res EXCEPT ![p] = r]

-----------------------------------------------------------------------------
(* Memory protection and locks.                                              *)

\* mprotect acts on the address space, which threads share.
SetWritable(p, b) ==
  writable' = [q \in Proc |-> IF ProtectMemory /\ (q = p \/ ZTS) THEN b ELSE writable[q]]

\* A mutex has one holder, whatever it was taken for.
FreeForWriter(w, r) == w = None /\ r = {}
FreeForReader(w, r) == w = None /\ (recursive => r = {})

\* Once kept, the mutex is locked again by its owner and by nobody else, and
\* each unlock leaves the hold of the walk that bailed out.
SmaAgain(p) == kept /\ smaW = p

\* Variant: memory is not unprotected.
SMA_LOCK_ReadOnly(p) ==
  /\ FreeForWriter(smaW, smaR) \/ SmaAgain(p)
  /\ smaW' = p
  /\ UNCHANGED <<writable, smaR, fineW, fineR>>

\* WLOCK of the SMA lock, then UNPROTECT.
SMA_LOCK(p) ==
  /\ FreeForWriter(smaW, smaR) \/ SmaAgain(p)
  /\ smaW' = p
  /\ SetWritable(p, TRUE)
  /\ UNCHANGED <<smaR, fineW, fineR>>

\* PROTECT, then WUNLOCK.
SMA_UNLOCK(p) ==
  /\ smaW' = IF kept THEN smaW ELSE None
  /\ SetWritable(p, FALSE)
  /\ UNCHANGED <<smaR, fineW, fineR>>

\* A worker that already owns the rwlock gets EDEADLK.
Deadlocks(p) == smaW = p /\ ~recursive
SmaLockFails(p) == LockMayFail \/ Deadlocks(p)

-----------------------------------------------------------------------------
(* Calls and requests.                                                       *)

\* immutable_cache_add() of a value that may point into cells held already.
CallAdd(p, k, v, r) ==
  /\ call' = [call EXCEPT ![p] = [op |-> "add", key |-> k, val |-> v, refs |-> r]]
  /\ Goto(p, "s_calc")

CallRead(p, op, k) ==
  /\ call' = [call EXCEPT ![p] = [op |-> op, key |-> k, val |-> None, refs |-> {}]]
  /\ Goto(p, "f_rlock")

CallInfo(p) ==
  /\ call' = [call EXCEPT ![p] = [NoCall EXCEPT !.op = "info"]]
  /\ Goto(p, "i_rlock")

CallSmaInfo(p) ==
  /\ call' = [call EXCEPT ![p] = [NoCall EXCEPT !.op = "smainfo"]]
  /\ Goto(p, "m_lock")

\* The blocks an added value points into: none if it is serialized.
Reusable(p, v) == IF v \in Serialized THEN {{}} ELSE {{}, held[p]}

Begin(p) ==
  /\ pc[p] = "idle"
  /\ todo[p] > 0
  /\ todo' = [todo EXCEPT ![p] = @ - 1]
  /\ \/ /\ "add" \in Ops
        /\ \E k \in Key, v \in Val : \E r \in Reusable(p, v) : CallAdd(p, k, v, r)
     \/ \E op \in Ops \cap {"fetch", "exists", "stat"}, k \in Key : CallRead(p, op, k)
     \/ "info" \in Ops /\ CallInfo(p)
     \/ "smainfo" \in Ops /\ CallSmaInfo(p)
  /\ UNCHANGED <<locks, shared, writable, held, ent, pos, reg, res, crashes, recursive, kept>>

Return(p) ==
  /\ pc[p] = "ret"
  /\ Goto(p, "idle")
  /\ call' = [call EXCEPT ![p] = NoCall]
  /\ ent' = [ent EXCEPT ![p] = None]
  /\ pos' = [pos EXCEPT ![p] = 0]
  /\ reg' = [reg EXCEPT ![p] = 0]
  /\ res' = [res EXCEPT ![p] = None]
  /\ UNCHANGED <<locks, shared, writable, held, bounds>>

\* End of a request: its PHP values are gone.
EndRequest(p) ==
  /\ pc[p] = "idle"
  /\ held[p] # {}
  /\ held' = [held EXCEPT ![p] = {}]
  /\ UNCHANGED <<locks, shared, writable, pc, local, bounds>>

-----------------------------------------------------------------------------
(* immutable_cache_cache_store.                                              *)

\* Sizing: resources and failing serializers are refused.
PersistCalc(p) ==
  /\ pc[p] = "s_calc"
  /\ \/ Goto(p, "s_malloc") /\ UNCHANGED res
     \/ Goto(p, "ret") /\ Answer(p, FALSE)
  /\ UNCHANGED <<locks, shared, writable, held, call, ent, pos, reg, bounds>>

MallocLock(p) ==
  /\ pc[p] = "s_malloc"
  /\ SMA_LOCK(p)
  /\ Goto(p, "s_alloc")
  /\ UNCHANGED <<shared, held, local, bounds>>

MallocLockFails(p) ==
  /\ pc[p] = "s_malloc"
  /\ SmaLockFails(p)
  /\ Answer(p, FALSE)
  /\ Goto(p, "ret")
  /\ UNCHANGED <<locks, shared, writable, held, call, ent, pos, reg, bounds>>

NoMemory(p) == Answer(p, FALSE) /\ Goto(p, "ret") /\ UNCHANGED <<heap, ent>>

\* Any free block may be chosen; none may be large enough.
MallocAlloc(p) ==
  /\ pc[p] = "s_alloc"
  /\ \/ \E c \in Cell \ heap :
          /\ heap' = heap \cup {c}
          /\ ent' = [ent EXCEPT ![p] = c]
          /\ Goto(p, "s_unprot")
          /\ UNCHANGED res
     \/ NoMemory(p)
  /\ SMA_UNLOCK(p)
  /\ UNCHANGED <<mem, chain, hdr, held, call, pos, reg, bounds>>

PersistUnprotect(p) ==
  /\ pc[p] = "s_unprot"
  /\ SetWritable(p, TRUE)
  /\ Goto(p, "s_copy")
  /\ UNCHANGED <<locks, shared, held, local, bounds>>

\* The entry: its own block, and the blocks whose pointers it reuses.
NewEntry(p) ==
  [key |-> call[p].key, val |-> call[p].val,
   refs |-> call[p].refs \cup {ent[p]}, nhits |-> 0]

\* Copies into the block, outside any lock, and protects memory again.
PersistCopy(p) ==
  /\ pc[p] = "s_copy"
  /\ mem' = [mem EXCEPT ![ent[p]] = NewEntry(p)]
  /\ SetWritable(p, FALSE)
  /\ Goto(p, "s_wlock")
  /\ UNCHANGED <<locks, heap, chain, hdr, held, local, bounds>>

WLockSma(p) ==
  /\ pc[p] = "s_wlock"
  /\ SMA_LOCK(p)
  /\ Goto(p, "s_fine")
  /\ UNCHANGED <<shared, held, local, bounds>>

\* Variant: the failure goes unnoticed.
WLockSmaUnchecked(p) ==
  /\ pc[p] = "s_wlock"
  /\ SmaLockFails(p)
  /\ Goto(p, "s_insert")
  /\ UNCHANGED <<locks, shared, writable, held, local, bounds>>

WLockSmaFails(p) ==
  /\ pc[p] = "s_wlock"
  /\ SmaLockFails(p)
  /\ Answer(p, FALSE)
  /\ Goto(p, "s_free")
  /\ UNCHANGED <<locks, shared, writable, held, call, ent, pos, reg, bounds>>

\* Variant: only the SMA lock is taken.
TakeNoLock(p, l) == UNCHANGED fineW
TakeFineLock(p, l) ==
  /\ FreeForWriter(fineW[l], fineR[l])
  /\ fineW' = [fineW EXCEPT ![l] = p]

WLockFine(p) ==
  /\ pc[p] = "s_fine"
  /\ TakeFineLock(p, LockOf(call[p].key))
  /\ Goto(p, "s_insert")
  /\ UNCHANGED <<smaW, smaR, fineR, shared, writable, held, local, bounds>>

\* Variant: success is reported.
WLockFineFailsUnnoticed(p) ==
  /\ pc[p] = "s_fine"
  /\ LockMayFail
  /\ SMA_UNLOCK(p)
  /\ Answer(p, TRUE)
  /\ Goto(p, "s_free")
  /\ UNCHANGED <<shared, held, call, ent, pos, reg, bounds>>

\* The SMA lock is given back and the block freed.
WLockFineFails(p) ==
  /\ pc[p] = "s_fine"
  /\ LockMayFail
  /\ SMA_UNLOCK(p)
  /\ Answer(p, FALSE)
  /\ Goto(p, "s_free")
  /\ UNCHANGED <<shared, held, call, ent, pos, reg, bounds>>

\* Variant: only the first entry of the chain is compared.
PresentAtHead(s, k) == chain[s] # <<>> /\ mem[chain[s][1]].key = k
Present(s, k) == \E i \in DOMAIN chain[s] : mem[chain[s][i]].key = k

\* Variant: new entries go to the front.
LinkAtHead(s, c) == chain' = [chain EXCEPT ![s] = <<c>> \o @]
LinkAtTail(s, c) == chain' = [chain EXCEPT ![s] = Append(@, c)]

\* The whole chain is compared before the entry is linked at its tail.
InsertExclusive(p) ==
  LET s == SlotOf(call[p].key) IN
  /\ pc[p] = "s_insert"
  /\ \/ /\ Present(s, call[p].key)
        /\ Answer(p, FALSE)
        /\ Goto(p, "s_wunlock")
        /\ UNCHANGED chain
     \/ /\ ~Present(s, call[p].key)
        /\ LinkAtTail(s, ent[p])
        /\ Answer(p, TRUE)
        /\ Goto(p, "s_count")
  /\ UNCHANGED <<locks, heap, mem, hdr, writable, held, call, ent, pos, reg, bounds>>

InsertCount(p) ==
  /\ pc[p] = "s_count"
  /\ hdr' = [hdr EXCEPT !["nentries"] = @ + 1, !["ninserts"] = @ + 1]
  /\ Goto(p, "s_wunlock")
  /\ UNCHANGED <<locks, heap, mem, chain, writable, held, local, bounds>>

WUnlockFine(p) ==
  /\ pc[p] = "s_wunlock"
  /\ fineW' = [fineW EXCEPT ![LockOf(call[p].key)] = None]
  /\ Goto(p, "s_sunlock")
  /\ UNCHANGED <<smaW, smaR, fineR, shared, writable, held, local, bounds>>

\* Variants: the entry is freed always, or never.
FreeAlways(p) == "s_free"
FreeNever(p) == "ret"
FreeIfRefused(p) == IF res[p] = TRUE THEN "ret" ELSE "s_free"

WUnlockSma(p) ==
  /\ pc[p] = "s_sunlock"
  /\ SMA_UNLOCK(p)
  /\ Goto(p, FreeIfRefused(p))
  /\ UNCHANGED <<shared, held, local, bounds>>

\* free_entry of an entry that was not linked.
FreeLock(p) ==
  /\ pc[p] = "s_free"
  /\ SMA_LOCK(p)
  /\ Goto(p, "s_dealloc")
  /\ UNCHANGED <<shared, held, local, bounds>>

FreeLockFails(p) ==
  /\ pc[p] = "s_free"
  /\ SmaLockFails(p)
  /\ Goto(p, "ret")
  /\ UNCHANGED <<locks, shared, writable, held, local, bounds>>

FreeDealloc(p) ==
  /\ pc[p] = "s_dealloc"
  /\ heap' = heap \ {ent[p]}
  /\ SMA_UNLOCK(p)
  /\ Goto(p, "ret")
  /\ UNCHANGED <<mem, chain, hdr, held, local, bounds>>

-----------------------------------------------------------------------------
(* immutable_cache_cache_fetch, _exists and _stat.                           *)

\* Variant: readers wait for the SMA lock too.
RLockBoth(p) ==
  LET l == LockOf(call[p].key) IN
  /\ pc[p] = "f_rlock"
  /\ FreeForReader(smaW, smaR)
  /\ FreeForReader(fineW[l], fineR[l])
  /\ fineR' = [fineR EXCEPT ![l] = @ \cup {p}]
  /\ Goto(p, "f_walk")
  /\ UNCHANGED <<smaW, smaR, fineW, shared, writable, held, local, bounds>>

RLock(p) ==
  LET l == LockOf(call[p].key) IN
  /\ pc[p] = "f_rlock"
  /\ FreeForReader(fineW[l], fineR[l])
  /\ fineR' = [fineR EXCEPT ![l] = @ \cup {p}]
  /\ Goto(p, "f_walk")
  /\ UNCHANGED <<smaW, smaR, fineW, shared, writable, held, local, bounds>>

RLockFails(p) ==
  /\ pc[p] = "f_rlock"
  /\ LockMayFail
  /\ Answer(p, IF call[p].op = "fetch" THEN None ELSE FALSE)
  /\ Goto(p, "ret")
  /\ UNCHANGED <<locks, shared, writable, held, call, ent, pos, reg, bounds>>

\* Only fetch keeps statistics, and not when memory is protected.
AfterWalk(p) ==
  IF call[p].op = "fetch" /\ ~ProtectMemory THEN "f_count" ELSE "f_runlock"

\* Variant: next pointers are not followed.
SearchedHead(p) ==
  LET ch == chain[SlotOf(call[p].key)] IN IF ch = <<>> THEN ch ELSE <<ch[1]>>
Searched(p) == chain[SlotOf(call[p].key)]

\* Variant: the same entry is compared again.
StayedAt(p) == pos[p]
NextAfter(p) == pos[p] + 1

\* One entry of the chain is compared, or its end reached.
Walk(p) ==
  LET ch == Searched(p) IN
  /\ pc[p] = "f_walk"
  /\ \/ /\ pos[p] = Len(ch)
        /\ Goto(p, AfterWalk(p))
        /\ UNCHANGED <<ent, pos>>
     \/ /\ pos[p] < Len(ch)
        /\ mem[ch[pos[p] + 1]].key = call[p].key
        /\ ent' = [ent EXCEPT ![p] = ch[pos[p] + 1]]
        /\ Goto(p, AfterWalk(p))
        /\ UNCHANGED pos
     \/ /\ pos[p] < Len(ch)
        /\ mem[ch[pos[p] + 1]].key # call[p].key
        /\ pos' = [pos EXCEPT ![p] = NextAfter(p)]
        /\ UNCHANGED <<pc, ent>>
  /\ UNCHANGED <<locks, shared, writable, held, call, reg, res, bounds>>

\* ATOMIC_INC_RLOCKED: one step, but a load and a store in a build whose locks
\* are mutexes.  Variant: never atomic.
PlainIncrementAlways == TRUE
PlainIncrement == recursive

\* The header counter of a hit or a miss.
CounterOf(p) == IF ent[p] = None THEN "nmisses" ELSE "nhits"
AfterCount(p) == IF ent[p] = None THEN "f_runlock" ELSE "f_entry"

Count(p) ==
  /\ pc[p] = "f_count"
  /\ \/ /\ ~PlainIncrement
        /\ hdr' = [hdr EXCEPT ![CounterOf(p)] = @ + 1]
        /\ Goto(p, AfterCount(p))
        /\ UNCHANGED reg
     \/ /\ PlainIncrement
        /\ reg' = [reg EXCEPT ![p] = hdr[CounterOf(p)]]
        /\ Goto(p, "f_store")
        /\ UNCHANGED hdr
  /\ UNCHANGED <<locks, heap, mem, chain, writable, held, call, ent, pos, res, bounds>>

CountStore(p) ==
  /\ pc[p] = "f_store"
  /\ hdr' = [hdr EXCEPT ![CounterOf(p)] = reg[p] + 1]
  /\ Goto(p, AfterCount(p))
  /\ UNCHANGED <<locks, heap, mem, chain, writable, held, local, bounds>>

CountEntry(p) ==
  /\ pc[p] = "f_entry"
  /\ mem' = [mem EXCEPT ![ent[p]].nhits = @ + 1]
  /\ Goto(p, "f_runlock")
  /\ UNCHANGED <<locks, heap, chain, hdr, writable, held, local, bounds>>

ReleaseRead(p, l) == fineR' = [fineR EXCEPT ![l] = @ \ {p}]

\* exists and stat know their answer here; fetch reads the entry afterwards.
RUnlock(p) ==
  /\ pc[p] = "f_runlock"
  /\ ReleaseRead(p, LockOf(call[p].key))
  /\ \/ /\ call[p].op = "fetch" /\ ent[p] # None
        /\ Goto(p, "f_unpersist")
        /\ UNCHANGED res
     \/ /\ call[p].op = "fetch" /\ ent[p] = None
        /\ Answer(p, None)
        /\ Goto(p, "ret")
     \/ /\ call[p].op # "fetch"
        /\ Answer(p, ent[p] # None)
        /\ Goto(p, "ret")
  /\ UNCHANGED <<smaW, smaR, fineW, shared, writable, held, call, ent, pos, reg, bounds>>

\* A value is not copied: the request's values point into shared memory.  One
\* that was serialized is rebuilt in the request's memory.
PointedTo(c) == IF mem[c].val \in Serialized THEN {} ELSE mem[c].refs

Unpersist(p) ==
  /\ pc[p] = "f_unpersist"
  /\ Answer(p, mem[ent[p]].val)
  /\ held' = [held EXCEPT ![p] = @ \cup PointedTo(ent[p])]
  /\ Goto(p, "ret")
  /\ UNCHANGED <<locks, shared, writable, call, ent, pos, reg, bounds>>

\* The serializer may not accept the string (another serializer wrote it, or a
\* class refuses): fetch reports failure, although the entry is there.
UnpersistFails(p) ==
  /\ pc[p] = "f_unpersist"
  /\ mem[ent[p]].val \in Serialized
  /\ Answer(p, None)
  /\ Goto(p, "ret")
  /\ UNCHANGED <<locks, shared, writable, held, call, ent, pos, reg, bounds>>

-----------------------------------------------------------------------------
(* immutable_cache_cache_info and immutable_cache_sma_info.                  *)

\* Variant: no lock is taken.
TakeNoReadLock(p) == UNCHANGED smaR
TakeSmaRead(p) ==
  \/ FreeForReader(smaW, smaR) /\ smaR' = smaR \cup {p}
  \/ SmaAgain(p) /\ UNCHANGED smaR

RLockGlobal(p) ==
  /\ pc[p] = "i_rlock"
  /\ TakeSmaRead(p)
  /\ Goto(p, "i_count")
  /\ UNCHANGED <<smaW, fineW, fineR, shared, writable, held, local, bounds>>

RLockGlobalFails(p) ==
  /\ pc[p] = "i_rlock"
  /\ SmaLockFails(p)
  /\ Goto(p, "ret")
  /\ UNCHANGED <<locks, shared, writable, held, local, bounds>>

InfoCount(p) ==
  /\ pc[p] = "i_count"
  /\ reg' = [reg EXCEPT ![p] = hdr["nentries"]]
  /\ Goto(p, "i_list")
  /\ UNCHANGED <<locks, shared, writable, held, call, ent, pos, res, bounds>>

\* The list shares the keys of the entries.  A bailout releases the lock too.
InfoList(p) ==
  /\ pc[p] = "i_list"
  /\ held' = [held EXCEPT ![p] = @ \cup Linked]
  /\ smaR' = smaR \ {p}
  /\ Goto(p, "ret")
  /\ UNCHANGED <<smaW, fineW, fineR, shared, writable, local, bounds>>

SmaInfoLock(p) ==
  /\ pc[p] = "m_lock"
  /\ SMA_LOCK(p)
  /\ Goto(p, "m_walk")
  /\ UNCHANGED <<shared, held, local, bounds>>

\* The result of SMA_LOCK is ignored.
SmaInfoLockFails(p) ==
  /\ pc[p] = "m_lock"
  /\ Deadlocks(p)
  /\ Goto(p, "m_walk")
  /\ UNCHANGED <<locks, shared, writable, held, local, bounds>>

SmaInfoUnlock(p) ==
  /\ pc[p] = "m_walk"
  /\ SMA_UNLOCK(p)
  /\ Goto(p, "ret")
  /\ UNCHANGED <<shared, held, local, bounds>>

\* emalloc fails inside the locked walk: the request ends, the lock stays.  A
\* recursive mutex then has one hold more than will ever be released.
SmaInfoBailout(p) ==
  /\ pc[p] = "m_walk"
  /\ Bailout
  /\ kept' = recursive
  /\ held' = [held EXCEPT ![p] = {}]
  /\ Goto(p, "ret")
  /\ UNCHANGED <<locks, shared, writable, local, todo, crashes, recursive>>

-----------------------------------------------------------------------------
(* A worker process is killed; its locks stay taken, by nobody who will ever *)
(* release them.  The server forks another worker in its place.              *)
Crash(p) ==
  LET orphan(S) == IF p \in S THEN (S \ {p}) \cup {Ghost} ELSE S IN
  /\ ~ZTS
  /\ crashes < MaxCrashes
  /\ pc[p] # "idle"
  /\ crashes' = crashes + 1
  /\ smaW' = IF smaW = p THEN Ghost ELSE smaW
  /\ smaR' = orphan(smaR)
  /\ fineW' = [l \in Lock |-> IF fineW[l] = p THEN Ghost ELSE fineW[l]]
  /\ fineR' = [l \in Lock |-> orphan(fineR[l])]
  /\ SetWritable(p, FALSE)
  /\ held' = [held EXCEPT ![p] = {}]
  /\ Goto(p, "idle")
  /\ call' = [call EXCEPT ![p] = NoCall]
  /\ ent' = [ent EXCEPT ![p] = None]
  /\ pos' = [pos EXCEPT ![p] = 0]
  /\ reg' = [reg EXCEPT ![p] = 0]
  /\ res' = [res EXCEPT ![p] = None]
  /\ UNCHANGED <<shared, todo, recursive, kept>>

-----------------------------------------------------------------------------
Store(p) ==
  \/ PersistCalc(p) \/ MallocLock(p) \/ MallocLockFails(p) \/ MallocAlloc(p)
  \/ PersistUnprotect(p) \/ PersistCopy(p)
  \/ WLockSma(p) \/ WLockSmaFails(p) \/ WLockFine(p) \/ WLockFineFails(p)
  \/ InsertExclusive(p) \/ InsertCount(p) \/ WUnlockFine(p) \/ WUnlockSma(p)
  \/ FreeLock(p) \/ FreeLockFails(p) \/ FreeDealloc(p)

Read(p) ==
  \/ RLock(p) \/ RLockFails(p) \/ Walk(p) \/ Count(p) \/ CountStore(p)
  \/ CountEntry(p) \/ RUnlock(p) \/ Unpersist(p) \/ UnpersistFails(p)

Info(p) ==
  \/ RLockGlobal(p) \/ RLockGlobalFails(p) \/ InfoCount(p) \/ InfoList(p)
  \/ SmaInfoLock(p) \/ SmaInfoLockFails(p) \/ SmaInfoUnlock(p) \/ SmaInfoBailout(p)

Step(p) == Store(p) \/ Read(p) \/ Info(p) \/ Return(p)

\* All calls of the bounded run are made.
Done == (\A p \in Proc : pc[p] = "idle" /\ todo[p] = 0) /\ UNCHANGED vars

Next == (\E p \in Proc : Begin(p) \/ Step(p) \/ EndRequest(p) \/ Crash(p)) \/ Done

Spec == Init /\ [][Next]_vars

\* A worker inside a call keeps running; a lock that is free is granted.
FairSpec == Spec /\ \A p \in Proc : WF_vars(Step(p))
-----------------------------------------------------------------------------
(* Properties.                                                               *)

StorePcs == {"s_unprot", "s_copy", "s_wlock", "s_fine", "s_insert", "s_count",
             "s_wunlock", "s_sunlock", "s_free", "s_dealloc"}
FoundPcs == {"f_count", "f_store", "f_entry", "f_runlock", "f_unpersist"}
Pcs == StorePcs \cup FoundPcs \cup
       {"idle", "ret", "s_calc", "s_malloc", "s_alloc", "f_rlock", "f_walk",
        "i_rlock", "i_count", "i_list", "m_lock", "m_walk"}

\* Types of the variables: owners of locks, cells, counters and program counters.
TypeOK ==
  /\ smaW \in Proc \cup {None, Ghost}
  /\ smaR \subseteq Proc \cup {Ghost}
  /\ fineW \in [Lock -> Proc \cup {None, Ghost}]
  /\ fineR \in [Lock -> SUBSET (Proc \cup {Ghost})]
  /\ heap \subseteq Cell
  /\ mem \in [Cell -> Entries]
  /\ chain \in [Slot -> Seq(Cell)]
  /\ hdr \in [Counters -> Nat]
  /\ writable \in [Proc -> BOOLEAN]
  /\ held \in [Proc -> SUBSET Cell]
  /\ pc \in [Proc -> Pcs]
  /\ call \in [Proc -> [op : Ops \cup {"none"}, key : Key \cup {None},
                        val : Val \cup {None}, refs : SUBSET Cell]]
  /\ ent \in [Proc -> Cell \cup {None}]
  /\ pos \in [Proc -> Nat]
  /\ reg \in [Proc -> Nat]
  /\ res \in [Proc -> Val \cup {None} \cup BOOLEAN]
  /\ todo \in [Proc -> 0 .. MaxCalls]
  /\ crashes \in 0 .. MaxCrashes
  /\ recursive \in BOOLEAN /\ kept \in BOOLEAN

\* The hash table holds at most one entry per key, in the chain of its slot,
\* although adds of one key look it up only after they have persisted it
\* (immutable_cache_cache_wlocked_insert_exclusive).
UniqueKeys ==
  \A s, t \in Slot : \A i \in DOMAIN chain[s], j \in DOMAIN chain[t] :
    /\ SlotOf(mem[chain[s][i]].key) = s
    /\ mem[chain[s][i]].key = mem[chain[t][j]].key => s = t /\ i = j

\* Nobody can reach freed memory: every block that a linked entry, a value of
\* a request or an add in progress points into belongs to an entry that stays
\* linked (persist reuses shared pointers; free_entry frees a block).
NoDangling ==
  /\ Linked \subseteq heap
  /\ \A c \in Linked : mem[c].refs \subseteq Linked
  /\ \A p \in Proc : held[p] \cup call[p].refs \subseteq Linked

\* An entry that a read has found is still that entry when it is used, also
\* after the read lock is released (immutable_cache_cache_fetch unpersists
\* after runlock); a key it has missed stays absent until its lock is released.
AnswerStable ==
  \A p \in Proc : pc[p] \in FoundPcs =>
    IF ent[p] = None
    THEN \A c \in Linked : mem[c].key # call[p].key
    ELSE ent[p] \in Linked /\ mem[ent[p]].key = call[p].key

\* Every block is in the table or owned by the one add that is storing it:
\* each refused add gives its block back exactly once (free_entry).
NoLeak ==
  /\ heap = Linked \cup {ent[p] : p \in {q \in Proc : pc[q] \in StorePcs}}
  /\ \A p, q \in Proc :
       p # q /\ pc[p] \in StorePcs /\ pc[q] \in StorePcs => ent[p] # ent[q]

\* The counters cache_info reports agree with the list it reports, whatever
\* adds run or die meanwhile (immutable_cache_cache_info).
InfoConsistent ==
  \A p \in Proc : pc[p] = "i_list" =>
    reg[p] = Cardinality(Linked) /\ hdr["ninserts"] = Cardinality(Linked)

\* Fetches that are between the two increments of a hit.
Counting == {p \in Proc : pc[p] = "f_entry"}
HitsOf == [c \in Cell |-> mem[c].nhits]
HitsSeen == Total(HitsOf, Linked) + Cardinality(Counting)

\* Hits counted in the header and in the entries agree, up to the fetches that
\* are between the two increments (immutable_cache_cache_rlocked_find).
HitsExact == hdr["nhits"] = HitsSeen

\* No worker writes to shared memory while its mapping is read-only
\* (immutable_cache_sma_protect_memory).
NoFault ==
  \A p \in Proc :
    pc[p] \in {"s_alloc", "s_copy", "s_insert", "s_count", "s_dealloc",
              "f_count", "f_store", "f_entry"} => writable[p]

\* No worker asks for a lock that it owns already, so that locking calls
\* never fail (immutable_cache_lock_wlock).
LocksNeverFail ==
  \A p \in Proc :
    pc[p] \in {"s_malloc", "s_wlock", "s_free", "i_rlock", "m_lock"} => smaW # p

\* A step that neither unlinks, moves, overwrites nor frees a linked entry:
\* chains only grow at their tail, by one entry, and only hit counts change.
EntriesStay ==
  \A s \in Slot :
    /\ Len(chain[s]) <= Len(chain'[s])
    /\ Len(chain'[s]) <= Len(chain[s]) + 1
    /\ \A i \in DOMAIN chain[s] :
         LET c == chain[s][i] IN
         /\ chain'[s][i] = c
         /\ c \in heap'
         /\ mem[c].nhits <= mem'[c].nhits
         /\ mem'[c] = [mem[c] EXCEPT !.nhits = mem'[c].nhits]

\* No step takes back what the table holds, whatever fails or dies, and adds
\* appear in it one at a time (immutable_cache_cache_store).
Immutable == [][EntriesStay]_vars

\* A bailout inside the locked walk of sma_info has left the SMA lock taken.
Leaked == \E p \in Proc : smaW = p /\ pc[p] = "idle"

\* Every call returns, unless a bailout leaves the SMA lock taken: lock order
\* and lock release leave nobody waiting
\* (immutable_cache_cache_wlock, _wunlock, SMA_LOCK, SMA_UNLOCK).
Completes == \A p \in Proc : pc[p] # "idle" ~> (pc[p] = "idle" \/ Leaked)

\* Reads return even when a worker has left the SMA lock taken for good: they
\* depend on no lock but their own (immutable_cache_cache_rlock).
ReadsComplete ==
  \A p \in Proc : pc[p] = "f_rlock" ~> pc[p] = "idle"

-----------------------------------------------------------------------------
(* The inductive invariant behind the safety properties: what each program   *)
(* counter implies about locks, blocks and the table.                        *)

\* Calls on a key know it; a read has found nothing before it walks; an add
\* that has linked its entry reports success.
KeyPcs == StorePcs \cup FoundPcs \cup {"s_calc", "s_malloc", "s_alloc", "f_rlock", "f_walk"}
CallShape ==
  \A p \in Proc :
    /\ pc[p] \in KeyPcs => call[p].key \in Key
    /\ pc[p] \in {"idle", "f_rlock", "f_walk"} => ent[p] = None
    /\ pc[p] \in {"idle", "f_rlock"} => pos[p] = 0
    /\ pc[p] \in {"f_entry", "f_unpersist"} => ent[p] # None
    /\ pc[p] = "s_count" => res[p] = TRUE

\* Writers of the heap and of the table own the SMA lock; writers of a chain
\* own the lock of their key against its readers.
SmaPcs  == {"s_alloc", "s_fine", "s_insert", "s_count", "s_wunlock", "s_sunlock",
            "s_dealloc", "m_walk"}
FinePcs == {"s_insert", "s_count", "s_wunlock"}
ReadPcs == {"f_walk", "f_count", "f_store", "f_entry", "f_runlock"}
SmaOwned == \A p \in Proc : pc[p] \in SmaPcs => smaW = p
FineOwned ==
  /\ \A p \in Proc : pc[p] \in FinePcs => fineW[LockOf(call[p].key)] = p
  /\ \A p \in Proc : pc[p] \in ReadPcs => p \in fineR[LockOf(call[p].key)]
  /\ \A l \in Lock : fineW[l] # None => fineR[l] = {}

\* An add owns its block alone, and links it only once it is written.
PrivatePcs == {"s_unprot", "s_copy", "s_wlock", "s_fine", "s_insert", "s_free", "s_dealloc"}
BlockOwned ==
  \A p \in Proc : pc[p] \in StorePcs =>
    /\ ent[p] \in heap
    /\ \A q \in Proc : q # p /\ pc[q] \in StorePcs => ent[q] # ent[p]
Private(p) ==
  \/ pc[p] \in PrivatePcs
  \/ pc[p] \in {"s_wunlock", "s_sunlock"} /\ res[p] # TRUE
BlockPrivate == \A p \in Proc : Private(p) => ent[p] \notin Linked
BlockWritten ==
  \A p \in Proc : pc[p] \in {"s_wlock", "s_fine", "s_insert"} =>
    /\ mem[ent[p]].key = call[p].key
    /\ mem[ent[p]].val = call[p].val
    /\ mem[ent[p]].refs = call[p].refs \cup {ent[p]}

\* A walk has passed only entries of other keys.
WalkPassed ==
  \A p \in Proc : pc[p] = "f_walk" =>
    /\ pos[p] <= Len(Searched(p))
    /\ \A i \in 1 .. pos[p] : mem[Searched(p)[i]].key # call[p].key

\* The conjunction is preserved by every step (IndInv is what makes UniqueKeys,
\* NoDangling and AnswerStable true of any number of workers, keys and blocks).
IndInv ==
  /\ TypeOK /\ CallShape /\ SmaOwned /\ FineOwned
  /\ BlockOwned /\ BlockPrivate /\ BlockWritten /\ WalkPassed
  /\ UniqueKeys /\ NoDangling /\ AnswerStable

-----------------------------------------------------------------------------
(* The cache implements the write-once map.  An add takes effect when it is  *)
(* linked or found to be a duplicate; a read when it meets its entry or the  *)
(* end of the chain, but a fetch that has found its entry only when it has   *)
(* rebuilt the value or failed to.  The statistics calls do not touch the    *)
(* map.                                                                      *)

MapCall(p) == call[p].op \in {"add", "fetch", "exists", "stat"}

AbsMap ==
  [k \in Key |->
    IF \E c \in Linked : mem[c].key = k
    THEN mem[CHOOSE c \in Linked : mem[c].key = k].val
    ELSE None]

\* A fetch that has an entry but not yet its value.
Decoding(p) == pc[p] \in FoundPcs /\ call[p].op = "fetch" /\ ent[p] # None

PhaseOf(p) ==
  CASE ~MapCall(p) -> "idle"
    [] MapCall(p) /\ pc[p] \in FoundPcs \cup {"ret"} /\ ~Decoding(p) -> "applied"
    [] MapCall(p) /\ pc[p] \in StorePcs /\ res[p] # None -> "applied"
    [] OTHER -> "called"

CallOf(p) ==
  IF MapCall(p)
  THEN [op |-> call[p].op, key |-> call[p].key, val |-> call[p].val]
  ELSE [op |-> "none", key |-> None, val |-> None]

ResultOf(p) ==
  CASE ~MapCall(p) -> None
    [] MapCall(p) /\ pc[p] \in FoundPcs /\ call[p].op # "fetch" -> ent[p] # None
    [] OTHER -> res[p]

AbsPhase == [p \in Proc |-> PhaseOf(p)]
AbsCall  == [p \in Proc |-> CallOf(p)]
AbsRes   == [p \in Proc |-> ResultOf(p)]

Map == INSTANCE ImmutableMap
         WITH map <- AbsMap, phase <- AbsPhase, call <- AbsCall, res <- AbsRes,
              ReadMayFail <- LockMayFail

\* Every behaviour of the cache is one of the write-once map: adds and reads
\* are atomic, a key is bound once, and no answer contradicts the map
\* (immutable_cache_cache_store, _fetch, _exists, _stat).
ImplementsMap == Map!Safety
=============================================================================
