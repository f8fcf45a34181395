-------------------------------- MODULE Locks --------------------------------
(* The locks of immutable_cache_lock.c in all their builds, used the way the  *)
(* cache uses them: native rwlocks, recursive mutexes, spin locks, file locks *)
(* (fcntl) and Windows SRW locks.                                             *)
(*                                                                            *)
(* A lock call blocks interruptions (PHP's deferred signals), calls the       *)
(* implementation, which may make it wait or fail, and unblocks them again on *)
(* failure or after the unlock.  An interruption that is not blocked may      *)
(* throw a thread out of its call.                                            *)
EXTENDS Integers, Sequences, SequencesExt

CONSTANTS
  Thread, None,
  Kinds,           \* builds: "rwlock", "mutex", "spin", "fcntl", "srw"
  Zts,             \* threads of one process; otherwise each is a process
  LockMayFail,     \* pthread lock calls may return an error
  FcntlMayFail,    \* fcntl may return an error other than EINTR
  OpsOf,           \* OpsOf[t]: the calls of the cache that t makes
  MaxFaults        \* bound: kills, interruptions and bailouts

AllKinds == {"rwlock", "mutex", "spin", "fcntl", "srw"}
AllOps   == {"store", "malloc", "read", "info", "smainfo"}

ASSUME LocksAssumption ==
  /\ None \notin Thread
  /\ Kinds \subseteq AllKinds /\ OpsOf \in [Thread -> SUBSET AllOps]
  /\ {Zts, LockMayFail, FcntlMayFail} \subseteq BOOLEAN
  /\ MaxFaults \in Nat

Lock == {"sma", "fine"}

VARIABLES
  kind,            \* the build, which never changes
  held,            \* held[l]: holds the implementation has on record
  depth,           \* depth[l]: how often a mutex is locked
  op, todo, got,   \* a thread's call, the locks it is yet to take, and those
                   \* it works under, in the order they were taken
  at,              \* at[t]: where t is
  blocked,         \* blocked[t]: depth of blocked interruptions
  left,            \* history: threads that were thrown out under a lock by a
                   \* bailout, or killed
  faults           \* kills, interruptions and bailouts so far (bound)

vars == <<kind, held, depth, op, todo, got, at, blocked, left, faults>>

Read(l)  == [lock |-> l, mode |-> "r"]
Write(l) == [lock |-> l, mode |-> "w"]

\* The locks each call takes: cache_wlock; SMA_LOCK in malloc and free;
\* cache_rlock; cache_rlock_global; SMA_LOCK in sma_info.
Plan(o) ==
  CASE o = "store"   -> <<Write("sma"), Write("fine")>>
    [] o = "malloc"  -> <<Write("sma")>>
    [] o = "read"    -> <<Read("fine")>>
    [] o = "info"    -> <<Read("sma")>>
    [] o = "smainfo" -> <<Write("sma")>>

\* lock_create leaves every lock free.
Init ==
  /\ kind \in Kinds
  /\ held = [l \in Lock |-> {}]
  /\ depth = [l \in Lock |-> 0]
  /\ op = [t \in Thread |-> None]
  /\ todo = [t \in Thread |-> <<>>] /\ got = [t \in Thread |-> <<>>]
  /\ at = [t \in Thread |-> "idle"]
  /\ blocked = [t \in Thread |-> 0]
  /\ left = {} /\ faults = 0

Goto(t, l) == at' = [at EXCEPT ![t] = l]

-----------------------------------------------------------------------------
(* The implementations.                                                      *)

\* File locks belong to processes, the others to threads.
Owner(t)   == IF kind = "fcntl" /\ Zts THEN "process" ELSE t
Hold(t, m) == [by |-> Owner(t), mode |-> m]
Others(t, l) == {h \in held[l] : h.by # Owner(t)}

\* Whether a call that asks for x returns with the lock.  pthread_rwlock: it is
\* shared among readers, and readers do not wait for writers that wait.
ReadOnly(H) == \A h \in H : h.mode = "r"
RwlockFree(x) == IF x.mode = "r" THEN ReadOnly(held[x.lock]) ELSE held[x.lock] = {}
\* AcquireSRWLockShared, AcquireSRWLockExclusive.
SrwFree(x) == RwlockFree(x)
\* A recursive mutex may be locked again by its owner.
MutexFree(t, x) == Others(t, x.lock) = {}
\* A spin lock is a word that xchg finds to be 0.
SpinFree(x) == held[x.lock] = {}
\* F_SETLKW looks at what other processes have locked.
FcntlFree(t, x) == IF x.mode = "r" THEN ReadOnly(Others(t, x.lock)) ELSE Others(t, x.lock) = {}

\* Variant: a writer does not wait for readers.
NoWriter(t, x) == ReadOnly(held[x.lock])
Free(t, x) ==
  CASE kind = "rwlock" -> RwlockFree(x)
    [] kind = "srw"    -> SrwFree(x)
    [] kind = "mutex"  -> MutexFree(t, x)
    [] kind = "spin"   -> SpinFree(x)
    [] kind = "fcntl"  -> FcntlFree(t, x)

Acquire(t, x) ==
  LET l == x.lock IN
  /\ held' = [held EXCEPT ![l] = IF kind = "fcntl" THEN Others(t, l) \cup {Hold(t, x.mode)}
                                                   ELSE @ \cup {Hold(t, x.mode)}]
  /\ depth' = IF kind = "mutex" THEN [depth EXCEPT ![l] = @ + 1] ELSE depth

\* What is held of lock x.lock after t has unlocked x.  A mutex is free when it
\* was unlocked as often as locked.
MutexLeft(x) == IF depth[x.lock] > 1 THEN held[x.lock] ELSE {}
\* Whoever it is stores 0 into a spin lock.
SpinLeft == {}
\* F_UNLCK: a process gives up all it has of the file.
FcntlLeft(t, x) == Others(t, x.lock)
\* pthread_rwlock_unlock and ReleaseSRWLock, by the holder.
RwlockLeft(t, x) == held[x.lock] \ {Hold(t, x.mode)}

Release(t, x) ==
  /\ depth' = IF kind = "mutex" THEN [depth EXCEPT ![x.lock] = @ - 1] ELSE depth
  /\ held' = [held EXCEPT ![x.lock] =
                CASE kind = "mutex" -> MutexLeft(x)
                  [] kind = "spin"  -> SpinLeft
                  [] kind = "fcntl" -> FcntlLeft(t, x)
                  [] OTHER          -> RwlockLeft(t, x)]

\* A pthread call answers EDEADLK to the writer that asks again.
Edeadlk(t, x) == kind = "rwlock" /\ Hold(t, "w") \in held[x.lock]

\* sma_info ignores failures; it is modelled for the one in which it owns the
\* lock that it then unlocks.
Refused(t, x) ==
  \/ Edeadlk(t, x)
  \/ LockMayFail /\ kind \in {"rwlock", "mutex"} /\ op[t] # "smainfo"

-----------------------------------------------------------------------------
(* immutable_cache_lock_rlock, _wlock, RUNLOCK and WUNLOCK.                  *)

Begin(t, o) ==
  /\ at[t] = "idle"
  /\ op' = [op EXCEPT ![t] = o]
  /\ todo' = [todo EXCEPT ![t] = Plan(o)]
  /\ Goto(t, "next")
  /\ UNCHANGED <<kind, held, depth, got, blocked, left, faults>>

\* Variant: interruptions are not blocked.
BlockNothing(t) ==
  /\ at[t] = "next" /\ todo[t] # <<>>
  /\ Goto(t, "lock")
  /\ UNCHANGED <<kind, held, depth, op, todo, got, blocked, left, faults>>

Block(t) ==
  /\ at[t] = "next" /\ todo[t] # <<>>
  /\ blocked' = [blocked EXCEPT ![t] = @ + 1]
  /\ Goto(t, "lock")
  /\ UNCHANGED <<kind, held, depth, op, todo, got, left, faults>>

\* The call has returned 1, and the caller takes it for hold x.
Taken(t, x) ==
  /\ got' = [got EXCEPT ![t] = Append(@, x)]
  /\ todo' = [todo EXCEPT ![t] = Tail(@)]
  /\ Goto(t, "next")
  /\ UNCHANGED <<kind, op, blocked, left, faults>>

Grant(t) ==
  /\ at[t] = "lock"
  /\ ~Edeadlk(t, Head(todo[t]))
  /\ Free(t, Head(todo[t]))
  /\ Acquire(t, Head(todo[t]))
  /\ Taken(t, Head(todo[t]))

\* The error of immutable_cache_fcntl_call is not looked at: the caller goes on
\* without the lock.
FcntlFails(t) ==
  /\ at[t] = "lock" /\ kind = "fcntl" /\ FcntlMayFail
  /\ Taken(t, [Head(todo[t]) EXCEPT !.mode = "none"])
  /\ UNCHANGED <<held, depth>>

\* Interruptions are unblocked; the caller releases what it has, except
\* sma_info, which goes on.
Fail(t) ==
  /\ at[t] = "lock"
  /\ Refused(t, Head(todo[t]))
  /\ blocked' = [blocked EXCEPT ![t] = @ - 1]
  /\ got' = IF op[t] = "smainfo" THEN [got EXCEPT ![t] = todo[t]] ELSE got
  /\ todo' = [todo EXCEPT ![t] = <<>>]
  /\ Goto(t, "release")
  /\ UNCHANGED <<kind, held, depth, op, left, faults>>

\* The work under the locks is done.
Work(t) ==
  /\ at[t] = "next" /\ todo[t] = <<>>
  /\ Goto(t, "release")
  /\ UNCHANGED <<kind, held, depth, op, todo, got, blocked, left, faults>>

\* Variant: only the lock that was taken last is released.
UnlockLast(t) ==
  /\ at[t] = "release" /\ got[t] # <<>>
  /\ Release(t, Last(got[t]))
  /\ got' = [got EXCEPT ![t] = <<>>]
  /\ Goto(t, "unblock")
  /\ UNCHANGED <<kind, op, todo, blocked, left, faults>>

Unlock(t) ==
  /\ at[t] = "release" /\ got[t] # <<>>
  /\ Release(t, Last(got[t]))
  /\ got' = [got EXCEPT ![t] = Front(@)]
  /\ Goto(t, "unblock")
  /\ UNCHANGED <<kind, op, todo, blocked, left, faults>>

Unblock(t) ==
  /\ at[t] = "unblock"
  /\ blocked' = [blocked EXCEPT ![t] = @ - 1]
  /\ Goto(t, "release")
  /\ UNCHANGED <<kind, held, depth, op, todo, got, left, faults>>

Return(t) ==
  /\ at[t] = "release" /\ got[t] = <<>>
  /\ op' = [op EXCEPT ![t] = None]
  /\ Goto(t, "idle")
  /\ UNCHANGED <<kind, held, depth, todo, got, blocked, left, faults>>

\* The one failure that is certain.
FailEdeadlk(t) == at[t] = "lock" /\ Edeadlk(t, Head(todo[t])) /\ Fail(t)

\* What a thread does if no call fails that need not.
Advance(t) ==
  \/ Block(t) \/ Grant(t) \/ FailEdeadlk(t)
  \/ Work(t) \/ Unlock(t) \/ Unblock(t) \/ Return(t)

Step(t) == Advance(t) \/ FcntlFails(t) \/ Fail(t)

-----------------------------------------------------------------------------
(* Faults.                                                                   *)

\* Threads T are out of their calls.  The next request starts with
\* interruptions unblocked.
Out(T) ==
  /\ op' = [t \in Thread |-> IF t \in T THEN None ELSE op[t]]
  /\ todo' = [t \in Thread |-> IF t \in T THEN <<>> ELSE todo[t]]
  /\ got' = [t \in Thread |-> IF t \in T THEN <<>> ELSE got[t]]
  /\ blocked' = [t \in Thread |-> IF t \in T THEN 0 ELSE blocked[t]]
  /\ faults < MaxFaults /\ faults' = faults + 1
  /\ UNCHANGED kind

\* A signal that PHP defers while interruptions are blocked ends the call.
Interrupt(t) ==
  /\ at[t] \notin {"idle", "dead"} /\ blocked[t] = 0
  /\ Out({t}) /\ Goto(t, "idle")
  /\ UNCHANGED <<held, depth, left>>

\* emalloc inside the locked loop of sma_info exceeds the memory limit.
Bailout(t) ==
  /\ at[t] = "next" /\ todo[t] = <<>> /\ op[t] = "smainfo"
  /\ Out({t}) /\ Goto(t, "idle")
  /\ left' = left \cup {t}
  /\ UNCHANGED <<held, depth>>

\* A process is killed with all its threads.  The kernel releases its file
\* locks; a lock in shared memory stays as it is.
Kill(t) ==
  LET T == IF Zts THEN Thread ELSE {t} IN
  /\ at[t] # "dead"
  /\ Out(T)
  /\ at' = [u \in Thread |-> IF u \in T THEN "dead" ELSE at[u]]
  /\ left' = left \cup T
  /\ held' = IF kind = "fcntl" THEN [l \in Lock |-> Others(t, l)] ELSE held
  /\ UNCHANGED depth

Next == \E t \in Thread :
  \/ \E o \in OpsOf[t] : Begin(t, o)
  \/ Step(t) \/ Interrupt(t) \/ Bailout(t) \/ Kill(t)

Spec == Init /\ [][Next]_vars

\* A thread inside a call keeps running: it is given a lock that stays free.
\* Nothing is assumed of locks that others take again and again (xchg and
\* pthread_mutex_lock promise no order), and no lock call has to fail.
FairSpec == Spec /\ \A t \in Thread : WF_vars(Advance(t))

-----------------------------------------------------------------------------
(* Properties.                                                               *)

Works(t, x) == x \in ToSet(got[t])

\* Who works under the locks, and how.
AbsWriter == [l \in Lock |-> IF \E t \in Thread : Works(t, Write(l))
                             THEN CHOOSE t \in Thread : Works(t, Write(l)) ELSE None]
AbsReaders == [l \in Lock |-> {t \in Thread : Works(t, Read(l))}]

Abstract == INSTANCE RWLock WITH writer <- AbsWriter, readers <- AbsReaders

\* In every build, threads work under the locks as the cache expects: a writer
\* alone, readers only with readers, whatever fails, bails out, is interrupted
\* or dies.  A thread whose file lock call failed works without the lock it asked
\* for, and does not stop the others from being right about theirs
\* (immutable_cache_lock_rlock, _wlock, _runlock, _wunlock).
ImplementsRWLock == Abstract!Spec

\* A thread outside a call holds no lock and has no interruptions blocked,
\* although lock calls fail half way and signals may throw it out of a call at
\* any instant; only a bailout of sma_info or its death leaves a lock behind
\* (HANDLE_BLOCK_INTERRUPTIONS in immutable_cache_lock_wlock, WUNLOCK).
IdleHoldsNothing ==
  \A t \in Thread \ left : at[t] = "idle" =>
    /\ \A l \in Lock : \A h \in held[l] : h.by # t
    /\ blocked[t] = 0

Left == \E l \in Lock : \E h \in held[l] : h.by \in left

Begins(t) == at[t] = "idle" /\ at'[t] = "next"

\* Once no more calls begin, every call ends, in every build and whatever has
\* failed or was interrupted before, unless somebody has left a lock behind:
\* nobody waits for a lock that is held by a thread that waits, or that was
\* forgotten (immutable_cache_lock_rlock, _wlock, WUNLOCK, RUNLOCK).
Drains ==
  <>[][\A t \in Thread : ~Begins(t)]_vars =>
    \A t \in Thread : at[t] \notin {"idle", "dead"} ~> (at[t] \in {"idle", "dead"} \/ Left)

\* Even a lock that is given to whoever finds it free again and again is given
\* to every writer some time, which overlapping readers refute.
WritersServed ==
  (\A t \in Thread : SF_vars(Grant(t))) =>
    \A t \in Thread : at[t] = "lock" ~> (at[t] # "lock" \/ Left)

\* A thread that goes on after a lock call has the lock, which file locks refute.
NeverUnlocked == \A t \in Thread, l \in Lock : ~Works(t, [lock |-> l, mode |-> "none"])
=============================================================================
