------------------------------- MODULE RWLock -------------------------------
(* What the cache expects of its locks: a writer is alone, readers may share, *)
(* and a lock is taken and released in one step.  Module Cache is written     *)
(* with these locks; module Locks shows that those of immutable_cache_lock.c  *)
(* implement them.                                                            *)
CONSTANTS Thread, Lock, None

VARIABLES
  writer,          \* writer[l]: the thread that writes under l, or None
  readers          \* readers[l]: the threads that read under l

vars == <<writer, readers>>

Init ==
  /\ writer = [l \in Lock |-> None]
  /\ readers = [l \in Lock |-> {}]

RLock(t, l) ==
  /\ writer[l] = None
  /\ readers' = [readers EXCEPT ![l] = @ \cup {t}]
  /\ UNCHANGED writer

WLock(t, l) ==
  /\ writer[l] = None /\ readers[l] = {}
  /\ writer' = [writer EXCEPT ![l] = t]
  /\ UNCHANGED readers

RUnlock(t, l) ==
  /\ t \in readers[l]
  /\ readers' = [readers EXCEPT ![l] = @ \ {t}]
  /\ UNCHANGED writer

WUnlock(t, l) ==
  /\ writer[l] = t
  /\ writer' = [writer EXCEPT ![l] = None]
  /\ UNCHANGED readers

\* Threads that die or are thrown out of their calls work under no lock.
Cease(T) ==
  /\ writer' = [l \in Lock |-> IF writer[l] \in T THEN None ELSE writer[l]]
  /\ readers' = [l \in Lock |-> readers[l] \ T]

Next ==
  \/ \E t \in Thread, l \in Lock : RLock(t, l) \/ WLock(t, l) \/ RUnlock(t, l) \/ WUnlock(t, l)
  \/ \E T \in SUBSET Thread : Cease(T)

Spec == Init /\ [][Next]_vars
=============================================================================
