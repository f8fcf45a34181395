----------------------------- MODULE CacheProofs -----------------------------
(* Proofs about Cache, for every value of its constants.  IndInv is           *)
(* inductive: one lemma per conjunct, with one step per action.               *)
EXTENDS Cache, FiniteSetTheorems, TLAPS

\* Slots and locks of keys are in range (hash % nslots, hash & (count - 1)).
LEMMA HashRange == \A k \in Key : SlotOf(k) \in Slot /\ LockOf(k) \in Lock
  BY CacheAssumption DEF SlotOf, LockOf, Slot, Lock

\* The entries of the table are those of its chains.
LEMMA LinkedFrame == ASSUME UNCHANGED chain PROVE Linked' = Linked
  BY DEF Linked

\* Linking at the tail adds one entry and moves none.
LEMMA LinkedGrows ==
  ASSUME TypeOK, NEW s \in Slot, NEW c \in Cell, LinkAtTail(s, c)
  PROVE /\ Linked' = Linked \cup {c}
        /\ \A t \in Slot : t # s => chain'[t] = chain[t]
        /\ Len(chain'[s]) = Len(chain[s]) + 1
        /\ \A i \in 1 .. Len(chain[s]) : chain'[s][i] = chain[s][i]
        /\ chain'[s][Len(chain[s]) + 1] = c
<1>1. chain \in [Slot -> Seq(Cell)]
  BY DEF TypeOK
<1>2. chain' = [chain EXCEPT ![s] = Append(@, c)]
  BY DEF LinkAtTail
<1>3. chain'[s] = Append(chain[s], c) /\ \A t \in Slot : t # s => chain'[t] = chain[t]
  BY <1>1, <1>2
<1>4. /\ Len(chain'[s]) = Len(chain[s]) + 1
      /\ \A i \in 1 .. Len(chain[s]) : chain'[s][i] = chain[s][i]
      /\ chain'[s][Len(chain[s]) + 1] = c
  BY <1>1, <1>3
<1>5. \A t \in Slot : DOMAIN chain[t] = 1 .. Len(chain[t]) /\ DOMAIN chain'[t] = 1 .. Len(chain'[t]) /\ Len(chain[t]) \in Nat
  BY <1>1, <1>3
<1>6. Linked' \subseteq Linked \cup {c}
  <2> SUFFICES ASSUME NEW d \in Cell, NEW t \in Slot, NEW i \in DOMAIN chain'[t], chain'[t][i] = d
               PROVE d \in Linked \cup {c}
    BY DEF Linked
  <2>1. CASE t = s /\ i = Len(chain[s]) + 1
    BY <2>1, <1>4
  <2>2. CASE ~(t = s /\ i = Len(chain[s]) + 1)
    <3>1. i \in DOMAIN chain[t] /\ chain[t][i] = d
      BY SMTT(20), <2>2, <1>3, <1>4, <1>5
    <3> QED
      BY <3>1 DEF Linked
  <2> QED
    BY <2>1, <2>2
<1>7. Linked \subseteq Linked'
  <2> SUFFICES ASSUME NEW d \in Cell, NEW t \in Slot, NEW i \in DOMAIN chain[t], chain[t][i] = d
               PROVE \E u \in Slot : \E j \in DOMAIN chain'[u] : chain'[u][j] = d
    BY DEF Linked
  <2>1. i \in DOMAIN chain'[t] /\ chain'[t][i] = d
    BY <1>3, <1>4, <1>5
  <2> QED
    BY <2>1
<1>8. c \in Linked'
  <2>1. Len(chain[s]) + 1 \in DOMAIN chain'[s]
    BY <1>4, <1>5
  <2> QED
    BY <2>1, <1>4 DEF Linked
<1> QED
  BY <1>3, <1>4, <1>6, <1>7, <1>8

\* Every step keeps the types.
LEMMA TypeStep ==
  ASSUME TypeOK, CallShape, BlockOwned, [Next]_vars PROVE TypeOK'
<1>a. ASSUME NEW p \in Proc, pc[p] \in StorePcs \cup {"f_entry", "f_unpersist"}
      PROVE ent[p] \in Cell
  BY <1>a DEF TypeOK, CallShape, BlockOwned
<1>b. ASSUME NEW p \in Proc, pc[p] = "s_insert" PROVE ent[p] \in Cell
  BY <1>a, <1>b DEF StorePcs
<1>c. ASSUME NEW p \in Proc, pc[p] = "f_walk"
      PROVE Searched(p) \in Seq(Cell)
  <2>1. SlotOf(call[p].key) \in Slot
    BY <1>c, HashRange DEF CallShape, KeyPcs
  <2> QED
    BY <2>1 DEF Searched, TypeOK
<1> USE DEF Goto, Answer, locks, shared, local, bounds, Pcs, StorePcs, FoundPcs
<1>1. ASSUME NEW p \in Proc, Begin(p) PROVE TypeOK'
  <2>1. todo' \in [Proc -> 0 .. MaxCalls]
    <3>1. todo \in [Proc -> 0 .. MaxCalls] /\ todo[p] > 0 /\ todo' = [todo EXCEPT ![p] = @ - 1]
      BY <1>1 DEF Begin, TypeOK
    <3>2. todo[p] - 1 \in 0 .. MaxCalls
      BY <3>1, CacheAssumption
    <3> QED
      BY <3>1, <3>2
  <2>2. ASSUME NEW k \in Key, NEW v \in Val, NEW r \in Reusable(p, v), "add" \in Ops, CallAdd(p, k, v, r)
        PROVE TypeOK'
    BY <1>1, <2>1, <2>2 DEF Begin, CallAdd, Reusable, TypeOK
  <2>3. ASSUME NEW op \in Ops, NEW k \in Key, CallRead(p, op, k) PROVE TypeOK'
    BY <1>1, <2>1, <2>3 DEF Begin, CallRead, TypeOK
  <2>4. CASE "info" \in Ops /\ CallInfo(p)
    BY <1>1, <2>1, <2>4 DEF Begin, CallInfo, NoCall, TypeOK
  <2>5. CASE "smainfo" \in Ops /\ CallSmaInfo(p)
    BY <1>1, <2>1, <2>5 DEF Begin, CallSmaInfo, NoCall, TypeOK
  <2> QED
    BY <1>1, <2>2, <2>3, <2>4, <2>5 DEF Begin
<1>2. ASSUME NEW p \in Proc, Return(p) PROVE TypeOK'
  BY <1>2 DEF Return, TypeOK, NoCall
<1>3. ASSUME NEW p \in Proc, EndRequest(p) PROVE TypeOK'
  BY <1>3 DEF EndRequest, TypeOK
<1>4. ASSUME NEW p \in Proc, PersistCalc(p) PROVE TypeOK'
  <2>1. CASE Goto(p, "s_malloc") /\ UNCHANGED res
    BY <1>4, <2>1 DEF PersistCalc, TypeOK
  <2>2. CASE Goto(p, "ret") /\ Answer(p, FALSE)
    BY <1>4, <2>2 DEF PersistCalc, TypeOK
  <2> QED
    BY <1>4, <2>1, <2>2 DEF PersistCalc
<1>5. ASSUME NEW p \in Proc, MallocLock(p) PROVE TypeOK'
  BY <1>5 DEF MallocLock, TypeOK, SMA_LOCK, SetWritable
<1>6. ASSUME NEW p \in Proc, MallocLockFails(p) PROVE TypeOK'
  BY <1>6 DEF MallocLockFails, TypeOK
<1>7. ASSUME NEW p \in Proc, MallocAlloc(p) PROVE TypeOK'
  <2>1. CASE NoMemory(p)
    BY <1>7, <2>1 DEF MallocAlloc, NoMemory, SMA_UNLOCK, SetWritable, TypeOK
  <2>2. ASSUME NEW c \in Cell \ heap, heap' = heap \cup {c}, ent' = [ent EXCEPT ![p] = c], Goto(p, "s_unprot"), UNCHANGED res
        PROVE TypeOK'
    BY <1>7, <2>2 DEF MallocAlloc, SMA_UNLOCK, SetWritable, TypeOK
  <2> QED
    BY <1>7, <2>1, <2>2 DEF MallocAlloc
<1>8. ASSUME NEW p \in Proc, PersistUnprotect(p) PROVE TypeOK'
  BY <1>8 DEF PersistUnprotect, TypeOK, SetWritable
<1>9. ASSUME NEW p \in Proc, PersistCopy(p) PROVE TypeOK'
  BY ZenonT(40), <1>9, <1>a DEF PersistCopy, TypeOK, SetWritable, NewEntry, Entries
<1>10. ASSUME NEW p \in Proc, WLockSma(p) PROVE TypeOK'
  BY <1>10 DEF WLockSma, TypeOK, SMA_LOCK, SetWritable
<1>11. ASSUME NEW p \in Proc, WLockSmaFails(p) PROVE TypeOK'
  BY <1>11 DEF WLockSmaFails, TypeOK
<1>12. ASSUME NEW p \in Proc, WLockFine(p) PROVE TypeOK'
  BY <1>12 DEF WLockFine, TypeOK, TakeFineLock
<1>13. ASSUME NEW p \in Proc, WLockFineFails(p) PROVE TypeOK'
  BY <1>13 DEF WLockFineFails, TypeOK, SMA_UNLOCK, SetWritable
<1>14. ASSUME NEW p \in Proc, InsertExclusive(p) PROVE TypeOK'
  <2>1. CASE UNCHANGED chain /\ Answer(p, FALSE) /\ Goto(p, "s_wunlock")
    BY <1>14, <2>1 DEF InsertExclusive, TypeOK
  <2>2. CASE LinkAtTail(SlotOf(call[p].key), ent[p]) /\ Answer(p, TRUE) /\ Goto(p, "s_count")
    <3>1. ent[p] \in Cell
      BY <1>14, <1>b DEF InsertExclusive
    <3>2. chain' \in [Slot -> Seq(Cell)]
      <4>1. SlotOf(call[p].key) \in Slot
        BY <1>14, HashRange DEF InsertExclusive, CallShape, KeyPcs
      <4>2. Append(chain[SlotOf(call[p].key)], ent[p]) \in Seq(Cell)
        BY <3>1, <4>1 DEF TypeOK
      <4> QED
        BY <2>2, <4>1, <4>2 DEF LinkAtTail, TypeOK
    <3> QED
      BY <1>14, <2>2, <3>2 DEF InsertExclusive, TypeOK
  <2> QED
    BY <1>14, <2>1, <2>2 DEF InsertExclusive
<1>15. ASSUME NEW p \in Proc, InsertCount(p) PROVE TypeOK'
  <2>1. hdr \in [Counters -> Nat] 
    BY DEF TypeOK
  <2>2. hdr["nentries"] + 1 \in Nat /\ hdr["ninserts"] + 1 \in Nat
    BY <2>1 DEF Counters
  <2>3. hdr' \in [Counters -> Nat]
    BY <1>15, <2>1, <2>2 DEF InsertCount
  <2> QED
    BY <1>15, <2>3 DEF InsertCount, TypeOK
<1>16. ASSUME NEW p \in Proc, WUnlockFine(p) PROVE TypeOK'
  BY <1>16 DEF WUnlockFine, TypeOK
<1>17. ASSUME NEW p \in Proc, WUnlockSma(p) PROVE TypeOK'
  BY <1>17 DEF WUnlockSma, TypeOK, SMA_UNLOCK, SetWritable, FreeIfRefused
<1>18. ASSUME NEW p \in Proc, FreeLock(p) PROVE TypeOK'
  BY <1>18 DEF FreeLock, TypeOK, SMA_LOCK, SetWritable
<1>19. ASSUME NEW p \in Proc, FreeLockFails(p) PROVE TypeOK'
  BY <1>19 DEF FreeLockFails, TypeOK
<1>20. ASSUME NEW p \in Proc, FreeDealloc(p) PROVE TypeOK'
  BY <1>20 DEF FreeDealloc, TypeOK, SMA_UNLOCK, SetWritable
<1>21. ASSUME NEW p \in Proc, RLock(p) PROVE TypeOK'
  BY <1>21 DEF RLock, TypeOK
<1>22. ASSUME NEW p \in Proc, RLockFails(p) PROVE TypeOK'
  BY <1>22 DEF RLockFails, TypeOK
<1>23. ASSUME NEW p \in Proc, Walk(p) PROVE TypeOK'
  <2> DEFINE c == Searched(p)[pos[p] + 1]
  <2>1. CASE Goto(p, AfterWalk(p)) /\ UNCHANGED <<ent, pos>>
    BY <1>23, <2>1 DEF Walk, AfterWalk, TypeOK
  <2>2. CASE pos[p] < Len(Searched(p)) /\ ent' = [ent EXCEPT ![p] = c] /\ Goto(p, AfterWalk(p)) /\ UNCHANGED pos
    <3>1. c \in Cell
      BY <1>23, <1>c, <2>2 DEF Walk, TypeOK
    <3> HIDE DEF c
    <3> QED
      BY <1>23, <2>2, <3>1 DEF Walk, AfterWalk, TypeOK
  <2>3. CASE pos' = [pos EXCEPT ![p] = NextAfter(p)] /\ UNCHANGED <<pc, ent>>
    BY <1>23, <2>3 DEF Walk, NextAfter, TypeOK
  <2> QED
    BY <1>23, <2>1, <2>2, <2>3 DEF Walk
<1>24. ASSUME NEW p \in Proc, Count(p) PROVE TypeOK'
  <2>1. CounterOf(p) \in Counters /\ AfterCount(p) \in Pcs
    BY DEF CounterOf, Counters, AfterCount
  <2>2. hdr \in [Counters -> Nat] 
    BY DEF TypeOK
  <2>3. CASE hdr' = [hdr EXCEPT ![CounterOf(p)] = @ + 1] /\ UNCHANGED reg /\ Goto(p, AfterCount(p))
    <3>1. hdr' \in [Counters -> Nat]
      BY <2>1, <2>2, <2>3
    <3> QED
      BY <1>24, <2>1, <2>3, <3>1 DEF Count, TypeOK
  <2>4. CASE reg' = [reg EXCEPT ![p] = hdr[CounterOf(p)]] /\ UNCHANGED hdr /\ Goto(p, "f_store")
    BY <1>24, <2>1, <2>2, <2>4 DEF Count, TypeOK
  <2> QED
    BY <1>24, <2>3, <2>4 DEF Count
<1>25. ASSUME NEW p \in Proc, CountStore(p) PROVE TypeOK'
  <2>1. CounterOf(p) \in Counters /\ AfterCount(p) \in Pcs
    BY DEF CounterOf, Counters, AfterCount
  <2>2. hdr' \in [Counters -> Nat]
    BY <1>25, <2>1 DEF CountStore, TypeOK
  <2> QED
    BY <1>25, <2>1, <2>2 DEF CountStore, TypeOK
<1>26. ASSUME NEW p \in Proc, CountEntry(p) PROVE TypeOK'
  <2>1. mem \in [Cell -> Entries] /\ ent[p] \in Cell
    BY <1>26, <1>a DEF TypeOK, CountEntry
  <2>2. [mem[ent[p]] EXCEPT !.nhits = @ + 1] \in Entries
    BY <2>1 DEF Entries
  <2>3. mem' = [mem EXCEPT ![ent[p]] = [mem[ent[p]] EXCEPT !.nhits = @ + 1]]
    BY <1>26, <2>1 DEF CountEntry
  <2>4. mem' \in [Cell -> Entries]
    BY <2>1, <2>2, <2>3
  <2> QED
    BY <1>26, <2>4 DEF CountEntry, TypeOK
<1>27. ASSUME NEW p \in Proc, RUnlock(p) PROVE TypeOK'
  <2>1. CASE Goto(p, "f_unpersist") /\ UNCHANGED res
    BY <1>27, <2>1 DEF RUnlock, ReleaseRead, TypeOK
  <2>2. CASE Answer(p, None) /\ Goto(p, "ret")
    BY <1>27, <2>2 DEF RUnlock, ReleaseRead, TypeOK
  <2>3. CASE Answer(p, ent[p] # None) /\ Goto(p, "ret")
    BY <1>27, <2>3 DEF RUnlock, ReleaseRead, TypeOK
  <2> QED
    BY <1>27, <2>1, <2>2, <2>3 DEF RUnlock
<1>28. ASSUME NEW p \in Proc, Unpersist(p) PROVE TypeOK'
  BY <1>28, <1>a DEF Unpersist, PointedTo, TypeOK, Entries
<1>29. ASSUME NEW p \in Proc, RLockGlobal(p) PROVE TypeOK'
  BY <1>29 DEF RLockGlobal, TypeOK, TakeSmaRead
<1>30. ASSUME NEW p \in Proc, RLockGlobalFails(p) PROVE TypeOK'
  BY <1>30 DEF RLockGlobalFails, TypeOK
<1>31. ASSUME NEW p \in Proc, InfoCount(p) PROVE TypeOK'
  BY <1>31 DEF InfoCount, TypeOK, Counters
<1>32. ASSUME NEW p \in Proc, InfoList(p) PROVE TypeOK'
  BY <1>32 DEF InfoList, TypeOK, Linked
<1>33. ASSUME NEW p \in Proc, SmaInfoLock(p) PROVE TypeOK'
  BY <1>33 DEF SmaInfoLock, TypeOK, SMA_LOCK, SetWritable
<1>34. ASSUME NEW p \in Proc, SmaInfoLockFails(p) PROVE TypeOK'
  BY <1>34 DEF SmaInfoLockFails, TypeOK
<1>35. ASSUME NEW p \in Proc, SmaInfoUnlock(p) PROVE TypeOK'
  BY <1>35 DEF SmaInfoUnlock, TypeOK, SMA_UNLOCK, SetWritable
<1>36. ASSUME NEW p \in Proc, SmaInfoBailout(p) PROVE TypeOK'
  BY <1>36 DEF SmaInfoBailout, TypeOK
<1>37. ASSUME NEW p \in Proc, Crash(p) PROVE TypeOK'
  <2>1. /\ smaW' \in Proc \cup {None, Ghost} /\ smaR' \subseteq Proc \cup {Ghost}
        /\ fineW' \in [Lock -> Proc \cup {None, Ghost}]
        /\ fineR' \in [Lock -> SUBSET (Proc \cup {Ghost})]
    BY <1>37 DEF Crash, TypeOK
  <2>2. writable' \in [Proc -> BOOLEAN]
    BY <1>37 DEF Crash, SetWritable, TypeOK
  <2>3. crashes' \in 0 .. MaxCrashes
    BY <1>37, CacheAssumption DEF Crash, TypeOK
  <2> QED
    BY <1>37, <2>1, <2>2, <2>3 DEF Crash, NoCall, TypeOK
<1>38. ASSUME NEW p \in Proc, UnpersistFails(p) PROVE TypeOK'
  BY <1>38, <1>a DEF UnpersistFails, TypeOK, Entries
<1>90. CASE UNCHANGED vars
  BY <1>90 DEF vars, TypeOK
<1> QED
  BY <1>1, <1>2, <1>3, <1>4, <1>5, <1>6, <1>7, <1>8, <1>9, <1>10, <1>11, <1>12, <1>13,
      <1>14, <1>15, <1>16, <1>17, <1>18, <1>19, <1>20, <1>21, <1>22, <1>23, <1>24, <1>25,
      <1>26, <1>27, <1>28, <1>29, <1>30, <1>31, <1>32, <1>33, <1>34, <1>35, <1>36, <1>37,
      <1>38, <1>90 DEF Next, Step, Store, Read, Info, Done

\* A worker that is inside the SMA lock is its owner.
LEMMA SmaOwnedStep ==
  ASSUME TypeOK, SmaOwned, [Next]_vars PROVE SmaOwned'
<1>a. pc \in [Proc -> Pcs]
  BY DEF TypeOK
<1>b. None \notin Proc /\ Ghost \notin Proc
  BY CacheAssumption
<1> USE <1>a, <1>b DEF SmaOwned, Goto, SmaPcs, locks, shared, local, bounds
<1>1. ASSUME NEW p \in Proc, Begin(p) PROVE SmaOwned'
  BY <1>1 DEF Begin, CallAdd, CallRead, CallInfo, CallSmaInfo, NoCall
<1>2. ASSUME NEW p \in Proc, Return(p) PROVE SmaOwned'
  BY <1>2 DEF Return, NoCall
<1>3. ASSUME NEW p \in Proc, EndRequest(p) PROVE SmaOwned'
  BY <1>3 DEF EndRequest
<1>4. ASSUME NEW p \in Proc, PersistCalc(p) PROVE SmaOwned'
  BY <1>4 DEF PersistCalc
<1>5. ASSUME NEW p \in Proc, MallocLock(p) PROVE SmaOwned'
  BY <1>5 DEF MallocLock, SMA_LOCK, FreeForWriter, SmaAgain
<1>6. ASSUME NEW p \in Proc, MallocLockFails(p) PROVE SmaOwned'
  BY <1>6 DEF MallocLockFails
<1>7. ASSUME NEW p \in Proc, MallocAlloc(p) PROVE SmaOwned'
  BY <1>7 DEF MallocAlloc, SMA_UNLOCK, NoMemory
<1>8. ASSUME NEW p \in Proc, PersistUnprotect(p) PROVE SmaOwned'
  BY <1>8 DEF PersistUnprotect
<1>9. ASSUME NEW p \in Proc, PersistCopy(p) PROVE SmaOwned'
  BY <1>9 DEF PersistCopy, NewEntry
<1>10. ASSUME NEW p \in Proc, WLockSma(p) PROVE SmaOwned'
  BY <1>10 DEF WLockSma, SMA_LOCK, FreeForWriter, SmaAgain
<1>11. ASSUME NEW p \in Proc, WLockSmaFails(p) PROVE SmaOwned'
  BY <1>11 DEF WLockSmaFails
<1>12. ASSUME NEW p \in Proc, WLockFine(p) PROVE SmaOwned'
  BY <1>12 DEF WLockFine, TakeFineLock, FreeForWriter
<1>13. ASSUME NEW p \in Proc, WLockFineFails(p) PROVE SmaOwned'
  BY <1>13 DEF WLockFineFails, SMA_UNLOCK
<1>14. ASSUME NEW p \in Proc, InsertExclusive(p) PROVE SmaOwned'
  BY <1>14 DEF InsertExclusive, LinkAtTail
<1>15. ASSUME NEW p \in Proc, InsertCount(p) PROVE SmaOwned'
  BY <1>15 DEF InsertCount
<1>16. ASSUME NEW p \in Proc, WUnlockFine(p) PROVE SmaOwned'
  BY <1>16 DEF WUnlockFine
<1>17. ASSUME NEW p \in Proc, WUnlockSma(p) PROVE SmaOwned'
  BY <1>17 DEF WUnlockSma, SMA_UNLOCK, FreeIfRefused
<1>18. ASSUME NEW p \in Proc, FreeLock(p) PROVE SmaOwned'
  BY <1>18 DEF FreeLock, SMA_LOCK, FreeForWriter, SmaAgain
<1>19. ASSUME NEW p \in Proc, FreeLockFails(p) PROVE SmaOwned'
  BY <1>19 DEF FreeLockFails
<1>20. ASSUME NEW p \in Proc, FreeDealloc(p) PROVE SmaOwned'
  BY <1>20 DEF FreeDealloc, SMA_UNLOCK
<1>21. ASSUME NEW p \in Proc, RLock(p) PROVE SmaOwned'
  BY <1>21 DEF RLock, FreeForReader
<1>22. ASSUME NEW p \in Proc, RLockFails(p) PROVE SmaOwned'
  BY <1>22 DEF RLockFails
<1>23. ASSUME NEW p \in Proc, Walk(p) PROVE SmaOwned'
  BY <1>23 DEF Walk, AfterWalk, NextAfter, Searched
<1>24. ASSUME NEW p \in Proc, Count(p) PROVE SmaOwned'
  BY <1>24 DEF Count, AfterCount
<1>25. ASSUME NEW p \in Proc, CountStore(p) PROVE SmaOwned'
  BY <1>25 DEF CountStore, AfterCount
<1>26. ASSUME NEW p \in Proc, CountEntry(p) PROVE SmaOwned'
  BY <1>26 DEF CountEntry
<1>27. ASSUME NEW p \in Proc, RUnlock(p) PROVE SmaOwned'
  BY <1>27 DEF RUnlock, ReleaseRead
<1>28. ASSUME NEW p \in Proc, Unpersist(p) PROVE SmaOwned'
  BY <1>28 DEF Unpersist
<1>29. ASSUME NEW p \in Proc, RLockGlobal(p) PROVE SmaOwned'
  BY <1>29 DEF RLockGlobal, TakeSmaRead
<1>30. ASSUME NEW p \in Proc, RLockGlobalFails(p) PROVE SmaOwned'
  BY <1>30 DEF RLockGlobalFails
<1>31. ASSUME NEW p \in Proc, InfoCount(p) PROVE SmaOwned'
  BY <1>31 DEF InfoCount
<1>32. ASSUME NEW p \in Proc, InfoList(p) PROVE SmaOwned'
  BY <1>32 DEF InfoList
<1>33. ASSUME NEW p \in Proc, SmaInfoLock(p) PROVE SmaOwned'
  BY <1>33 DEF SmaInfoLock, SMA_LOCK, FreeForWriter, SmaAgain
<1>34. ASSUME NEW p \in Proc, SmaInfoLockFails(p) PROVE SmaOwned'
  BY <1>34 DEF SmaInfoLockFails, Deadlocks
<1>35. ASSUME NEW p \in Proc, SmaInfoUnlock(p) PROVE SmaOwned'
  BY <1>35 DEF SmaInfoUnlock, SMA_UNLOCK
<1>36. ASSUME NEW p \in Proc, SmaInfoBailout(p) PROVE SmaOwned'
  BY <1>36 DEF SmaInfoBailout
<1>37. ASSUME NEW p \in Proc, Crash(p) PROVE SmaOwned'
  BY <1>37 DEF Crash, NoCall
<1>38. ASSUME NEW p \in Proc, UnpersistFails(p) PROVE SmaOwned'
  BY <1>38 DEF UnpersistFails
<1>90. CASE UNCHANGED vars
  BY <1>90 DEF vars
<1> QED
  BY <1>1, <1>2, <1>3, <1>4, <1>5, <1>6, <1>7, <1>8, <1>9, <1>10, <1>11, <1>12, <1>13,
      <1>14, <1>15, <1>16, <1>17, <1>18, <1>19, <1>20, <1>21, <1>22, <1>23, <1>24, <1>25,
      <1>26, <1>27, <1>28, <1>29, <1>30, <1>31, <1>32, <1>33, <1>34, <1>35, <1>36, <1>37,
      <1>38, <1>90 DEF Next, Step, Store, Read, Info, Done

\* What a worker knows of its call at each point of it.
LEMMA CallShapeStep ==
  ASSUME TypeOK, CallShape, [Next]_vars PROVE CallShape'
<1>a. pc \in [Proc -> Pcs]
  BY DEF TypeOK
<1>c. call \in [Proc -> [op : Ops \cup {"none"}, key : Key \cup {None}, val : Val \cup {None}, refs : SUBSET Cell]]
  BY DEF TypeOK
<1>d. ent \in [Proc -> Cell \cup {None}] /\ pos \in [Proc -> Nat] /\ DOMAIN res = Proc
  BY DEF TypeOK
<1>e. None \notin Key \cup Cell
  BY CacheAssumption
<1> USE <1>a, <1>c, <1>d, <1>e DEF CallShape, Goto, Answer, KeyPcs, StorePcs, FoundPcs,
    locks, shared, local, bounds
<1>1. ASSUME NEW p \in Proc, Begin(p) PROVE CallShape'
  BY <1>1 DEF Begin, CallAdd, CallRead, CallInfo, CallSmaInfo, NoCall
<1>2. ASSUME NEW p \in Proc, Return(p) PROVE CallShape'
  BY <1>2 DEF Return, NoCall
<1>3. ASSUME NEW p \in Proc, EndRequest(p) PROVE CallShape'
  BY <1>3 DEF EndRequest
<1>4. ASSUME NEW p \in Proc, PersistCalc(p) PROVE CallShape'
  BY <1>4 DEF PersistCalc
<1>5. ASSUME NEW p \in Proc, MallocLock(p) PROVE CallShape'
  BY <1>5 DEF MallocLock, SMA_LOCK, FreeForWriter, SmaAgain
<1>6. ASSUME NEW p \in Proc, MallocLockFails(p) PROVE CallShape'
  BY <1>6 DEF MallocLockFails
<1>7. ASSUME NEW p \in Proc, MallocAlloc(p) PROVE CallShape'
  BY <1>7 DEF MallocAlloc, SMA_UNLOCK, NoMemory
<1>8. ASSUME NEW p \in Proc, PersistUnprotect(p) PROVE CallShape'
  BY <1>8 DEF PersistUnprotect
<1>9. ASSUME NEW p \in Proc, PersistCopy(p) PROVE CallShape'
  BY <1>9 DEF PersistCopy, NewEntry
<1>10. ASSUME NEW p \in Proc, WLockSma(p) PROVE CallShape'
  BY <1>10 DEF WLockSma, SMA_LOCK, FreeForWriter, SmaAgain
<1>11. ASSUME NEW p \in Proc, WLockSmaFails(p) PROVE CallShape'
  BY <1>11 DEF WLockSmaFails
<1>12. ASSUME NEW p \in Proc, WLockFine(p) PROVE CallShape'
  BY <1>12 DEF WLockFine, TakeFineLock, FreeForWriter
<1>13. ASSUME NEW p \in Proc, WLockFineFails(p) PROVE CallShape'
  BY <1>13 DEF WLockFineFails, SMA_UNLOCK
<1>14. ASSUME NEW p \in Proc, InsertExclusive(p) PROVE CallShape'
  BY <1>14 DEF InsertExclusive, LinkAtTail
<1>15. ASSUME NEW p \in Proc, InsertCount(p) PROVE CallShape'
  BY <1>15 DEF InsertCount
<1>16. ASSUME NEW p \in Proc, WUnlockFine(p) PROVE CallShape'
  BY <1>16 DEF WUnlockFine
<1>17. ASSUME NEW p \in Proc, WUnlockSma(p) PROVE CallShape'
  BY <1>17 DEF WUnlockSma, SMA_UNLOCK, FreeIfRefused
<1>18. ASSUME NEW p \in Proc, FreeLock(p) PROVE CallShape'
  BY <1>18 DEF FreeLock, SMA_LOCK, FreeForWriter, SmaAgain
<1>19. ASSUME NEW p \in Proc, FreeLockFails(p) PROVE CallShape'
  BY <1>19 DEF FreeLockFails
<1>20. ASSUME NEW p \in Proc, FreeDealloc(p) PROVE CallShape'
  BY <1>20 DEF FreeDealloc, SMA_UNLOCK
<1>21. ASSUME NEW p \in Proc, RLock(p) PROVE CallShape'
  BY <1>21 DEF RLock, FreeForReader
<1>22. ASSUME NEW p \in Proc, RLockFails(p) PROVE CallShape'
  BY <1>22 DEF RLockFails
<1>23. ASSUME NEW p \in Proc, Walk(p) PROVE CallShape'
  BY <1>23 DEF Walk, AfterWalk, NextAfter, Searched
<1>24. ASSUME NEW p \in Proc, Count(p) PROVE CallShape'
  BY <1>24 DEF Count, AfterCount
<1>25. ASSUME NEW p \in Proc, CountStore(p) PROVE CallShape'
  BY <1>25 DEF CountStore, AfterCount
<1>26. ASSUME NEW p \in Proc, CountEntry(p) PROVE CallShape'
  BY <1>26 DEF CountEntry
<1>27. ASSUME NEW p \in Proc, RUnlock(p) PROVE CallShape'
  BY <1>27 DEF RUnlock, ReleaseRead
<1>28. ASSUME NEW p \in Proc, Unpersist(p) PROVE CallShape'
  BY <1>28 DEF Unpersist
<1>29. ASSUME NEW p \in Proc, RLockGlobal(p) PROVE CallShape'
  BY <1>29 DEF RLockGlobal, TakeSmaRead
<1>30. ASSUME NEW p \in Proc, RLockGlobalFails(p) PROVE CallShape'
  BY <1>30 DEF RLockGlobalFails
<1>31. ASSUME NEW p \in Proc, InfoCount(p) PROVE CallShape'
  BY <1>31 DEF InfoCount
<1>32. ASSUME NEW p \in Proc, InfoList(p) PROVE CallShape'
  BY <1>32 DEF InfoList
<1>33. ASSUME NEW p \in Proc, SmaInfoLock(p) PROVE CallShape'
  BY <1>33 DEF SmaInfoLock, SMA_LOCK, FreeForWriter, SmaAgain
<1>34. ASSUME NEW p \in Proc, SmaInfoLockFails(p) PROVE CallShape'
  BY <1>34 DEF SmaInfoLockFails
<1>35. ASSUME NEW p \in Proc, SmaInfoUnlock(p) PROVE CallShape'
  BY <1>35 DEF SmaInfoUnlock, SMA_UNLOCK
<1>36. ASSUME NEW p \in Proc, SmaInfoBailout(p) PROVE CallShape'
  BY <1>36 DEF SmaInfoBailout
<1>37. ASSUME NEW p \in Proc, Crash(p) PROVE CallShape'
  BY <1>37 DEF Crash, NoCall
<1>38. ASSUME NEW p \in Proc, UnpersistFails(p) PROVE CallShape'
  BY <1>38 DEF UnpersistFails
<1>90. CASE UNCHANGED vars
  BY <1>90 DEF vars
<1> QED
  BY <1>1, <1>2, <1>3, <1>4, <1>5, <1>6, <1>7, <1>8, <1>9, <1>10, <1>11, <1>12, <1>13,
      <1>14, <1>15, <1>16, <1>17, <1>18, <1>19, <1>20, <1>21, <1>22, <1>23, <1>24, <1>25,
      <1>26, <1>27, <1>28, <1>29, <1>30, <1>31, <1>32, <1>33, <1>34, <1>35, <1>36, <1>37,
      <1>38, <1>90 DEF Next, Step, Store, Read, Info, Done

\* The fine grained locks exclude writers and readers of one key.
LEMMA FineOwnedStep ==
  ASSUME TypeOK, CallShape, FineOwned, [Next]_vars PROVE FineOwned'
<1>a. pc \in [Proc -> Pcs]
  BY DEF TypeOK
<1>b. None \notin Proc /\ Ghost \notin Proc
  BY CacheAssumption
<1>c. fineW \in [Lock -> Proc \cup {None, Ghost}] /\ fineR \in [Lock -> SUBSET (Proc \cup {Ghost})]
  BY DEF TypeOK
<1>d. \A q \in Proc : pc[q] \in FinePcs \cup ReadPcs \cup {"s_fine", "f_rlock"} => LockOf(call[q].key) \in Lock
  BY HashRange DEF CallShape, KeyPcs, StorePcs, FoundPcs, FinePcs, ReadPcs
<1>e. \A q \in Proc : call[q] = call[q]
  OBVIOUS
<1>f. DOMAIN call = Proc
  BY DEF TypeOK
<1> USE <1>a, <1>b, <1>c, <1>d, <1>f DEF FineOwned, Goto, FinePcs, ReadPcs, locks, shared,
    local, bounds
<1>1. ASSUME NEW p \in Proc, Begin(p) PROVE FineOwned'
  BY <1>1 DEF Begin, CallAdd, CallRead, CallInfo, CallSmaInfo, NoCall
<1>2. ASSUME NEW p \in Proc, Return(p) PROVE FineOwned'
  BY <1>2 DEF Return, NoCall
<1>3. ASSUME NEW p \in Proc, EndRequest(p) PROVE FineOwned'
  BY <1>3 DEF EndRequest
<1>4. ASSUME NEW p \in Proc, PersistCalc(p) PROVE FineOwned'
  BY <1>4 DEF PersistCalc
<1>5. ASSUME NEW p \in Proc, MallocLock(p) PROVE FineOwned'
  BY <1>5 DEF MallocLock, SMA_LOCK, FreeForWriter, SmaAgain
<1>6. ASSUME NEW p \in Proc, MallocLockFails(p) PROVE FineOwned'
  BY <1>6 DEF MallocLockFails
<1>7. ASSUME NEW p \in Proc, MallocAlloc(p) PROVE FineOwned'
  BY ZenonT(40), <1>7 DEF MallocAlloc, SMA_UNLOCK, NoMemory
<1>8. ASSUME NEW p \in Proc, PersistUnprotect(p) PROVE FineOwned'
  BY <1>8 DEF PersistUnprotect
<1>9. ASSUME NEW p \in Proc, PersistCopy(p) PROVE FineOwned'
  BY <1>9 DEF PersistCopy, NewEntry
<1>10. ASSUME NEW p \in Proc, WLockSma(p) PROVE FineOwned'
  BY <1>10 DEF WLockSma, SMA_LOCK, FreeForWriter, SmaAgain
<1>11. ASSUME NEW p \in Proc, WLockSmaFails(p) PROVE FineOwned'
  BY <1>11 DEF WLockSmaFails
<1>12. ASSUME NEW p \in Proc, WLockFine(p) PROVE FineOwned'
  BY <1>12 DEF WLockFine, TakeFineLock, FreeForWriter
<1>13. ASSUME NEW p \in Proc, WLockFineFails(p) PROVE FineOwned'
  BY <1>13 DEF WLockFineFails, SMA_UNLOCK
<1>14. ASSUME NEW p \in Proc, InsertExclusive(p) PROVE FineOwned'
  BY <1>14 DEF InsertExclusive, LinkAtTail
<1>15. ASSUME NEW p \in Proc, InsertCount(p) PROVE FineOwned'
  BY <1>15 DEF InsertCount
<1>16. ASSUME NEW p \in Proc, WUnlockFine(p) PROVE FineOwned'
  BY <1>16 DEF WUnlockFine
<1>17. ASSUME NEW p \in Proc, WUnlockSma(p) PROVE FineOwned'
  BY <1>17 DEF WUnlockSma, SMA_UNLOCK, FreeIfRefused
<1>18. ASSUME NEW p \in Proc, FreeLock(p) PROVE FineOwned'
  BY <1>18 DEF FreeLock, SMA_LOCK, FreeForWriter, SmaAgain
<1>19. ASSUME NEW p \in Proc, FreeLockFails(p) PROVE FineOwned'
  BY <1>19 DEF FreeLockFails
<1>20. ASSUME NEW p \in Proc, FreeDealloc(p) PROVE FineOwned'
  BY <1>20 DEF FreeDealloc, SMA_UNLOCK
<1>21. ASSUME NEW p \in Proc, RLock(p) PROVE FineOwned'
  BY <1>21 DEF RLock, FreeForReader
<1>22. ASSUME NEW p \in Proc, RLockFails(p) PROVE FineOwned'
  BY <1>22 DEF RLockFails
<1>23. ASSUME NEW p \in Proc, Walk(p) PROVE FineOwned'
  BY <1>23 DEF Walk, AfterWalk, NextAfter, Searched
<1>24. ASSUME NEW p \in Proc, Count(p) PROVE FineOwned'
  BY <1>24 DEF Count, AfterCount
<1>25. ASSUME NEW p \in Proc, CountStore(p) PROVE FineOwned'
  BY <1>25 DEF CountStore, AfterCount
<1>26. ASSUME NEW p \in Proc, CountEntry(p) PROVE FineOwned'
  BY <1>26 DEF CountEntry
<1>27. ASSUME NEW p \in Proc, RUnlock(p) PROVE FineOwned'
  BY <1>27 DEF RUnlock, ReleaseRead
<1>28. ASSUME NEW p \in Proc, Unpersist(p) PROVE FineOwned'
  BY <1>28 DEF Unpersist
<1>29. ASSUME NEW p \in Proc, RLockGlobal(p) PROVE FineOwned'
  BY <1>29 DEF RLockGlobal, TakeSmaRead
<1>30. ASSUME NEW p \in Proc, RLockGlobalFails(p) PROVE FineOwned'
  BY <1>30 DEF RLockGlobalFails
<1>31. ASSUME NEW p \in Proc, InfoCount(p) PROVE FineOwned'
  BY <1>31 DEF InfoCount
<1>32. ASSUME NEW p \in Proc, InfoList(p) PROVE FineOwned'
  BY <1>32 DEF InfoList
<1>33. ASSUME NEW p \in Proc, SmaInfoLock(p) PROVE FineOwned'
  BY <1>33 DEF SmaInfoLock, SMA_LOCK, FreeForWriter, SmaAgain
<1>34. ASSUME NEW p \in Proc, SmaInfoLockFails(p) PROVE FineOwned'
  BY <1>34 DEF SmaInfoLockFails
<1>35. ASSUME NEW p \in Proc, SmaInfoUnlock(p) PROVE FineOwned'
  BY <1>35 DEF SmaInfoUnlock, SMA_UNLOCK
<1>36. ASSUME NEW p \in Proc, SmaInfoBailout(p) PROVE FineOwned'
  BY <1>36 DEF SmaInfoBailout
<1>37. ASSUME NEW p \in Proc, Crash(p) PROVE FineOwned'
  BY <1>37 DEF Crash, NoCall
<1>38. ASSUME NEW p \in Proc, UnpersistFails(p) PROVE FineOwned'
  BY <1>38 DEF UnpersistFails
<1>90. CASE UNCHANGED vars
  BY <1>90 DEF vars
<1> QED
  BY <1>1, <1>2, <1>3, <1>4, <1>5, <1>6, <1>7, <1>8, <1>9, <1>10, <1>11, <1>12, <1>13,
      <1>14, <1>15, <1>16, <1>17, <1>18, <1>19, <1>20, <1>21, <1>22, <1>23, <1>24, <1>25,
      <1>26, <1>27, <1>28, <1>29, <1>30, <1>31, <1>32, <1>33, <1>34, <1>35, <1>36, <1>37,
      <1>38, <1>90 DEF Next, Step, Store, Read, Info, Done

\* No two adds own one block.
LEMMA BlockOwnedStep ==
  ASSUME TypeOK, BlockOwned, [Next]_vars PROVE BlockOwned'
<1>a. pc \in [Proc -> Pcs]
  BY DEF TypeOK
<1>d. ent \in [Proc -> Cell \cup {None}]
  BY DEF TypeOK
<1> USE <1>a, <1>d DEF BlockOwned, Goto, StorePcs, locks, shared, local, bounds
<1>1. ASSUME NEW p \in Proc, Begin(p) PROVE BlockOwned'
  BY <1>1 DEF Begin, CallAdd, CallRead, CallInfo, CallSmaInfo, NoCall
<1>2. ASSUME NEW p \in Proc, Return(p) PROVE BlockOwned'
  BY <1>2 DEF Return, NoCall
<1>3. ASSUME NEW p \in Proc, EndRequest(p) PROVE BlockOwned'
  BY <1>3 DEF EndRequest
<1>4. ASSUME NEW p \in Proc, PersistCalc(p) PROVE BlockOwned'
  BY ZenonT(40), <1>4 DEF PersistCalc
<1>5. ASSUME NEW p \in Proc, MallocLock(p) PROVE BlockOwned'
  BY <1>5 DEF MallocLock, SMA_LOCK, FreeForWriter, SmaAgain
<1>6. ASSUME NEW p \in Proc, MallocLockFails(p) PROVE BlockOwned'
  BY <1>6 DEF MallocLockFails
<1>7. ASSUME NEW p \in Proc, MallocAlloc(p) PROVE BlockOwned'
  <2>1. CASE NoMemory(p)
    BY <1>7, <2>1 DEF MallocAlloc, NoMemory
  <2>2. ASSUME NEW c \in Cell \ heap, heap' = heap \cup {c},
               ent' = [ent EXCEPT ![p] = c], Goto(p, "s_unprot")
        PROVE BlockOwned'
    BY <1>7, <2>2 DEF MallocAlloc
  <2> QED
    BY <1>7, <2>1, <2>2 DEF MallocAlloc
<1>8. ASSUME NEW p \in Proc, PersistUnprotect(p) PROVE BlockOwned'
  BY <1>8 DEF PersistUnprotect
<1>9. ASSUME NEW p \in Proc, PersistCopy(p) PROVE BlockOwned'
  BY <1>9 DEF PersistCopy, NewEntry
<1>10. ASSUME NEW p \in Proc, WLockSma(p) PROVE BlockOwned'
  BY <1>10 DEF WLockSma, SMA_LOCK, FreeForWriter, SmaAgain
<1>11. ASSUME NEW p \in Proc, WLockSmaFails(p) PROVE BlockOwned'
  BY <1>11 DEF WLockSmaFails
<1>12. ASSUME NEW p \in Proc, WLockFine(p) PROVE BlockOwned'
  BY <1>12 DEF WLockFine, TakeFineLock, FreeForWriter
<1>13. ASSUME NEW p \in Proc, WLockFineFails(p) PROVE BlockOwned'
  BY <1>13 DEF WLockFineFails, SMA_UNLOCK
<1>14. ASSUME NEW p \in Proc, InsertExclusive(p) PROVE BlockOwned'
  BY ZenonT(40), <1>14 DEF InsertExclusive, LinkAtTail
<1>15. ASSUME NEW p \in Proc, InsertCount(p) PROVE BlockOwned'
  BY <1>15 DEF InsertCount
<1>16. ASSUME NEW p \in Proc, WUnlockFine(p) PROVE BlockOwned'
  BY <1>16 DEF WUnlockFine
<1>17. ASSUME NEW p \in Proc, WUnlockSma(p) PROVE BlockOwned'
  BY <1>17 DEF WUnlockSma, SMA_UNLOCK, FreeIfRefused
<1>18. ASSUME NEW p \in Proc, FreeLock(p) PROVE BlockOwned'
  BY <1>18 DEF FreeLock, SMA_LOCK, FreeForWriter, SmaAgain
<1>19. ASSUME NEW p \in Proc, FreeLockFails(p) PROVE BlockOwned'
  BY <1>19 DEF FreeLockFails
<1>20. ASSUME NEW p \in Proc, FreeDealloc(p) PROVE BlockOwned'
  BY <1>20 DEF FreeDealloc, SMA_UNLOCK
<1>21. ASSUME NEW p \in Proc, RLock(p) PROVE BlockOwned'
  BY <1>21 DEF RLock, FreeForReader
<1>22. ASSUME NEW p \in Proc, RLockFails(p) PROVE BlockOwned'
  BY <1>22 DEF RLockFails
<1>23. ASSUME NEW p \in Proc, Walk(p) PROVE BlockOwned'
  BY <1>23 DEF Walk, AfterWalk, NextAfter, Searched
<1>24. ASSUME NEW p \in Proc, Count(p) PROVE BlockOwned'
  BY <1>24 DEF Count, AfterCount
<1>25. ASSUME NEW p \in Proc, CountStore(p) PROVE BlockOwned'
  BY <1>25 DEF CountStore, AfterCount
<1>26. ASSUME NEW p \in Proc, CountEntry(p) PROVE BlockOwned'
  BY <1>26 DEF CountEntry
<1>27. ASSUME NEW p \in Proc, RUnlock(p) PROVE BlockOwned'
  BY <1>27 DEF RUnlock, ReleaseRead
<1>28. ASSUME NEW p \in Proc, Unpersist(p) PROVE BlockOwned'
  BY <1>28 DEF Unpersist
<1>29. ASSUME NEW p \in Proc, RLockGlobal(p) PROVE BlockOwned'
  BY <1>29 DEF RLockGlobal, TakeSmaRead
<1>30. ASSUME NEW p \in Proc, RLockGlobalFails(p) PROVE BlockOwned'
  BY <1>30 DEF RLockGlobalFails
<1>31. ASSUME NEW p \in Proc, InfoCount(p) PROVE BlockOwned'
  BY <1>31 DEF InfoCount
<1>32. ASSUME NEW p \in Proc, InfoList(p) PROVE BlockOwned'
  BY <1>32 DEF InfoList
<1>33. ASSUME NEW p \in Proc, SmaInfoLock(p) PROVE BlockOwned'
  BY <1>33 DEF SmaInfoLock, SMA_LOCK, FreeForWriter, SmaAgain
<1>34. ASSUME NEW p \in Proc, SmaInfoLockFails(p) PROVE BlockOwned'
  BY <1>34 DEF SmaInfoLockFails
<1>35. ASSUME NEW p \in Proc, SmaInfoUnlock(p) PROVE BlockOwned'
  BY <1>35 DEF SmaInfoUnlock, SMA_UNLOCK
<1>36. ASSUME NEW p \in Proc, SmaInfoBailout(p) PROVE BlockOwned'
  BY <1>36 DEF SmaInfoBailout
<1>37. ASSUME NEW p \in Proc, Crash(p) PROVE BlockOwned'
  BY <1>37 DEF Crash, NoCall
<1>38. ASSUME NEW p \in Proc, UnpersistFails(p) PROVE BlockOwned'
  BY <1>38 DEF UnpersistFails
<1>90. CASE UNCHANGED vars
  BY <1>90 DEF vars
<1> QED
  BY <1>1, <1>2, <1>3, <1>4, <1>5, <1>6, <1>7, <1>8, <1>9, <1>10, <1>11, <1>12, <1>13,
      <1>14, <1>15, <1>16, <1>17, <1>18, <1>19, <1>20, <1>21, <1>22, <1>23, <1>24, <1>25,
      <1>26, <1>27, <1>28, <1>29, <1>30, <1>31, <1>32, <1>33, <1>34, <1>35, <1>36, <1>37,
      <1>38, <1>90 DEF Next, Step, Store, Read, Info, Done

\* The block of an add is outside the table until the add links it, and it
\* frees only a block that is outside the table.
LEMMA BlockPrivateStep ==
  ASSUME TypeOK, CallShape, BlockOwned, NoDangling, BlockPrivate, [Next]_vars
  PROVE BlockPrivate'
<1>a. pc \in [Proc -> Pcs]
  BY DEF TypeOK
<1>d. ent \in [Proc -> Cell \cup {None}] /\ DOMAIN res = Proc
  BY DEF TypeOK
<1>e. Linked \subseteq heap
  BY DEF NoDangling
<1> USE <1>a, <1>d, <1>e, LinkedFrame DEF BlockPrivate, Private, PrivatePcs, Goto, Answer,
    locks, shared, local, bounds
<1>1. ASSUME NEW p \in Proc, Begin(p) PROVE BlockPrivate'
  BY <1>1 DEF Begin, CallAdd, CallRead, CallInfo, CallSmaInfo, NoCall
<1>2. ASSUME NEW p \in Proc, Return(p) PROVE BlockPrivate'
  BY <1>2 DEF Return, NoCall
<1>3. ASSUME NEW p \in Proc, EndRequest(p) PROVE BlockPrivate'
  BY <1>3 DEF EndRequest
<1>4. ASSUME NEW p \in Proc, PersistCalc(p) PROVE BlockPrivate'
  BY <1>4 DEF PersistCalc
<1>5. ASSUME NEW p \in Proc, MallocLock(p) PROVE BlockPrivate'
  BY <1>5 DEF MallocLock, SMA_LOCK, FreeForWriter, SmaAgain
<1>6. ASSUME NEW p \in Proc, MallocLockFails(p) PROVE BlockPrivate'
  BY <1>6 DEF MallocLockFails
<1>7. ASSUME NEW p \in Proc, MallocAlloc(p) PROVE BlockPrivate'
  BY <1>7 DEF MallocAlloc, SMA_UNLOCK, NoMemory
<1>8. ASSUME NEW p \in Proc, PersistUnprotect(p) PROVE BlockPrivate'
  BY <1>8 DEF PersistUnprotect
<1>9. ASSUME NEW p \in Proc, PersistCopy(p) PROVE BlockPrivate'
  BY <1>9 DEF PersistCopy, NewEntry
<1>10. ASSUME NEW p \in Proc, WLockSma(p) PROVE BlockPrivate'
  BY <1>10 DEF WLockSma, SMA_LOCK, FreeForWriter, SmaAgain
<1>11. ASSUME NEW p \in Proc, WLockSmaFails(p) PROVE BlockPrivate'
  BY <1>11 DEF WLockSmaFails
<1>12. ASSUME NEW p \in Proc, WLockFine(p) PROVE BlockPrivate'
  BY <1>12 DEF WLockFine, TakeFineLock, FreeForWriter
<1>13. ASSUME NEW p \in Proc, WLockFineFails(p) PROVE BlockPrivate'
  BY <1>13 DEF WLockFineFails, SMA_UNLOCK
<1>14. ASSUME NEW p \in Proc, InsertExclusive(p) PROVE BlockPrivate'
  <2>1. CASE UNCHANGED chain /\ Answer(p, FALSE) /\ Goto(p, "s_wunlock")
    BY <1>14, <2>1 DEF InsertExclusive
  <2>2. CASE LinkAtTail(SlotOf(call[p].key), ent[p]) /\ Answer(p, TRUE) /\ Goto(p, "s_count")
    <3>1. SlotOf(call[p].key) \in Slot /\ ent[p] \in Cell
      BY <1>14, HashRange DEF InsertExclusive, CallShape, KeyPcs, StorePcs, BlockOwned, TypeOK
    <3>2. Linked' = Linked \cup {ent[p]}
      BY <2>2, <3>1, LinkedGrows
    <3>3. ASSUME NEW q \in Proc, Private(q)' PROVE q # p /\ Private(q) /\ ent'[q] = ent[q]
      BY <1>14, <2>2, <3>3 DEF InsertExclusive
    <3>4. ASSUME NEW q \in Proc, Private(q), q # p PROVE ent[q] # ent[p]
      BY <1>14, <3>4 DEF InsertExclusive, BlockOwned, StorePcs
    <3> QED
      BY <3>2, <3>3, <3>4
  <2> QED
    BY <1>14, <2>1, <2>2 DEF InsertExclusive
<1>15. ASSUME NEW p \in Proc, InsertCount(p) PROVE BlockPrivate'
  BY <1>15 DEF InsertCount, CallShape
<1>16. ASSUME NEW p \in Proc, WUnlockFine(p) PROVE BlockPrivate'
  BY <1>16 DEF WUnlockFine
<1>17. ASSUME NEW p \in Proc, WUnlockSma(p) PROVE BlockPrivate'
  BY <1>17 DEF WUnlockSma, SMA_UNLOCK, FreeIfRefused
<1>18. ASSUME NEW p \in Proc, FreeLock(p) PROVE BlockPrivate'
  BY <1>18 DEF FreeLock, SMA_LOCK, FreeForWriter, SmaAgain
<1>19. ASSUME NEW p \in Proc, FreeLockFails(p) PROVE BlockPrivate'
  BY <1>19 DEF FreeLockFails
<1>20. ASSUME NEW p \in Proc, FreeDealloc(p) PROVE BlockPrivate'
  BY <1>20 DEF FreeDealloc, SMA_UNLOCK
<1>21. ASSUME NEW p \in Proc, RLock(p) PROVE BlockPrivate'
  BY <1>21 DEF RLock, FreeForReader
<1>22. ASSUME NEW p \in Proc, RLockFails(p) PROVE BlockPrivate'
  BY <1>22 DEF RLockFails
<1>23. ASSUME NEW p \in Proc, Walk(p) PROVE BlockPrivate'
  BY <1>23 DEF Walk, AfterWalk, NextAfter, Searched
<1>24. ASSUME NEW p \in Proc, Count(p) PROVE BlockPrivate'
  BY <1>24 DEF Count, AfterCount
<1>25. ASSUME NEW p \in Proc, CountStore(p) PROVE BlockPrivate'
  BY <1>25 DEF CountStore, AfterCount
<1>26. ASSUME NEW p \in Proc, CountEntry(p) PROVE BlockPrivate'
  BY <1>26 DEF CountEntry
<1>27. ASSUME NEW p \in Proc, RUnlock(p) PROVE BlockPrivate'
  BY <1>27 DEF RUnlock, ReleaseRead
<1>28. ASSUME NEW p \in Proc, Unpersist(p) PROVE BlockPrivate'
  BY <1>28 DEF Unpersist
<1>29. ASSUME NEW p \in Proc, RLockGlobal(p) PROVE BlockPrivate'
  BY <1>29 DEF RLockGlobal, TakeSmaRead
<1>30. ASSUME NEW p \in Proc, RLockGlobalFails(p) PROVE BlockPrivate'
  BY <1>30 DEF RLockGlobalFails
<1>31. ASSUME NEW p \in Proc, InfoCount(p) PROVE BlockPrivate'
  BY <1>31 DEF InfoCount
<1>32. ASSUME NEW p \in Proc, InfoList(p) PROVE BlockPrivate'
  BY <1>32 DEF InfoList
<1>33. ASSUME NEW p \in Proc, SmaInfoLock(p) PROVE BlockPrivate'
  BY <1>33 DEF SmaInfoLock, SMA_LOCK, FreeForWriter, SmaAgain
<1>34. ASSUME NEW p \in Proc, SmaInfoLockFails(p) PROVE BlockPrivate'
  BY <1>34 DEF SmaInfoLockFails
<1>35. ASSUME NEW p \in Proc, SmaInfoUnlock(p) PROVE BlockPrivate'
  BY <1>35 DEF SmaInfoUnlock, SMA_UNLOCK
<1>36. ASSUME NEW p \in Proc, SmaInfoBailout(p) PROVE BlockPrivate'
  BY <1>36 DEF SmaInfoBailout
<1>37. ASSUME NEW p \in Proc, Crash(p) PROVE BlockPrivate'
  BY <1>37 DEF Crash, NoCall
<1>38. ASSUME NEW p \in Proc, UnpersistFails(p) PROVE BlockPrivate'
  BY <1>38 DEF UnpersistFails
<1>90. CASE UNCHANGED vars
  BY <1>90 DEF vars
<1> QED
  BY <1>1, <1>2, <1>3, <1>4, <1>5, <1>6, <1>7, <1>8, <1>9, <1>10, <1>11, <1>12, <1>13,
      <1>14, <1>15, <1>16, <1>17, <1>18, <1>19, <1>20, <1>21, <1>22, <1>23, <1>24, <1>25,
      <1>26, <1>27, <1>28, <1>29, <1>30, <1>31, <1>32, <1>33, <1>34, <1>35, <1>36, <1>37,
      <1>38, <1>90 DEF Next, Step, Store, Read, Info, Done

\* An entry is complete before it is linked.
LEMMA BlockWrittenStep ==
  ASSUME TypeOK, BlockOwned, BlockWritten, [Next]_vars PROVE BlockWritten'
<1>a. pc \in [Proc -> Pcs]
  BY DEF TypeOK
<1>c. DOMAIN call = Proc /\ DOMAIN ent = Proc
  BY DEF TypeOK
<1>d. mem \in [Cell -> Entries]
  BY DEF TypeOK
<1>e. heap \subseteq Cell
  BY DEF TypeOK
<1> USE <1>a, <1>c, <1>d, <1>e DEF BlockWritten, Goto, locks, shared, local, bounds
<1>1. ASSUME NEW p \in Proc, Begin(p) PROVE BlockWritten'
  BY <1>1 DEF Begin, CallAdd, CallRead, CallInfo, CallSmaInfo, NoCall
<1>2. ASSUME NEW p \in Proc, Return(p) PROVE BlockWritten'
  BY <1>2 DEF Return, NoCall
<1>3. ASSUME NEW p \in Proc, EndRequest(p) PROVE BlockWritten'
  BY <1>3 DEF EndRequest
<1>4. ASSUME NEW p \in Proc, PersistCalc(p) PROVE BlockWritten'
  BY <1>4 DEF PersistCalc
<1>5. ASSUME NEW p \in Proc, MallocLock(p) PROVE BlockWritten'
  BY <1>5 DEF MallocLock, SMA_LOCK, FreeForWriter, SmaAgain
<1>6. ASSUME NEW p \in Proc, MallocLockFails(p) PROVE BlockWritten'
  BY <1>6 DEF MallocLockFails
<1>7. ASSUME NEW p \in Proc, MallocAlloc(p) PROVE BlockWritten'
  BY ZenonT(40), <1>7 DEF MallocAlloc, SMA_UNLOCK, NoMemory
<1>8. ASSUME NEW p \in Proc, PersistUnprotect(p) PROVE BlockWritten'
  BY <1>8 DEF PersistUnprotect
<1>9. ASSUME NEW p \in Proc, PersistCopy(p) PROVE BlockWritten'
  BY <1>9 DEF PersistCopy, NewEntry, BlockOwned, StorePcs, Entries
<1>10. ASSUME NEW p \in Proc, WLockSma(p) PROVE BlockWritten'
  BY <1>10 DEF WLockSma, SMA_LOCK, FreeForWriter, SmaAgain
<1>11. ASSUME NEW p \in Proc, WLockSmaFails(p) PROVE BlockWritten'
  BY <1>11 DEF WLockSmaFails
<1>12. ASSUME NEW p \in Proc, WLockFine(p) PROVE BlockWritten'
  BY <1>12 DEF WLockFine, TakeFineLock, FreeForWriter
<1>13. ASSUME NEW p \in Proc, WLockFineFails(p) PROVE BlockWritten'
  BY <1>13 DEF WLockFineFails, SMA_UNLOCK
<1>14. ASSUME NEW p \in Proc, InsertExclusive(p) PROVE BlockWritten'
  BY <1>14 DEF InsertExclusive, LinkAtTail
<1>15. ASSUME NEW p \in Proc, InsertCount(p) PROVE BlockWritten'
  BY <1>15 DEF InsertCount
<1>16. ASSUME NEW p \in Proc, WUnlockFine(p) PROVE BlockWritten'
  BY <1>16 DEF WUnlockFine
<1>17. ASSUME NEW p \in Proc, WUnlockSma(p) PROVE BlockWritten'
  BY <1>17 DEF WUnlockSma, SMA_UNLOCK, FreeIfRefused
<1>18. ASSUME NEW p \in Proc, FreeLock(p) PROVE BlockWritten'
  BY <1>18 DEF FreeLock, SMA_LOCK, FreeForWriter, SmaAgain
<1>19. ASSUME NEW p \in Proc, FreeLockFails(p) PROVE BlockWritten'
  BY <1>19 DEF FreeLockFails
<1>20. ASSUME NEW p \in Proc, FreeDealloc(p) PROVE BlockWritten'
  BY <1>20 DEF FreeDealloc, SMA_UNLOCK
<1>21. ASSUME NEW p \in Proc, RLock(p) PROVE BlockWritten'
  BY <1>21 DEF RLock, FreeForReader
<1>22. ASSUME NEW p \in Proc, RLockFails(p) PROVE BlockWritten'
  BY <1>22 DEF RLockFails
<1>23. ASSUME NEW p \in Proc, Walk(p) PROVE BlockWritten'
  BY <1>23 DEF Walk, AfterWalk, NextAfter, Searched
<1>24. ASSUME NEW p \in Proc, Count(p) PROVE BlockWritten'
  BY <1>24 DEF Count, AfterCount
<1>25. ASSUME NEW p \in Proc, CountStore(p) PROVE BlockWritten'
  BY <1>25 DEF CountStore, AfterCount
<1>26. ASSUME NEW p \in Proc, CountEntry(p) PROVE BlockWritten'
  BY <1>26 DEF CountEntry, Entries
<1>27. ASSUME NEW p \in Proc, RUnlock(p) PROVE BlockWritten'
  BY <1>27 DEF RUnlock, ReleaseRead
<1>28. ASSUME NEW p \in Proc, Unpersist(p) PROVE BlockWritten'
  BY <1>28 DEF Unpersist
<1>29. ASSUME NEW p \in Proc, RLockGlobal(p) PROVE BlockWritten'
  BY <1>29 DEF RLockGlobal, TakeSmaRead
<1>30. ASSUME NEW p \in Proc, RLockGlobalFails(p) PROVE BlockWritten'
  BY <1>30 DEF RLockGlobalFails
<1>31. ASSUME NEW p \in Proc, InfoCount(p) PROVE BlockWritten'
  BY <1>31 DEF InfoCount
<1>32. ASSUME NEW p \in Proc, InfoList(p) PROVE BlockWritten'
  BY <1>32 DEF InfoList
<1>33. ASSUME NEW p \in Proc, SmaInfoLock(p) PROVE BlockWritten'
  BY <1>33 DEF SmaInfoLock, SMA_LOCK, FreeForWriter, SmaAgain
<1>34. ASSUME NEW p \in Proc, SmaInfoLockFails(p) PROVE BlockWritten'
  BY <1>34 DEF SmaInfoLockFails
<1>35. ASSUME NEW p \in Proc, SmaInfoUnlock(p) PROVE BlockWritten'
  BY <1>35 DEF SmaInfoUnlock, SMA_UNLOCK
<1>36. ASSUME NEW p \in Proc, SmaInfoBailout(p) PROVE BlockWritten'
  BY <1>36 DEF SmaInfoBailout
<1>37. ASSUME NEW p \in Proc, Crash(p) PROVE BlockWritten'
  BY <1>37 DEF Crash, NoCall
<1>38. ASSUME NEW p \in Proc, UnpersistFails(p) PROVE BlockWritten'
  BY <1>38 DEF UnpersistFails
<1>90. CASE UNCHANGED vars
  BY <1>90 DEF vars
<1> QED
  BY <1>1, <1>2, <1>3, <1>4, <1>5, <1>6, <1>7, <1>8, <1>9, <1>10, <1>11, <1>12, <1>13,
      <1>14, <1>15, <1>16, <1>17, <1>18, <1>19, <1>20, <1>21, <1>22, <1>23, <1>24, <1>25,
      <1>26, <1>27, <1>28, <1>29, <1>30, <1>31, <1>32, <1>33, <1>34, <1>35, <1>36, <1>37,
      <1>38, <1>90 DEF Next, Step, Store, Read, Info, Done

\* Which actions change the table, its entries, the heap and the pointers that
\* requests and calls hold.
Frame ==
  /\ UNCHANGED chain \/ \E p \in Proc : InsertExclusive(p)
  /\ UNCHANGED mem \/ \E p \in Proc : PersistCopy(p) \/ CountEntry(p)
  /\ heap \subseteq heap' \/ \E p \in Proc : FreeDealloc(p)
  /\ \/ UNCHANGED <<held, call>>
     \/ \E p \in Proc : \/ Begin(p) \/ Return(p) \/ EndRequest(p) \/ Crash(p)
                        \/ Unpersist(p) \/ InfoList(p) \/ SmaInfoBailout(p)

\* No other action changes these variables.
LEMMA FrameStep ==
  ASSUME [Next]_vars PROVE Frame
<1>1. ASSUME NEW p \in Proc, Begin(p) PROVE Frame
  BY <1>1 DEF Frame, Begin, shared, local, locks, bounds
<1>2. ASSUME NEW p \in Proc, Return(p) PROVE Frame
  BY <1>2 DEF Frame, Return, shared, local, locks, bounds
<1>3. ASSUME NEW p \in Proc, EndRequest(p) PROVE Frame
  BY <1>3 DEF Frame, EndRequest, shared, local, locks, bounds
<1>4. ASSUME NEW p \in Proc, PersistCalc(p) PROVE Frame
  BY <1>4 DEF Frame, PersistCalc, shared, local, locks, bounds
<1>5. ASSUME NEW p \in Proc, MallocLock(p) PROVE Frame
  BY <1>5 DEF Frame, MallocLock, shared, local, locks, bounds
<1>6. ASSUME NEW p \in Proc, MallocLockFails(p) PROVE Frame
  BY <1>6 DEF Frame, MallocLockFails, shared, local, locks, bounds
<1>7. ASSUME NEW p \in Proc, MallocAlloc(p) PROVE Frame
  BY <1>7 DEF Frame, MallocAlloc, SMA_UNLOCK, NoMemory, shared, local, locks, bounds
<1>8. ASSUME NEW p \in Proc, PersistUnprotect(p) PROVE Frame
  BY <1>8 DEF Frame, PersistUnprotect, shared, local, locks, bounds
<1>9. ASSUME NEW p \in Proc, PersistCopy(p) PROVE Frame
  BY <1>9 DEF Frame, PersistCopy, shared, local, locks, bounds
<1>10. ASSUME NEW p \in Proc, WLockSma(p) PROVE Frame
  BY <1>10 DEF Frame, WLockSma, shared, local, locks, bounds
<1>11. ASSUME NEW p \in Proc, WLockSmaFails(p) PROVE Frame
  BY <1>11 DEF Frame, WLockSmaFails, shared, local, locks, bounds
<1>12. ASSUME NEW p \in Proc, WLockFine(p) PROVE Frame
  BY <1>12 DEF Frame, WLockFine, shared, local, locks, bounds
<1>13. ASSUME NEW p \in Proc, WLockFineFails(p) PROVE Frame
  BY <1>13 DEF Frame, WLockFineFails, shared, local, locks, bounds
<1>14. ASSUME NEW p \in Proc, InsertExclusive(p) PROVE Frame
  BY <1>14 DEF Frame, InsertExclusive, shared, local, locks, bounds
<1>15. ASSUME NEW p \in Proc, InsertCount(p) PROVE Frame
  BY <1>15 DEF Frame, InsertCount, shared, local, locks, bounds
<1>16. ASSUME NEW p \in Proc, WUnlockFine(p) PROVE Frame
  BY <1>16 DEF Frame, WUnlockFine, shared, local, locks, bounds
<1>17. ASSUME NEW p \in Proc, WUnlockSma(p) PROVE Frame
  BY <1>17 DEF Frame, WUnlockSma, shared, local, locks, bounds
<1>18. ASSUME NEW p \in Proc, FreeLock(p) PROVE Frame
  BY <1>18 DEF Frame, FreeLock, shared, local, locks, bounds
<1>19. ASSUME NEW p \in Proc, FreeLockFails(p) PROVE Frame
  BY <1>19 DEF Frame, FreeLockFails, shared, local, locks, bounds
<1>20. ASSUME NEW p \in Proc, FreeDealloc(p) PROVE Frame
  BY <1>20 DEF Frame, FreeDealloc, shared, local, locks, bounds
<1>21. ASSUME NEW p \in Proc, RLock(p) PROVE Frame
  BY <1>21 DEF Frame, RLock, shared, local, locks, bounds
<1>22. ASSUME NEW p \in Proc, RLockFails(p) PROVE Frame
  BY <1>22 DEF Frame, RLockFails, shared, local, locks, bounds
<1>23. ASSUME NEW p \in Proc, Walk(p) PROVE Frame
  BY <1>23 DEF Frame, Walk, shared, local, locks, bounds
<1>24. ASSUME NEW p \in Proc, Count(p) PROVE Frame
  BY <1>24 DEF Frame, Count, shared, local, locks, bounds
<1>25. ASSUME NEW p \in Proc, CountStore(p) PROVE Frame
  BY <1>25 DEF Frame, CountStore, shared, local, locks, bounds
<1>26. ASSUME NEW p \in Proc, CountEntry(p) PROVE Frame
  BY <1>26 DEF Frame, CountEntry, shared, local, locks, bounds
<1>27. ASSUME NEW p \in Proc, RUnlock(p) PROVE Frame
  BY <1>27 DEF Frame, RUnlock, shared, local, locks, bounds
<1>28. ASSUME NEW p \in Proc, Unpersist(p) PROVE Frame
  BY <1>28 DEF Frame, Unpersist, shared, local, locks, bounds
<1>29. ASSUME NEW p \in Proc, RLockGlobal(p) PROVE Frame
  BY <1>29 DEF Frame, RLockGlobal, shared, local, locks, bounds
<1>30. ASSUME NEW p \in Proc, RLockGlobalFails(p) PROVE Frame
  BY <1>30 DEF Frame, RLockGlobalFails, shared, local, locks, bounds
<1>31. ASSUME NEW p \in Proc, InfoCount(p) PROVE Frame
  BY <1>31 DEF Frame, InfoCount, shared, local, locks, bounds
<1>32. ASSUME NEW p \in Proc, InfoList(p) PROVE Frame
  BY <1>32 DEF Frame, InfoList, shared, local, locks, bounds
<1>33. ASSUME NEW p \in Proc, SmaInfoLock(p) PROVE Frame
  BY <1>33 DEF Frame, SmaInfoLock, shared, local, locks, bounds
<1>34. ASSUME NEW p \in Proc, SmaInfoLockFails(p) PROVE Frame
  BY <1>34 DEF Frame, SmaInfoLockFails, shared, local, locks, bounds
<1>35. ASSUME NEW p \in Proc, SmaInfoUnlock(p) PROVE Frame
  BY <1>35 DEF Frame, SmaInfoUnlock, shared, local, locks, bounds
<1>36. ASSUME NEW p \in Proc, SmaInfoBailout(p) PROVE Frame
  BY <1>36 DEF Frame, SmaInfoBailout, shared, local, locks, bounds
<1>37. ASSUME NEW p \in Proc, Crash(p) PROVE Frame
  BY <1>37 DEF Frame, Crash, shared, local, locks, bounds
<1>38. ASSUME NEW p \in Proc, UnpersistFails(p) PROVE Frame
  BY <1>38 DEF Frame, UnpersistFails, shared, local, locks, bounds
<1>90. CASE UNCHANGED vars
  BY <1>90 DEF Frame, vars, shared, local, locks, bounds
<1> QED
  BY <1>1, <1>2, <1>3, <1>4, <1>5, <1>6, <1>7, <1>8, <1>9, <1>10, <1>11, <1>12, <1>13,
      <1>14, <1>15, <1>16, <1>17, <1>18, <1>19, <1>20, <1>21, <1>22, <1>23, <1>24, <1>25,
      <1>26, <1>27, <1>28, <1>29, <1>30, <1>31, <1>32, <1>33, <1>34, <1>35, <1>36, <1>37,
      <1>38, <1>90 DEF Next, Step, Store, Read, Info, Done

\* The one step that changes the table.
Links(p) ==
  /\ pc[p] = "s_insert"
  /\ ~Present(SlotOf(call[p].key), call[p].key)
  /\ LinkAtTail(SlotOf(call[p].key), ent[p])
  /\ pc' = [pc EXCEPT ![p] = "s_count"]
  /\ UNCHANGED <<heap, mem, held, call, ent>>

\* Nothing else changes a chain.
LEMMA ChainStep ==
  ASSUME [Next]_vars PROVE UNCHANGED chain \/ \E p \in Proc : Links(p)
<1>1. ASSUME NEW p \in Proc, InsertExclusive(p) PROVE UNCHANGED chain \/ Links(p)
  BY <1>1 DEF InsertExclusive, Links, Goto
<1> QED
  BY <1>1, FrameStep DEF Frame

\* Linked entries keep their key, value and pointers; their hits only grow.
Kept ==
  \A c \in Linked :
    /\ mem'[c].key = mem[c].key
    /\ mem'[c].val = mem[c].val
    /\ mem'[c].refs = mem[c].refs
OnlyHits ==
  \A c \in Linked :
    /\ mem[c].nhits <= mem'[c].nhits
    /\ mem'[c] = [mem[c] EXCEPT !.nhits = mem'[c].nhits]

\* Only a copy into a private block and a hit write to entries.
LEMMA EntriesKept ==
  ASSUME TypeOK, CallShape, BlockPrivate, [Next]_vars PROVE Kept /\ OnlyHits
<1>1. mem \in [Cell -> Entries] /\ Linked \subseteq Cell
  BY DEF TypeOK, Linked
<1>2. CASE UNCHANGED mem
  BY <1>1, <1>2 DEF Kept, OnlyHits, Entries
<1>3. ASSUME NEW p \in Proc, PersistCopy(p) PROVE Kept /\ OnlyHits
  <2>1. ent[p] \notin Linked /\ mem' = [mem EXCEPT ![ent[p]] = NewEntry(p)]
    BY <1>3 DEF PersistCopy, BlockPrivate, Private, PrivatePcs
  <2>2. \A c \in Linked : mem'[c] = mem[c]
    BY <1>1, <2>1
  <2> QED
    BY <1>1, <2>2 DEF Kept, OnlyHits, Entries
<1>4. ASSUME NEW p \in Proc, CountEntry(p) PROVE Kept /\ OnlyHits
  <2>1. ent[p] \in Cell /\ mem' = [mem EXCEPT ![ent[p]].nhits = @ + 1]
    BY <1>4 DEF CountEntry, CallShape, TypeOK
  <2> QED
    BY <1>1, <2>1 DEF Kept, OnlyHits, Entries
<1> QED
  BY <1>2, <1>3, <1>4, FrameStep DEF Frame

\* One entry per key.
LEMMA UniqueKeysStep ==
  ASSUME IndInv, [Next]_vars PROVE UniqueKeys'
<1> USE DEF IndInv
<1>1. Kept
  BY EntriesKept
<1>2. \A s \in Slot : \A i \in DOMAIN chain[s] : chain[s][i] \in Linked
  BY DEF TypeOK, Linked
<1>3. CASE UNCHANGED chain
  <2>1. \A s \in Slot : \A i \in DOMAIN chain[s] : mem'[chain[s][i]].key = mem[chain[s][i]].key
    BY <1>1, <1>2 DEF Kept
  <2> QED
    BY <1>3, <2>1 DEF UniqueKeys, SlotOf
<1>4. ASSUME NEW p \in Proc, Links(p) PROVE UniqueKeys'
  <2> DEFINE k == call[p].key
  <2> DEFINE r == SlotOf(k)
  <2> DEFINE n == Len(chain[r])
  <2>1. k \in Key /\ r \in Slot
    BY <1>4, HashRange DEF Links, CallShape, KeyPcs, StorePcs
  <2>2. ent[p] \in Cell /\ mem[ent[p]].key = k
    BY <1>4 DEF Links, BlockOwned, BlockWritten, StorePcs, TypeOK
  <2>3. LinkAtTail(r, ent[p]) /\ mem' = mem /\ ~Present(r, k)
    BY <1>4 DEF Links, shared
  <2> HIDE DEF k, r
  <2>4. /\ \A t \in Slot : t # r => chain'[t] = chain[t]
        /\ Len(chain'[r]) = n + 1
        /\ \A i \in 1 .. n : chain'[r][i] = chain[r][i]
        /\ chain'[r][n + 1] = ent[p]
    BY <2>1, <2>2, <2>3, LinkedGrows
  <2>5. chain \in [Slot -> Seq(Cell)] /\ chain' \in [Slot -> Seq(Cell)]
    BY <2>1, <2>2, <2>3 DEF TypeOK, LinkAtTail
  <2>6. \A t \in Slot : DOMAIN chain[t] = 1 .. Len(chain[t]) /\ DOMAIN chain'[t] = 1 .. Len(chain'[t])
    BY <2>5
  <2>7. n \in Nat
    BY <2>1, <2>5
  <2> HIDE DEF n
  <2> DEFINE old(t, i) == t \in Slot /\ i \in DOMAIN chain[t] /\ chain'[t][i] = chain[t][i]
  <2> DEFINE new(t, i) == t = r /\ i = n + 1 /\ chain'[t][i] = ent[p]
  <2>8. ASSUME NEW t \in Slot, NEW i \in DOMAIN chain'[t] PROVE old(t, i) \/ new(t, i)
    BY <2>4, <2>6, <2>7 DEF n
  <2>9. ASSUME NEW t \in Slot, NEW i \in DOMAIN chain[t]
        PROVE SlotOf(mem[chain[t][i]].key) = t /\ mem[chain[t][i]].key # k
    BY <2>3 DEF UniqueKeys, Present, r
  <2>10. SlotOf(k) = r
    BY DEF r
  <2> SUFFICES ASSUME NEW s \in Slot, NEW t \in Slot,
                      NEW i \in DOMAIN chain'[s], NEW j \in DOMAIN chain'[t]
               PROVE /\ SlotOf(mem[chain'[s][i]].key) = s
                     /\ mem[chain'[s][i]].key = mem[chain'[t][j]].key => s = t /\ i = j
    BY <2>3 DEF UniqueKeys, SlotOf
  <2>11. CASE old(s, i) /\ old(t, j)
    BY <2>11 DEF UniqueKeys
  <2>12. CASE old(s, i) /\ new(t, j)
    BY <2>12, <2>9, <2>2
  <2>13. CASE new(s, i) /\ old(t, j)
    BY <2>13, <2>9, <2>2, <2>10
  <2>14. CASE new(s, i) /\ new(t, j)
    BY <2>14, <2>2, <2>10
  <2> QED
    BY <2>8, <2>11, <2>12, <2>13, <2>14
<1> QED
  BY <1>3, <1>4, ChainStep

\* The table only grows.
LEMMA LinkedMonotone ==
  ASSUME IndInv, [Next]_vars
  PROVE /\ Linked \subseteq Linked'
        /\ UNCHANGED chain => Linked' = Linked
        /\ \A p \in Proc : Links(p) => Linked' = Linked \cup {ent[p]}
<1> USE DEF IndInv
<1>1. ASSUME NEW p \in Proc, Links(p) PROVE Linked' = Linked \cup {ent[p]}
  <2>1. SlotOf(call[p].key) \in Slot /\ ent[p] \in Cell
    BY <1>1, HashRange DEF Links, CallShape, KeyPcs, StorePcs, BlockOwned, TypeOK
  <2> QED
    BY <1>1, <2>1, LinkedGrows DEF Links
<1> QED
  BY <1>1, ChainStep, LinkedFrame

\* No entry of the table is freed.
LEMMA LinkedOwned ==
  ASSUME IndInv, [Next]_vars PROVE Linked' \subseteq heap'
<1> USE DEF IndInv
<1>1. CASE \E p \in Proc : Links(p)
  <2>1. PICK p \in Proc : Links(p)
    BY <1>1
  <2>2. heap' = heap /\ ent[p] \in heap
    BY <2>1 DEF Links, BlockOwned, StorePcs
  <2>3. Linked' = Linked \cup {ent[p]}
    BY <2>1, LinkedMonotone
  <2> QED
    BY <2>2, <2>3 DEF NoDangling
<1>2. ASSUME UNCHANGED chain, NEW p \in Proc, FreeDealloc(p) PROVE Linked' \subseteq heap'
  BY <1>2, LinkedMonotone DEF FreeDealloc, BlockPrivate, Private, PrivatePcs, NoDangling
<1>3. heap \subseteq heap' \/ \E p \in Proc : FreeDealloc(p)
  BY FrameStep DEF Frame
<1> QED
  BY <1>1, <1>2, <1>3, ChainStep, LinkedMonotone DEF NoDangling

\* What entries point into stays in the table.
LEMMA RefsLinked ==
  ASSUME IndInv, [Next]_vars PROVE \A c \in Linked' : mem'[c].refs \subseteq Linked'
<1> USE DEF IndInv
<1>1. Kept
  BY EntriesKept
<1>2. ASSUME NEW c \in Linked PROVE mem'[c].refs \subseteq Linked'
  BY <1>1, LinkedMonotone DEF Kept, NoDangling
<1>3. ASSUME NEW p \in Proc, Links(p) PROVE mem'[ent[p]].refs \subseteq Linked'
  <2>1. mem' = mem /\ mem[ent[p]].refs = call[p].refs \cup {ent[p]}
    BY <1>3 DEF Links, BlockWritten
  <2>2. Linked' = Linked \cup {ent[p]}
    BY <1>3, LinkedMonotone
  <2> QED
    BY <2>1, <2>2 DEF NoDangling
<1> QED
  BY <1>2, <1>3, ChainStep, LinkedMonotone

\* What requests and calls point into stays in the table.
LEMMA HeldLinked ==
  ASSUME IndInv, [Next]_vars
  PROVE \A q \in Proc : held'[q] \cup call'[q].refs \subseteq Linked'
<1> USE DEF IndInv
<1>1. held \in [Proc -> SUBSET Cell] /\ DOMAIN call = Proc
  BY DEF TypeOK
<1>2. \A q \in Proc : held[q] \cup call[q].refs \subseteq Linked
  BY DEF NoDangling
<1>3. Linked \subseteq Linked'
  BY LinkedMonotone
<1> HIDE DEF IndInv
<1> USE <1>1, <1>2, <1>3
<1>4. CASE UNCHANGED <<held, call>>
  BY <1>4
<1>5. ASSUME NEW p \in Proc, Begin(p)
      PROVE \A q \in Proc : held'[q] \cup call'[q].refs \subseteq Linked'
  BY <1>5 DEF Begin, CallAdd, Reusable, CallRead, CallInfo, CallSmaInfo, NoCall
<1>6. ASSUME NEW p \in Proc, Return(p) \/ EndRequest(p) \/ SmaInfoBailout(p)
      PROVE \A q \in Proc : held'[q] \cup call'[q].refs \subseteq Linked'
  BY <1>6 DEF Return, EndRequest, SmaInfoBailout, NoCall, local
<1>7. ASSUME NEW p \in Proc, Crash(p)
      PROVE \A q \in Proc : held'[q] \cup call'[q].refs \subseteq Linked'
  BY <1>7 DEF Crash, NoCall
<1>8. ASSUME NEW p \in Proc, Unpersist(p)
      PROVE \A q \in Proc : held'[q] \cup call'[q].refs \subseteq Linked'
  <2>1. mem[ent[p]].refs \subseteq Linked
    BY <1>8 DEF Unpersist, IndInv, AnswerStable, CallShape, FoundPcs, NoDangling
  <2> QED
    BY <1>8, <2>1 DEF Unpersist, PointedTo
<1>9. ASSUME NEW p \in Proc, InfoList(p)
      PROVE \A q \in Proc : held'[q] \cup call'[q].refs \subseteq Linked'
  BY <1>9 DEF InfoList, local
<1> QED
  BY <1>4, <1>5, <1>6, <1>7, <1>8, <1>9, FrameStep DEF Frame

\* Nobody can reach freed memory.
LEMMA NoDanglingStep == ASSUME IndInv, [Next]_vars PROVE NoDangling'
  BY LinkedOwned, RefsLinked, HeldLinked DEF NoDangling

\* Entries keep their place in the chain of their slot.
LEMMA PrefixKept ==
  ASSUME IndInv, [Next]_vars, NEW s \in Slot
  PROVE /\ Len(chain[s]) <= Len(chain'[s]) /\ Len(chain'[s]) <= Len(chain[s]) + 1
        /\ Len(chain[s]) \in Nat /\ Len(chain'[s]) \in Nat
        /\ \A i \in 1 .. Len(chain[s]) :
             /\ chain[s][i] \in Linked /\ chain'[s][i] = chain[s][i]
             /\ mem'[chain'[s][i]].key = mem[chain[s][i]].key
<1> USE DEF IndInv
<1>1. chain \in [Slot -> Seq(Cell)]
  BY DEF TypeOK
<1>2. \A i \in 1 .. Len(chain[s]) : chain[s][i] \in Linked
  BY <1>1 DEF Linked
<1>3. Kept
  BY EntriesKept
<1>4. CASE UNCHANGED chain
  BY <1>1, <1>2, <1>3, <1>4 DEF Kept
<1>5. ASSUME NEW p \in Proc, Links(p)
      PROVE /\ Len(chain[s]) <= Len(chain'[s]) /\ Len(chain'[s]) <= Len(chain[s]) + 1
            /\ Len(chain'[s]) \in Nat
            /\ \A i \in 1 .. Len(chain[s]) : chain'[s][i] = chain[s][i]
  <2> DEFINE r == SlotOf(call[p].key)
  <2>1. r \in Slot /\ ent[p] \in Cell /\ LinkAtTail(r, ent[p])
    BY <1>5, HashRange DEF Links, CallShape, KeyPcs, StorePcs, BlockOwned, TypeOK
  <2> HIDE DEF r
  <2>2. /\ \A t \in Slot : t # r => chain'[t] = chain[t]
        /\ Len(chain'[r]) = Len(chain[r]) + 1
        /\ \A i \in 1 .. Len(chain[r]) : chain'[r][i] = chain[r][i]
    BY <2>1, LinkedGrows
  <2>3. Len(chain[s]) \in Nat
    BY <1>1
  <2>4. CASE s = r
    BY <2>2, <2>3, <2>4
  <2>5. CASE s # r
    BY <2>2, <2>3, <2>5
  <2> QED
    BY <2>4, <2>5
<1> QED
  BY <1>1, <1>2, <1>3, <1>4, <1>5, ChainStep DEF Kept

\* How a step may bring a worker into a walk, or keep it there.
WalkRel ==
  \A q \in Proc : pc'[q] = "f_walk" =>
    /\ call'[q] = call[q]
    /\ \/ pc[q] = "f_rlock" /\ pos'[q] = pos[q]
       \/ pc[q] = "f_walk" /\ pos'[q] = pos[q]
       \/ /\ pc[q] = "f_walk" /\ pos'[q] = pos[q] + 1
          /\ pos[q] < Len(Searched(q))
          /\ mem[Searched(q)[pos[q] + 1]].key # call[q].key

\* How a step may bring a worker to an answer, or keep it there.
AnswerRel ==
  \A q \in Proc : pc'[q] \in FoundPcs =>
    /\ call'[q] = call[q]
    /\ \/ pc[q] \in FoundPcs /\ ent'[q] = ent[q]
       \/ /\ pc[q] = "f_walk" /\ pos[q] = Len(Searched(q)) /\ ent'[q] = None
          /\ UNCHANGED <<chain, mem>>
       \/ /\ pc[q] = "f_walk" /\ pos[q] < Len(Searched(q))
          /\ ent'[q] = Searched(q)[pos[q] + 1]
          /\ mem[ent'[q]].key = call[q].key

\* Reads move from entry to entry and to their answer in no other way.
LEMMA ReadStep ==
  ASSUME TypeOK, CallShape, [Next]_vars PROVE WalkRel /\ AnswerRel
<1>a. pc \in [Proc -> Pcs] /\ pos \in [Proc -> Nat] /\ DOMAIN ent = Proc /\ DOMAIN call = Proc
  BY DEF TypeOK
<1>b. \A q \in Proc : pc[q] = "f_walk" => ent[q] = None
  BY DEF CallShape
<1> USE <1>a, <1>b DEF WalkRel, AnswerRel, Goto, FoundPcs, locks, shared, local, bounds
<1>1. ASSUME NEW p \in Proc, Begin(p) PROVE WalkRel /\ AnswerRel
  BY <1>1 DEF Begin, CallAdd, CallRead, CallInfo, CallSmaInfo, NoCall
<1>2. ASSUME NEW p \in Proc, Return(p) PROVE WalkRel /\ AnswerRel
  BY <1>2 DEF Return, NoCall
<1>3. ASSUME NEW p \in Proc, EndRequest(p) PROVE WalkRel /\ AnswerRel
  BY <1>3 DEF EndRequest
<1>4. ASSUME NEW p \in Proc, PersistCalc(p) PROVE WalkRel /\ AnswerRel
  BY <1>4 DEF PersistCalc
<1>5. ASSUME NEW p \in Proc, MallocLock(p) PROVE WalkRel /\ AnswerRel
  BY <1>5 DEF MallocLock, SMA_LOCK, FreeForWriter, SmaAgain
<1>6. ASSUME NEW p \in Proc, MallocLockFails(p) PROVE WalkRel /\ AnswerRel
  BY <1>6 DEF MallocLockFails
<1>7. ASSUME NEW p \in Proc, MallocAlloc(p) PROVE WalkRel /\ AnswerRel
  BY <1>7 DEF MallocAlloc, SMA_UNLOCK, NoMemory
<1>8. ASSUME NEW p \in Proc, PersistUnprotect(p) PROVE WalkRel /\ AnswerRel
  BY <1>8 DEF PersistUnprotect
<1>9. ASSUME NEW p \in Proc, PersistCopy(p) PROVE WalkRel /\ AnswerRel
  BY <1>9 DEF PersistCopy, NewEntry
<1>10. ASSUME NEW p \in Proc, WLockSma(p) PROVE WalkRel /\ AnswerRel
  BY <1>10 DEF WLockSma, SMA_LOCK, FreeForWriter, SmaAgain
<1>11. ASSUME NEW p \in Proc, WLockSmaFails(p) PROVE WalkRel /\ AnswerRel
  BY <1>11 DEF WLockSmaFails
<1>12. ASSUME NEW p \in Proc, WLockFine(p) PROVE WalkRel /\ AnswerRel
  BY <1>12 DEF WLockFine, TakeFineLock, FreeForWriter
<1>13. ASSUME NEW p \in Proc, WLockFineFails(p) PROVE WalkRel /\ AnswerRel
  BY <1>13 DEF WLockFineFails, SMA_UNLOCK
<1>14. ASSUME NEW p \in Proc, InsertExclusive(p) PROVE WalkRel /\ AnswerRel
  BY <1>14 DEF InsertExclusive, LinkAtTail
<1>15. ASSUME NEW p \in Proc, InsertCount(p) PROVE WalkRel /\ AnswerRel
  BY <1>15 DEF InsertCount
<1>16. ASSUME NEW p \in Proc, WUnlockFine(p) PROVE WalkRel /\ AnswerRel
  BY <1>16 DEF WUnlockFine
<1>17. ASSUME NEW p \in Proc, WUnlockSma(p) PROVE WalkRel /\ AnswerRel
  BY <1>17 DEF WUnlockSma, SMA_UNLOCK, FreeIfRefused
<1>18. ASSUME NEW p \in Proc, FreeLock(p) PROVE WalkRel /\ AnswerRel
  BY <1>18 DEF FreeLock, SMA_LOCK, FreeForWriter, SmaAgain
<1>19. ASSUME NEW p \in Proc, FreeLockFails(p) PROVE WalkRel /\ AnswerRel
  BY <1>19 DEF FreeLockFails
<1>20. ASSUME NEW p \in Proc, FreeDealloc(p) PROVE WalkRel /\ AnswerRel
  BY <1>20 DEF FreeDealloc, SMA_UNLOCK
<1>21. ASSUME NEW p \in Proc, RLock(p) PROVE WalkRel /\ AnswerRel
  BY <1>21 DEF RLock, FreeForReader
<1>22. ASSUME NEW p \in Proc, RLockFails(p) PROVE WalkRel /\ AnswerRel
  BY <1>22 DEF RLockFails
<1>23. ASSUME NEW p \in Proc, Walk(p) PROVE WalkRel /\ AnswerRel
  BY <1>23 DEF Walk, AfterWalk, NextAfter
<1>24. ASSUME NEW p \in Proc, Count(p) PROVE WalkRel /\ AnswerRel
  BY <1>24 DEF Count, AfterCount
<1>25. ASSUME NEW p \in Proc, CountStore(p) PROVE WalkRel /\ AnswerRel
  BY <1>25 DEF CountStore, AfterCount
<1>26. ASSUME NEW p \in Proc, CountEntry(p) PROVE WalkRel /\ AnswerRel
  BY <1>26 DEF CountEntry
<1>27. ASSUME NEW p \in Proc, RUnlock(p) PROVE WalkRel /\ AnswerRel
  BY <1>27 DEF RUnlock, ReleaseRead
<1>28. ASSUME NEW p \in Proc, Unpersist(p) PROVE WalkRel /\ AnswerRel
  BY <1>28 DEF Unpersist
<1>29. ASSUME NEW p \in Proc, RLockGlobal(p) PROVE WalkRel /\ AnswerRel
  BY <1>29 DEF RLockGlobal, TakeSmaRead
<1>30. ASSUME NEW p \in Proc, RLockGlobalFails(p) PROVE WalkRel /\ AnswerRel
  BY <1>30 DEF RLockGlobalFails
<1>31. ASSUME NEW p \in Proc, InfoCount(p) PROVE WalkRel /\ AnswerRel
  BY <1>31 DEF InfoCount
<1>32. ASSUME NEW p \in Proc, InfoList(p) PROVE WalkRel /\ AnswerRel
  BY <1>32 DEF InfoList
<1>33. ASSUME NEW p \in Proc, SmaInfoLock(p) PROVE WalkRel /\ AnswerRel
  BY <1>33 DEF SmaInfoLock, SMA_LOCK, FreeForWriter, SmaAgain
<1>34. ASSUME NEW p \in Proc, SmaInfoLockFails(p) PROVE WalkRel /\ AnswerRel
  BY <1>34 DEF SmaInfoLockFails
<1>35. ASSUME NEW p \in Proc, SmaInfoUnlock(p) PROVE WalkRel /\ AnswerRel
  BY <1>35 DEF SmaInfoUnlock, SMA_UNLOCK
<1>36. ASSUME NEW p \in Proc, SmaInfoBailout(p) PROVE WalkRel /\ AnswerRel
  BY <1>36 DEF SmaInfoBailout
<1>37. ASSUME NEW p \in Proc, Crash(p) PROVE WalkRel /\ AnswerRel
  BY <1>37 DEF Crash, NoCall
<1>38. ASSUME NEW p \in Proc, UnpersistFails(p) PROVE WalkRel /\ AnswerRel
  BY <1>38 DEF UnpersistFails
<1>90. CASE UNCHANGED vars
  BY <1>90 DEF vars
<1> QED
  BY <1>1, <1>2, <1>3, <1>4, <1>5, <1>6, <1>7, <1>8, <1>9, <1>10, <1>11, <1>12, <1>13,
      <1>14, <1>15, <1>16, <1>17, <1>18, <1>19, <1>20, <1>21, <1>22, <1>23, <1>24, <1>25,
      <1>26, <1>27, <1>28, <1>29, <1>30, <1>31, <1>32, <1>33, <1>34, <1>35, <1>36, <1>37,
      <1>38, <1>90 DEF Next, Step, Store, Read, Info, Done

\* A walk that writers of other keys extend has missed nothing.
LEMMA WalkPassedStep == ASSUME IndInv, [Next]_vars PROVE WalkPassed'
<1> SUFFICES ASSUME NEW q \in Proc, pc'[q] = "f_walk"
             PROVE /\ pos'[q] <= Len(Searched(q)')
                   /\ \A i \in 1 .. pos'[q] : mem'[(Searched(q)')[i]].key # call'[q].key
  BY DEF WalkPassed
<1> USE DEF IndInv
<1> DEFINE s == SlotOf(call[q].key)
<1>1. WalkRel
  BY ReadStep
<1>2. call'[q] = call[q] /\ pc[q] \in {"f_rlock", "f_walk"}
  BY <1>1 DEF WalkRel
<1>3. Searched(q) = chain[s] /\ Searched(q)' = chain'[s]
  BY <1>2 DEF Searched, SlotOf
<1>4. s \in Slot
  BY <1>2, HashRange DEF CallShape, KeyPcs
<1> HIDE DEF s
<1>5. /\ Len(chain[s]) <= Len(chain'[s])
      /\ Len(chain[s]) \in Nat /\ Len(chain'[s]) \in Nat
      /\ \A i \in 1 .. Len(chain[s]) : mem'[chain'[s][i]].key = mem[chain[s][i]].key
  BY <1>4, PrefixKept
<1>6. pos[q] \in Nat
  BY DEF TypeOK
<1>7. /\ pos[q] <= Len(chain[s])
      /\ \A i \in 1 .. pos[q] : mem[chain[s][i]].key # call[q].key
  BY <1>2, <1>3, <1>5 DEF CallShape, WalkPassed
<1>8. CASE pos'[q] = pos[q]
  BY <1>2, <1>3, <1>5, <1>6, <1>7, <1>8
<1>9. CASE /\ pos'[q] = pos[q] + 1
           /\ pos[q] < Len(chain[s])
           /\ mem[chain[s][pos[q] + 1]].key # call[q].key
  <2>1. \A i \in 1 .. pos'[q] : i \in 1 .. Len(chain[s]) /\ mem[chain[s][i]].key # call[q].key
    BY <1>5, <1>6, <1>7, <1>9
  <2> QED
    BY <1>2, <1>3, <1>5, <1>6, <1>9, <2>1
<1> QED
  BY <1>1, <1>3, <1>8, <1>9 DEF WalkRel

\* What a read has found, or missed, stays true until it is used.
LEMMA AnswerStableStep == ASSUME IndInv, [Next]_vars PROVE AnswerStable'
<1> SUFFICES ASSUME NEW q \in Proc, pc'[q] \in FoundPcs
             PROVE IF ent'[q] = None
                   THEN \A c \in Linked' : mem'[c].key # call'[q].key
                   ELSE ent'[q] \in Linked' /\ mem'[ent'[q]].key = call'[q].key
  BY DEF AnswerStable
<1> USE DEF IndInv
<1>1. AnswerRel
  BY ReadStep
<1>2. Kept /\ Linked \subseteq Linked'
  BY EntriesKept, LinkedMonotone
<1>3. call'[q] = call[q]
  BY <1>1 DEF AnswerRel
<1>4. ASSUME ent'[q] = ent[q], ent[q] # None, pc[q] \in FoundPcs
      PROVE ent'[q] \in Linked' /\ mem'[ent'[q]].key = call'[q].key
  BY <1>2, <1>3, <1>4 DEF AnswerStable, Kept
<1>5. ASSUME ent'[q] = ent[q], ent[q] = None, pc[q] \in FoundPcs
      PROVE \A c \in Linked' : mem'[c].key # call'[q].key
  <2>1. \A c \in Linked : mem'[c].key # call'[q].key
    BY <1>2, <1>3, <1>5 DEF AnswerStable, Kept
  <2>2. CASE UNCHANGED chain
    BY <2>1, <2>2, LinkedMonotone
  <2>3. ASSUME NEW p \in Proc, Links(p) PROVE mem'[ent[p]].key # call'[q].key
    <3>1. mem' = mem /\ mem[ent[p]].key = call[p].key /\ pc[p] \in FinePcs
      BY <2>3 DEF Links, BlockWritten, FinePcs
    <3>2. pc'[q] = pc[q]
      BY <2>3, <1>5 DEF Links, FoundPcs, TypeOK
    <3>3. pc[q] \in ReadPcs
      BY <1>5 DEF CallShape, FoundPcs, ReadPcs
    <3>4. fineW[LockOf(call[p].key)] = p /\ q \in fineR[LockOf(call[q].key)]
      BY <3>1, <3>3 DEF FineOwned
    <3>5. call[p].key \in Key /\ LockOf(call[p].key) \in Lock /\ p # None
      BY <3>1, HashRange, CacheAssumption DEF CallShape, KeyPcs, StorePcs, FinePcs
    <3>6. fineR[LockOf(call[p].key)] = {}
      BY <3>4, <3>5 DEF FineOwned
    <3> QED
      BY <1>3, <3>1, <3>4, <3>6
  <2> QED
    BY <2>1, <2>2, <2>3, ChainStep, LinkedMonotone
<1>6. ASSUME pc[q] = "f_walk", UNCHANGED <<chain, mem>>, pos[q] = Len(Searched(q))
      PROVE \A c \in Linked' : mem'[c].key # call'[q].key
  <2> DEFINE s == SlotOf(call[q].key)
  <2>1. \A i \in 1 .. Len(chain[s]) : mem[chain[s][i]].key # call[q].key
    BY <1>6 DEF WalkPassed, Searched
  <2>2. \A c \in Linked : mem[c].key # call[q].key
    <3> SUFFICES ASSUME NEW t \in Slot, NEW i \in DOMAIN chain[t]
                 PROVE mem[chain[t][i]].key # call[q].key
      BY DEF Linked
    <3>1. DOMAIN chain[t] = 1 .. Len(chain[t])
      BY DEF TypeOK
    <3>2. CASE t = s
      BY <2>1, <3>1, <3>2
    <3>3. CASE t # s
      BY <3>3 DEF UniqueKeys
    <3> QED
      BY <3>2, <3>3
  <2> QED
    BY <1>3, <1>6, <2>2, LinkedMonotone
<1>7. ASSUME pc[q] = "f_walk", pos[q] < Len(Searched(q)),
             ent'[q] = Searched(q)[pos[q] + 1], mem[ent'[q]].key = call[q].key
      PROVE ent'[q] \in Linked' /\ mem'[ent'[q]].key = call'[q].key /\ ent'[q] # None
  <2>1. SlotOf(call[q].key) \in Slot /\ pos[q] \in Nat
    BY <1>7, HashRange DEF CallShape, KeyPcs, TypeOK
  <2>2. ent'[q] \in Linked
    <3>1. pos[q] + 1 \in DOMAIN Searched(q) /\ Searched(q) \in Seq(Cell)
      BY <1>7, <2>1 DEF TypeOK, Searched
    <3>2. ent'[q] \in Cell
      BY <1>7, <3>1
    <3> QED
      BY <1>7, <2>1, <3>1, <3>2 DEF Linked, Searched
  <2>3. None \notin Linked
    BY CacheAssumption DEF Linked
  <2> QED
    BY <1>2, <1>3, <1>7, <2>2, <2>3 DEF Kept
<1> QED
  BY <1>1, <1>4, <1>5, <1>6, <1>7 DEF AnswerRel

\* The initial state satisfies the invariant.
LEMMA InitInv == Init => IndInv
<1> SUFFICES ASSUME Init PROVE IndInv
  OBVIOUS
<1>1. TypeOK
  <2>1. kept \in BOOLEAN /\ recursive \in BOOLEAN
    BY CacheAssumption DEF Init
  <2> QED
    BY <2>1, CacheAssumption DEF Init, TypeOK, Entries, NoCall, Pcs, StorePcs, FoundPcs, Counters
<1>2. Linked = {}
  BY DEF Init, Linked
<1>3. \A p \in Proc : pc[p] = "idle" /\ ent[p] = None /\ pos[p] = 0
  BY DEF Init
<1>4. CallShape /\ SmaOwned
  BY <1>3 DEF CallShape, SmaOwned, KeyPcs, StorePcs, FoundPcs, SmaPcs
<1>5. FineOwned
  BY <1>3 DEF Init, FineOwned, FinePcs, ReadPcs
<1>6. BlockOwned /\ BlockPrivate /\ BlockWritten
  BY <1>3 DEF BlockOwned, BlockPrivate, BlockWritten, Private, PrivatePcs, StorePcs
<1>7. WalkPassed /\ AnswerStable
  BY <1>3 DEF WalkPassed, AnswerStable, FoundPcs
<1>8. UniqueKeys
  BY DEF Init, UniqueKeys
<1>9. NoDangling
  BY <1>2 DEF Init, NoDangling, NoCall
<1> QED
  BY <1>1, <1>4, <1>5, <1>6, <1>7, <1>8, <1>9 DEF IndInv

\* Every step of the cache keeps the whole invariant.
LEMMA IndInvStep == IndInv /\ [Next]_vars => IndInv'
<1> SUFFICES ASSUME IndInv, [Next]_vars PROVE IndInv'
  OBVIOUS
<1>1. /\ TypeOK /\ CallShape /\ SmaOwned /\ FineOwned /\ BlockOwned
      /\ BlockPrivate /\ BlockWritten /\ NoDangling
  BY DEF IndInv
<1>2. TypeOK' /\ CallShape' /\ SmaOwned' /\ FineOwned'
  BY <1>1, TypeStep, CallShapeStep, SmaOwnedStep, FineOwnedStep
<1>3. BlockOwned' /\ BlockPrivate' /\ BlockWritten'
  BY <1>1, BlockOwnedStep, BlockPrivateStep, BlockWrittenStep
<1>4. WalkPassed' /\ AnswerStable' /\ UniqueKeys' /\ NoDangling'
  BY WalkPassedStep, AnswerStableStep, UniqueKeysStep, NoDanglingStep
<1> QED
  BY <1>2, <1>3, <1>4 DEF IndInv

-----------------------------------------------------------------------------
(* The theorems.                                                             *)

\* The inductive invariant holds of any number of workers, keys, values,
\* blocks, slots and locks, with rwlocks or mutexes, whatever fails or dies.
THEOREM Invariance == Spec => []IndInv
  BY InitInv, IndInvStep, PTL DEF Spec

\* Variables keep their types.
THEOREM TypeCorrect == Spec => []TypeOK
<1>1. IndInv => TypeOK
  BY DEF IndInv
<1> QED
  BY <1>1, Invariance, PTL

\* Two adds of one key never both succeed: the table holds at most one entry
\* per key, in the chain of its slot (wlocked_insert_exclusive).
THEOREM KeysUnique == Spec => []UniqueKeys
<1>1. IndInv => UniqueKeys
  BY DEF IndInv
<1> QED
  BY <1>1, Invariance, PTL

\* No entry, request or pending add points into freed memory, although values
\* are shared without copying and refused entries are freed (free_entry).
THEOREM NothingDangles == Spec => []NoDangling
<1>1. IndInv => NoDangling
  BY DEF IndInv
<1> QED
  BY <1>1, Invariance, PTL

\* A read that has released its lock still uses the entry of its key, and a
\* read that misses is right while it holds its lock, although adds to the
\* same chain under other locks run at the same time (cache_fetch).
THEOREM AnswersStable == Spec => []AnswerStable
<1>1. IndInv => AnswerStable
  BY DEF IndInv
<1> QED
  BY <1>1, Invariance, PTL

\* What the table holds is never unlinked, moved, overwritten or freed.
THEOREM NeverTakenBack == Spec => Immutable
<1>1. IndInv /\ [Next]_vars => [EntriesStay]_vars
  <2> SUFFICES ASSUME IndInv, [Next]_vars, NEW s \in Slot
               PROVE /\ Len(chain[s]) <= Len(chain'[s])
                     /\ Len(chain'[s]) <= Len(chain[s]) + 1
                     /\ \A i \in DOMAIN chain[s] :
                          /\ chain'[s][i] = chain[s][i]
                          /\ chain[s][i] \in heap'
                          /\ mem[chain[s][i]].nhits <= mem'[chain[s][i]].nhits
                          /\ mem'[chain[s][i]] =
                               [mem[chain[s][i]] EXCEPT !.nhits = mem'[chain[s][i]].nhits]
    BY DEF EntriesStay
  <2>1. DOMAIN chain[s] = 1 .. Len(chain[s])
    BY DEF IndInv, TypeOK
  <2>2. OnlyHits
    BY EntriesKept DEF IndInv
  <2>3. Linked \subseteq heap'
    BY LinkedMonotone, LinkedOwned
  <2> QED
    BY <2>1, <2>2, <2>3, PrefixKept DEF OnlyHits
<1> QED
  BY <1>1, Invariance, PTL DEF Spec, Immutable

-----------------------------------------------------------------------------
(* The counters of the header.                                               *)

\* cache_info reads under the SMA lock, which excludes its writers.
ReadersLocked ==
  /\ smaW # None => smaR = {}
  /\ \A p \in Proc : pc[p] \in {"i_count", "i_list"} => p \in smaR \/ smaW = p

\* The counters equal the number of linked entries, except between the link
\* and the count of one add; and for good once that add has died there.
Counted ==
  /\ IsFiniteSet(Linked)
  /\ \A p \in Proc : pc[p] = "s_count" =>
       /\ hdr["nentries"] + 1 = Cardinality(Linked)
       /\ hdr["ninserts"] + 1 = Cardinality(Linked)
  /\ smaW # Ghost /\ (\A p \in Proc : pc[p] # "s_count") =>
       /\ hdr["nentries"] = Cardinality(Linked)
       /\ hdr["ninserts"] = Cardinality(Linked)
  /\ \A p \in Proc : pc[p] = "i_list" => reg[p] = hdr["nentries"]

CountInv == IndInv /\ ReadersLocked /\ Counted

\* Readers and writers of the SMA lock exclude each other.
LEMMA ReadersLockedStep ==
  ASSUME TypeOK, SmaOwned, ReadersLocked, [Next]_vars PROVE ReadersLocked'
<1>a. pc \in [Proc -> Pcs]
  BY DEF TypeOK
<1>b. None \notin Proc /\ Ghost \notin Proc /\ None # Ghost
  BY CacheAssumption
<1> USE <1>a, <1>b DEF SmaOwned, ReadersLocked, Goto, SmaPcs, FreeForWriter, FreeForReader, SmaAgain,
    locks, shared, local, bounds
<1>1. ASSUME NEW p \in Proc, Begin(p) PROVE ReadersLocked'
  BY <1>1 DEF Begin, CallAdd, CallRead, CallInfo, CallSmaInfo, NoCall
<1>2. ASSUME NEW p \in Proc, Return(p) PROVE ReadersLocked'
  BY <1>2 DEF Return, NoCall
<1>3. ASSUME NEW p \in Proc, EndRequest(p) PROVE ReadersLocked'
  BY <1>3 DEF EndRequest
<1>4. ASSUME NEW p \in Proc, PersistCalc(p) PROVE ReadersLocked'
  BY <1>4 DEF PersistCalc
<1>5. ASSUME NEW p \in Proc, MallocLock(p) PROVE ReadersLocked'
  BY <1>5 DEF MallocLock, SMA_LOCK
<1>6. ASSUME NEW p \in Proc, MallocLockFails(p) PROVE ReadersLocked'
  BY <1>6 DEF MallocLockFails
<1>7. ASSUME NEW p \in Proc, MallocAlloc(p) PROVE ReadersLocked'
  BY <1>7 DEF MallocAlloc, SMA_UNLOCK, NoMemory
<1>8. ASSUME NEW p \in Proc, PersistUnprotect(p) PROVE ReadersLocked'
  BY <1>8 DEF PersistUnprotect
<1>9. ASSUME NEW p \in Proc, PersistCopy(p) PROVE ReadersLocked'
  BY <1>9 DEF PersistCopy, NewEntry
<1>10. ASSUME NEW p \in Proc, WLockSma(p) PROVE ReadersLocked'
  BY <1>10 DEF WLockSma, SMA_LOCK
<1>11. ASSUME NEW p \in Proc, WLockSmaFails(p) PROVE ReadersLocked'
  BY <1>11 DEF WLockSmaFails
<1>12. ASSUME NEW p \in Proc, WLockFine(p) PROVE ReadersLocked'
  BY <1>12 DEF WLockFine, TakeFineLock
<1>13. ASSUME NEW p \in Proc, WLockFineFails(p) PROVE ReadersLocked'
  BY <1>13 DEF WLockFineFails, SMA_UNLOCK
<1>14. ASSUME NEW p \in Proc, InsertExclusive(p) PROVE ReadersLocked'
  BY <1>14 DEF InsertExclusive, LinkAtTail
<1>15. ASSUME NEW p \in Proc, InsertCount(p) PROVE ReadersLocked'
  BY <1>15 DEF InsertCount
<1>16. ASSUME NEW p \in Proc, WUnlockFine(p) PROVE ReadersLocked'
  BY <1>16 DEF WUnlockFine
<1>17. ASSUME NEW p \in Proc, WUnlockSma(p) PROVE ReadersLocked'
  BY <1>17 DEF WUnlockSma, SMA_UNLOCK, FreeIfRefused
<1>18. ASSUME NEW p \in Proc, FreeLock(p) PROVE ReadersLocked'
  BY <1>18 DEF FreeLock, SMA_LOCK
<1>19. ASSUME NEW p \in Proc, FreeLockFails(p) PROVE ReadersLocked'
  BY <1>19 DEF FreeLockFails
<1>20. ASSUME NEW p \in Proc, FreeDealloc(p) PROVE ReadersLocked'
  BY <1>20 DEF FreeDealloc, SMA_UNLOCK
<1>21. ASSUME NEW p \in Proc, RLock(p) PROVE ReadersLocked'
  BY <1>21 DEF RLock
<1>22. ASSUME NEW p \in Proc, RLockFails(p) PROVE ReadersLocked'
  BY <1>22 DEF RLockFails
<1>23. ASSUME NEW p \in Proc, Walk(p) PROVE ReadersLocked'
  BY <1>23 DEF Walk, AfterWalk, NextAfter
<1>24. ASSUME NEW p \in Proc, Count(p) PROVE ReadersLocked'
  BY <1>24 DEF Count, AfterCount
<1>25. ASSUME NEW p \in Proc, CountStore(p) PROVE ReadersLocked'
  BY <1>25 DEF CountStore, AfterCount
<1>26. ASSUME NEW p \in Proc, CountEntry(p) PROVE ReadersLocked'
  BY <1>26 DEF CountEntry
<1>27. ASSUME NEW p \in Proc, RUnlock(p) PROVE ReadersLocked'
  BY <1>27 DEF RUnlock, ReleaseRead
<1>28. ASSUME NEW p \in Proc, Unpersist(p) PROVE ReadersLocked'
  BY <1>28 DEF Unpersist
<1>29. ASSUME NEW p \in Proc, RLockGlobal(p) PROVE ReadersLocked'
  BY <1>29 DEF RLockGlobal, TakeSmaRead
<1>30. ASSUME NEW p \in Proc, RLockGlobalFails(p) PROVE ReadersLocked'
  BY <1>30 DEF RLockGlobalFails
<1>31. ASSUME NEW p \in Proc, InfoCount(p) PROVE ReadersLocked'
  BY <1>31 DEF InfoCount
<1>32. ASSUME NEW p \in Proc, InfoList(p) PROVE ReadersLocked'
  BY <1>32 DEF InfoList
<1>33. ASSUME NEW p \in Proc, SmaInfoLock(p) PROVE ReadersLocked'
  BY <1>33 DEF SmaInfoLock, SMA_LOCK
<1>34. ASSUME NEW p \in Proc, SmaInfoLockFails(p) PROVE ReadersLocked'
  BY <1>34 DEF SmaInfoLockFails
<1>35. ASSUME NEW p \in Proc, SmaInfoUnlock(p) PROVE ReadersLocked'
  BY <1>35 DEF SmaInfoUnlock, SMA_UNLOCK
<1>36. ASSUME NEW p \in Proc, SmaInfoBailout(p) PROVE ReadersLocked'
  BY <1>36 DEF SmaInfoBailout
<1>37. ASSUME NEW p \in Proc, Crash(p) PROVE ReadersLocked'
  BY <1>37 DEF Crash, NoCall
<1>38. ASSUME NEW p \in Proc, UnpersistFails(p) PROVE ReadersLocked'
  BY <1>38 DEF UnpersistFails
<1>90. CASE UNCHANGED vars
  BY <1>90 DEF vars
<1> QED
  BY <1>1, <1>2, <1>3, <1>4, <1>5, <1>6, <1>7, <1>8, <1>9, <1>10, <1>11, <1>12, <1>13,
      <1>14, <1>15, <1>16, <1>17, <1>18, <1>19, <1>20, <1>21, <1>22, <1>23, <1>24, <1>25,
      <1>26, <1>27, <1>28, <1>29, <1>30, <1>31, <1>32, <1>33, <1>34, <1>35, <1>36, <1>37,
      <1>38, <1>90 DEF Next, Step, Store, Read, Info, Done

\* How a step may change what the counters count.
CountRel ==
  /\ \/ \E p \in Proc :
          /\ Links(p) /\ UNCHANGED <<hdr, smaW>>
          /\ \A q \in Proc \ {p} : pc'[q] = pc[q]
     \/ \E p \in Proc :
          /\ pc[p] = "s_count" /\ pc'[p] # "s_count" /\ UNCHANGED <<chain, smaW>>
          /\ hdr'["nentries"] = hdr["nentries"] + 1
          /\ hdr'["ninserts"] = hdr["ninserts"] + 1
          /\ \A q \in Proc \ {p} : pc'[q] = pc[q]
     \/ /\ UNCHANGED chain
        /\ hdr'["nentries"] = hdr["nentries"] /\ hdr'["ninserts"] = hdr["ninserts"]
        /\ smaW = Ghost => smaW' = Ghost
        /\ \A q \in Proc : pc'[q] = "s_count" => pc[q] = "s_count"
        /\ \A q \in Proc : pc[q] = "s_count" /\ pc'[q] # "s_count" => smaW' = Ghost
  /\ \A q \in Proc : pc'[q] = "i_list" =>
       \/ pc[q] = "i_list" /\ reg'[q] = reg[q]
       \/ pc[q] = "i_count" /\ reg'[q] = hdr["nentries"] /\ hdr' = hdr

\* Only a link and its count, or a death between the two, touch the counters.
LEMMA CountStep ==
  ASSUME TypeOK, SmaOwned, [Next]_vars PROVE CountRel
<1>a. pc \in [Proc -> Pcs] /\ DOMAIN reg = Proc /\ hdr \in [Counters -> Nat]
  BY DEF TypeOK
<1>b. None \notin Proc /\ Ghost \notin Proc /\ None # Ghost
  BY CacheAssumption
<1> USE <1>a, <1>b DEF SmaOwned, CountRel, Goto, SmaPcs, FreeForWriter, SmaAgain, Counters,
    locks, shared, local, bounds
<1>1. ASSUME NEW p \in Proc, Begin(p) PROVE CountRel
  BY <1>1 DEF Begin, CallAdd, CallRead, CallInfo, CallSmaInfo, NoCall
<1>2. ASSUME NEW p \in Proc, Return(p) PROVE CountRel
  BY <1>2 DEF Return, NoCall
<1>3. ASSUME NEW p \in Proc, EndRequest(p) PROVE CountRel
  BY <1>3 DEF EndRequest
<1>4. ASSUME NEW p \in Proc, PersistCalc(p) PROVE CountRel
  BY <1>4 DEF PersistCalc
<1>5. ASSUME NEW p \in Proc, MallocLock(p) PROVE CountRel
  BY <1>5 DEF MallocLock, SMA_LOCK
<1>6. ASSUME NEW p \in Proc, MallocLockFails(p) PROVE CountRel
  BY <1>6 DEF MallocLockFails
<1>7. ASSUME NEW p \in Proc, MallocAlloc(p) PROVE CountRel
  BY <1>7 DEF MallocAlloc, SMA_UNLOCK, NoMemory
<1>8. ASSUME NEW p \in Proc, PersistUnprotect(p) PROVE CountRel
  BY <1>8 DEF PersistUnprotect
<1>9. ASSUME NEW p \in Proc, PersistCopy(p) PROVE CountRel
  BY <1>9 DEF PersistCopy, NewEntry
<1>10. ASSUME NEW p \in Proc, WLockSma(p) PROVE CountRel
  BY <1>10 DEF WLockSma, SMA_LOCK
<1>11. ASSUME NEW p \in Proc, WLockSmaFails(p) PROVE CountRel
  BY <1>11 DEF WLockSmaFails
<1>12. ASSUME NEW p \in Proc, WLockFine(p) PROVE CountRel
  BY <1>12 DEF WLockFine, TakeFineLock
<1>13. ASSUME NEW p \in Proc, WLockFineFails(p) PROVE CountRel
  BY <1>13 DEF WLockFineFails, SMA_UNLOCK
<1>14. ASSUME NEW p \in Proc, InsertExclusive(p) PROVE CountRel
  <2>1. CASE UNCHANGED chain /\ Goto(p, "s_wunlock")
    BY <1>14, <2>1 DEF InsertExclusive
  <2>2. CASE Links(p)
    BY <1>14, <2>2 DEF InsertExclusive, Links
  <2> QED
    BY <1>14, <2>1, <2>2 DEF InsertExclusive, Links
<1>15. ASSUME NEW p \in Proc, InsertCount(p) PROVE CountRel
  BY <1>15 DEF InsertCount
<1>16. ASSUME NEW p \in Proc, WUnlockFine(p) PROVE CountRel
  BY <1>16 DEF WUnlockFine
<1>17. ASSUME NEW p \in Proc, WUnlockSma(p) PROVE CountRel
  BY <1>17 DEF WUnlockSma, SMA_UNLOCK, FreeIfRefused
<1>18. ASSUME NEW p \in Proc, FreeLock(p) PROVE CountRel
  BY <1>18 DEF FreeLock, SMA_LOCK
<1>19. ASSUME NEW p \in Proc, FreeLockFails(p) PROVE CountRel
  BY <1>19 DEF FreeLockFails
<1>20. ASSUME NEW p \in Proc, FreeDealloc(p) PROVE CountRel
  BY <1>20 DEF FreeDealloc, SMA_UNLOCK
<1>21. ASSUME NEW p \in Proc, RLock(p) PROVE CountRel
  BY <1>21 DEF RLock
<1>22. ASSUME NEW p \in Proc, RLockFails(p) PROVE CountRel
  BY <1>22 DEF RLockFails
<1>23. ASSUME NEW p \in Proc, Walk(p) PROVE CountRel
  BY <1>23 DEF Walk, AfterWalk, NextAfter
<1>24. ASSUME NEW p \in Proc, Count(p) PROVE CountRel
  BY <1>24 DEF Count, AfterCount, CounterOf
<1>25. ASSUME NEW p \in Proc, CountStore(p) PROVE CountRel
  BY <1>25 DEF CountStore, AfterCount, CounterOf
<1>26. ASSUME NEW p \in Proc, CountEntry(p) PROVE CountRel
  BY <1>26 DEF CountEntry
<1>27. ASSUME NEW p \in Proc, RUnlock(p) PROVE CountRel
  BY <1>27 DEF RUnlock, ReleaseRead
<1>28. ASSUME NEW p \in Proc, Unpersist(p) PROVE CountRel
  BY <1>28 DEF Unpersist
<1>29. ASSUME NEW p \in Proc, RLockGlobal(p) PROVE CountRel
  BY <1>29 DEF RLockGlobal, TakeSmaRead
<1>30. ASSUME NEW p \in Proc, RLockGlobalFails(p) PROVE CountRel
  BY <1>30 DEF RLockGlobalFails
<1>31. ASSUME NEW p \in Proc, InfoCount(p) PROVE CountRel
  BY <1>31 DEF InfoCount
<1>32. ASSUME NEW p \in Proc, InfoList(p) PROVE CountRel
  BY <1>32 DEF InfoList
<1>33. ASSUME NEW p \in Proc, SmaInfoLock(p) PROVE CountRel
  BY <1>33 DEF SmaInfoLock, SMA_LOCK
<1>34. ASSUME NEW p \in Proc, SmaInfoLockFails(p) PROVE CountRel
  BY <1>34 DEF SmaInfoLockFails
<1>35. ASSUME NEW p \in Proc, SmaInfoUnlock(p) PROVE CountRel
  BY <1>35 DEF SmaInfoUnlock, SMA_UNLOCK
<1>36. ASSUME NEW p \in Proc, SmaInfoBailout(p) PROVE CountRel
  BY <1>36 DEF SmaInfoBailout
<1>37. ASSUME NEW p \in Proc, Crash(p) PROVE CountRel
  BY <1>37 DEF Crash, NoCall
<1>38. ASSUME NEW p \in Proc, UnpersistFails(p) PROVE CountRel
  BY <1>38 DEF UnpersistFails
<1>90. CASE UNCHANGED vars
  BY <1>90 DEF vars
<1> QED
  BY <1>1, <1>2, <1>3, <1>4, <1>5, <1>6, <1>7, <1>8, <1>9, <1>10, <1>11, <1>12, <1>13,
      <1>14, <1>15, <1>16, <1>17, <1>18, <1>19, <1>20, <1>21, <1>22, <1>23, <1>24, <1>25,
      <1>26, <1>27, <1>28, <1>29, <1>30, <1>31, <1>32, <1>33, <1>34, <1>35, <1>36, <1>37,
      <1>38, <1>90 DEF Next, Step, Store, Read, Info, Done

\* The counters follow the table.
LEMMA CountedStep ==
  ASSUME CountInv, [Next]_vars PROVE Counted'
<1>a. /\ TypeOK /\ SmaOwned /\ ReadersLocked /\ BlockPrivate
      /\ IsFiniteSet(Linked) /\ Cardinality(Linked) \in Nat
      /\ hdr["nentries"] \in Nat /\ hdr["ninserts"] \in Nat
  BY FS_CardinalityType DEF CountInv, IndInv, Counted, TypeOK, Counters
<1>b. Ghost \notin Proc /\ None \notin Proc
  BY CacheAssumption
<1>c. CountRel
  BY <1>a, CountStep
<1>d. Counted
  BY DEF CountInv
<1>1. ASSUME NEW p \in Proc, Links(p), UNCHANGED <<hdr, smaW>>, \A q \in Proc \ {p} : pc'[q] = pc[q]
      PROVE Counted'
  <2>1. smaW = p /\ pc[p] = "s_insert" /\ pc'[p] = "s_count" /\ ent[p] \notin Linked
    BY <1>a, <1>1 DEF Links, SmaOwned, SmaPcs, BlockPrivate, Private, PrivatePcs, TypeOK
  <2>2. \A q \in Proc : pc[q] # "s_count" /\ (pc'[q] = "s_count" => q = p)
    BY <1>a, <1>1, <2>1 DEF SmaOwned, SmaPcs
  <2>3. hdr["nentries"] = Cardinality(Linked) /\ hdr["ninserts"] = Cardinality(Linked)
    BY <1>b, <1>d, <2>1, <2>2 DEF Counted
  <2>4. Linked' = Linked \cup {ent[p]}
    BY <1>1, LinkedMonotone DEF CountInv
  <2>5. IsFiniteSet(Linked') /\ Cardinality(Linked') = Cardinality(Linked) + 1
    BY <1>a, <2>1, <2>4, FS_AddElement
  <2>6. \A q \in Proc : pc'[q] # "i_list"
    BY <1>a, <1>b, <1>1, <2>1 DEF ReadersLocked
  <2> QED
    BY <1>1, <2>1, <2>2, <2>3, <2>5, <2>6 DEF Counted
<1>2. ASSUME NEW p \in Proc, pc[p] = "s_count", pc'[p] # "s_count", UNCHANGED <<chain, smaW>>,
             hdr'["nentries"] = hdr["nentries"] + 1, hdr'["ninserts"] = hdr["ninserts"] + 1,
             \A q \in Proc \ {p} : pc'[q] = pc[q]
      PROVE Counted'
  <2>1. smaW = p /\ \A q \in Proc : pc'[q] # "s_count"
    BY <1>a, <1>2 DEF SmaOwned, SmaPcs
  <2>2. Linked' = Linked
    BY <1>2, LinkedFrame
  <2>3. \A q \in Proc : pc[q] \notin {"i_count", "i_list"}
    BY <1>a, <1>b, <1>2, <2>1 DEF ReadersLocked
  <2>4. \A q \in Proc : pc'[q] # "i_list"
    BY <1>c, <2>3 DEF CountRel
  <2> QED
    BY <1>a, <1>d, <1>2, <2>1, <2>2, <2>4 DEF Counted
<1>3. ASSUME UNCHANGED chain, hdr'["nentries"] = hdr["nentries"], hdr'["ninserts"] = hdr["ninserts"],
             smaW = Ghost => smaW' = Ghost,
             \A q \in Proc : pc'[q] = "s_count" => pc[q] = "s_count",
             \A q \in Proc : pc[q] = "s_count" /\ pc'[q] # "s_count" => smaW' = Ghost
      PROVE Counted'
  <2>1. Linked' = Linked
    BY <1>3, LinkedFrame
  <2>2. \A q \in Proc : pc'[q] = "i_list" => reg'[q] = hdr'["nentries"]
    BY <1>c, <1>d, <1>3 DEF CountRel, Counted
  <2> QED
    BY <1>d, <1>3, <2>1, <2>2 DEF Counted
<1> QED
  BY <1>c, <1>1, <1>2, <1>3 DEF CountRel

\* What cache_info reports in one call is consistent: the counters agree with
\* the entries it lists, whatever adds run, fail or die meanwhile
\* (immutable_cache_cache_info).
THEOREM InfoIsConsistent == Spec => []InfoConsistent
<1>1. Init => CountInv
  <2> SUFFICES ASSUME Init PROVE ReadersLocked /\ Counted
    BY InitInv DEF CountInv
  <2>1. Linked = {}
    BY DEF Init, Linked
  <2>2. IsFiniteSet(Linked) /\ Cardinality(Linked) = 0
    BY <2>1, FS_EmptySet
  <2> QED
    BY <2>2 DEF Init, ReadersLocked, Counted, Counters
<1>2. CountInv /\ [Next]_vars => CountInv'
  BY IndInvStep, ReadersLockedStep, CountedStep DEF CountInv, IndInv
<1>3. CountInv => InfoConsistent
  <2> SUFFICES ASSUME CountInv, NEW p \in Proc, pc[p] = "i_list"
               PROVE reg[p] = Cardinality(Linked) /\ hdr["ninserts"] = Cardinality(Linked)
    BY DEF InfoConsistent
  <2>1. smaW \in {None, p}
    BY DEF CountInv, ReadersLocked
  <2>2. \A q \in Proc : pc[q] # "s_count"
    BY <2>1, CacheAssumption DEF CountInv, IndInv, SmaOwned, SmaPcs
  <2> QED
    BY <2>1, <2>2, CacheAssumption DEF CountInv, Counted
<1> QED
  BY <1>1, <1>2, <1>3, PTL DEF Spec

-----------------------------------------------------------------------------
(* Memory protection.                                                        *)

\* mprotect acts on the address space: threads that protect memory take the
\* right to write away from each other, so the option is for processes.
ProtectsProcesses == ProtectMemory => ~ZTS

\* From where a worker unprotects memory to its last write it may write; it
\* counts hits only when memory is not protected at all.
WriterPcs == {"s_alloc", "s_copy", "s_fine", "s_insert", "s_count", "s_dealloc"}
Unprotected ==
  /\ ~ProtectMemory => \A p \in Proc : writable[p]
  /\ \A p \in Proc : pc[p] \in WriterPcs => writable[p]
  /\ \A p \in Proc : pc[p] \in {"f_count", "f_store", "f_entry"} => ~ProtectMemory

\* Protecting or unprotecting memory concerns one process, and only if the
\* option is set.
LEMMA SetWritableLocal ==
  ASSUME ProtectsProcesses, TypeOK, NEW p \in Proc, NEW b \in BOOLEAN, SetWritable(p, b)
  PROVE /\ \A q \in Proc \ {p} : writable'[q] = writable[q]
        /\ ~ProtectMemory => writable' = writable
        /\ ProtectMemory => writable'[p] = b
  BY DEF ProtectsProcesses, TypeOK, SetWritable

\* Every write stays between UNPROTECT and PROTECT.
LEMMA UnprotectedStep ==
  ASSUME ProtectsProcesses, TypeOK, Unprotected, [Next]_vars PROVE Unprotected'
<1>a. pc \in [Proc -> Pcs]
  BY DEF TypeOK
<1> USE <1>a DEF Unprotected, WriterPcs, Goto, locks, shared, local, bounds
<1>1. ASSUME NEW p \in Proc, Begin(p) PROVE Unprotected'
  BY <1>1 DEF Begin, CallAdd, CallRead, CallInfo, CallSmaInfo, NoCall
<1>2. ASSUME NEW p \in Proc, Return(p) PROVE Unprotected'
  BY <1>2 DEF Return, NoCall
<1>3. ASSUME NEW p \in Proc, EndRequest(p) PROVE Unprotected'
  BY <1>3 DEF EndRequest
<1>4. ASSUME NEW p \in Proc, PersistCalc(p) PROVE Unprotected'
  BY <1>4 DEF PersistCalc
<1>5. ASSUME NEW p \in Proc, MallocLock(p) PROVE Unprotected'
  <2>1. SetWritable(p, TRUE)
    BY <1>5 DEF MallocLock, SMA_LOCK
  <2> QED
    BY <1>5, <2>1, SetWritableLocal DEF MallocLock, SMA_LOCK
<1>6. ASSUME NEW p \in Proc, MallocLockFails(p) PROVE Unprotected'
  BY <1>6 DEF MallocLockFails
<1>7. ASSUME NEW p \in Proc, MallocAlloc(p) PROVE Unprotected'
  <2>1. SetWritable(p, FALSE)
    BY <1>7 DEF MallocAlloc, SMA_UNLOCK, NoMemory
  <2> QED
    BY <1>7, <2>1, SetWritableLocal DEF MallocAlloc, SMA_UNLOCK, NoMemory
<1>8. ASSUME NEW p \in Proc, PersistUnprotect(p) PROVE Unprotected'
  <2>1. SetWritable(p, TRUE)
    BY <1>8 DEF PersistUnprotect
  <2> QED
    BY <1>8, <2>1, SetWritableLocal DEF PersistUnprotect
<1>9. ASSUME NEW p \in Proc, PersistCopy(p) PROVE Unprotected'
  <2>1. SetWritable(p, FALSE)
    BY <1>9 DEF PersistCopy
  <2> QED
    BY <1>9, <2>1, SetWritableLocal DEF PersistCopy
<1>10. ASSUME NEW p \in Proc, WLockSma(p) PROVE Unprotected'
  <2>1. SetWritable(p, TRUE)
    BY <1>10 DEF WLockSma, SMA_LOCK
  <2> QED
    BY <1>10, <2>1, SetWritableLocal DEF WLockSma, SMA_LOCK
<1>11. ASSUME NEW p \in Proc, WLockSmaFails(p) PROVE Unprotected'
  BY <1>11 DEF WLockSmaFails
<1>12. ASSUME NEW p \in Proc, WLockFine(p) PROVE Unprotected'
  BY <1>12 DEF WLockFine, TakeFineLock
<1>13. ASSUME NEW p \in Proc, WLockFineFails(p) PROVE Unprotected'
  <2>1. SetWritable(p, FALSE)
    BY <1>13 DEF WLockFineFails, SMA_UNLOCK
  <2> QED
    BY <1>13, <2>1, SetWritableLocal DEF WLockFineFails, SMA_UNLOCK
<1>14. ASSUME NEW p \in Proc, InsertExclusive(p) PROVE Unprotected'
  BY <1>14 DEF InsertExclusive, LinkAtTail
<1>15. ASSUME NEW p \in Proc, InsertCount(p) PROVE Unprotected'
  BY <1>15 DEF InsertCount
<1>16. ASSUME NEW p \in Proc, WUnlockFine(p) PROVE Unprotected'
  BY <1>16 DEF WUnlockFine
<1>17. ASSUME NEW p \in Proc, WUnlockSma(p) PROVE Unprotected'
  <2>1. SetWritable(p, FALSE)
    BY <1>17 DEF WUnlockSma, SMA_UNLOCK, FreeIfRefused
  <2> QED
    BY <1>17, <2>1, SetWritableLocal DEF WUnlockSma, SMA_UNLOCK, FreeIfRefused
<1>18. ASSUME NEW p \in Proc, FreeLock(p) PROVE Unprotected'
  <2>1. SetWritable(p, TRUE)
    BY <1>18 DEF FreeLock, SMA_LOCK
  <2> QED
    BY <1>18, <2>1, SetWritableLocal DEF FreeLock, SMA_LOCK
<1>19. ASSUME NEW p \in Proc, FreeLockFails(p) PROVE Unprotected'
  BY <1>19 DEF FreeLockFails
<1>20. ASSUME NEW p \in Proc, FreeDealloc(p) PROVE Unprotected'
  <2>1. SetWritable(p, FALSE)
    BY <1>20 DEF FreeDealloc, SMA_UNLOCK
  <2> QED
    BY <1>20, <2>1, SetWritableLocal DEF FreeDealloc, SMA_UNLOCK
<1>21. ASSUME NEW p \in Proc, RLock(p) PROVE Unprotected'
  BY <1>21 DEF RLock
<1>22. ASSUME NEW p \in Proc, RLockFails(p) PROVE Unprotected'
  BY <1>22 DEF RLockFails
<1>23. ASSUME NEW p \in Proc, Walk(p) PROVE Unprotected'
  BY <1>23 DEF Walk, AfterWalk, NextAfter
<1>24. ASSUME NEW p \in Proc, Count(p) PROVE Unprotected'
  BY <1>24 DEF Count, AfterCount
<1>25. ASSUME NEW p \in Proc, CountStore(p) PROVE Unprotected'
  BY <1>25 DEF CountStore, AfterCount
<1>26. ASSUME NEW p \in Proc, CountEntry(p) PROVE Unprotected'
  BY <1>26 DEF CountEntry
<1>27. ASSUME NEW p \in Proc, RUnlock(p) PROVE Unprotected'
  BY <1>27 DEF RUnlock, ReleaseRead
<1>28. ASSUME NEW p \in Proc, Unpersist(p) PROVE Unprotected'
  BY <1>28 DEF Unpersist
<1>29. ASSUME NEW p \in Proc, RLockGlobal(p) PROVE Unprotected'
  BY <1>29 DEF RLockGlobal, TakeSmaRead
<1>30. ASSUME NEW p \in Proc, RLockGlobalFails(p) PROVE Unprotected'
  BY <1>30 DEF RLockGlobalFails
<1>31. ASSUME NEW p \in Proc, InfoCount(p) PROVE Unprotected'
  BY <1>31 DEF InfoCount
<1>32. ASSUME NEW p \in Proc, InfoList(p) PROVE Unprotected'
  BY <1>32 DEF InfoList
<1>33. ASSUME NEW p \in Proc, SmaInfoLock(p) PROVE Unprotected'
  <2>1. SetWritable(p, TRUE)
    BY <1>33 DEF SmaInfoLock, SMA_LOCK
  <2> QED
    BY <1>33, <2>1, SetWritableLocal DEF SmaInfoLock, SMA_LOCK
<1>34. ASSUME NEW p \in Proc, SmaInfoLockFails(p) PROVE Unprotected'
  BY <1>34 DEF SmaInfoLockFails
<1>35. ASSUME NEW p \in Proc, SmaInfoUnlock(p) PROVE Unprotected'
  <2>1. SetWritable(p, FALSE)
    BY <1>35 DEF SmaInfoUnlock, SMA_UNLOCK
  <2> QED
    BY <1>35, <2>1, SetWritableLocal DEF SmaInfoUnlock, SMA_UNLOCK
<1>36. ASSUME NEW p \in Proc, SmaInfoBailout(p) PROVE Unprotected'
  BY <1>36 DEF SmaInfoBailout
<1>37. ASSUME NEW p \in Proc, Crash(p) PROVE Unprotected'
  <2>1. SetWritable(p, FALSE)
    BY <1>37 DEF Crash
  <2> QED
    BY <1>37, <2>1, SetWritableLocal DEF Crash
<1>38. ASSUME NEW p \in Proc, UnpersistFails(p) PROVE Unprotected'
  BY <1>38 DEF UnpersistFails
<1>90. CASE UNCHANGED vars
  BY <1>90 DEF vars
<1> QED
  BY <1>1, <1>2, <1>3, <1>4, <1>5, <1>6, <1>7, <1>8, <1>9, <1>10, <1>11, <1>12, <1>13,
      <1>14, <1>15, <1>16, <1>17, <1>18, <1>19, <1>20, <1>21, <1>22, <1>23, <1>24, <1>25,
      <1>26, <1>27, <1>28, <1>29, <1>30, <1>31, <1>32, <1>33, <1>34, <1>35, <1>36, <1>37,
      <1>38, <1>90 DEF Next, Step, Store, Read, Info, Done

\* No worker writes to shared memory that it has mapped read-only: every write
\* of a store is between UNPROTECT and PROTECT, and fetch writes no statistics
\* when immutable_cache.protect_memory is set (immutable_cache_sma_protect_memory).
THEOREM NeverFaults == ProtectsProcesses => (Spec => []NoFault)
<1> SUFFICES ASSUME ProtectsProcesses PROVE Spec => []NoFault
  OBVIOUS
<1>1. Init => Unprotected
  BY DEF Init, Unprotected, WriterPcs
<1>2. IndInv /\ Unprotected /\ [Next]_vars => Unprotected'
  BY UnprotectedStep DEF IndInv
<1>3. Unprotected => NoFault
  BY DEF Unprotected, WriterPcs, NoFault
<1> QED
  BY <1>1, <1>2, <1>3, Invariance, PTL DEF Spec

-----------------------------------------------------------------------------
(* Who owns the SMA lock, and who owns a block.                              *)

\* The owner of the SMA lock is inside it: only a bailout inside sma_info
\* leaves with the lock.
SmaInside ==
  /\ ~kept
  /\ \A p \in Proc : smaW = p => pc[p] \in SmaPcs

\* Every way out of the SMA lock releases it, without a bailout.
LEMMA SmaInsideStep ==
  ASSUME ~Bailout, TypeOK, SmaOwned, SmaInside, [Next]_vars PROVE SmaInside'
<1>a. pc \in [Proc -> Pcs]
  BY DEF TypeOK
<1>b. None \notin Proc /\ Ghost \notin Proc
  BY CacheAssumption
<1> USE <1>a, <1>b DEF SmaOwned, SmaInside, Goto, SmaPcs, FreeForWriter, SmaAgain,
    locks, shared, local, bounds
<1>1. ASSUME NEW p \in Proc, Begin(p) PROVE SmaInside'
  BY <1>1 DEF Begin, CallAdd, CallRead, CallInfo, CallSmaInfo, NoCall
<1>2. ASSUME NEW p \in Proc, Return(p) PROVE SmaInside'
  BY <1>2 DEF Return, NoCall
<1>3. ASSUME NEW p \in Proc, EndRequest(p) PROVE SmaInside'
  BY <1>3 DEF EndRequest
<1>4. ASSUME NEW p \in Proc, PersistCalc(p) PROVE SmaInside'
  BY <1>4 DEF PersistCalc
<1>5. ASSUME NEW p \in Proc, MallocLock(p) PROVE SmaInside'
  BY <1>5 DEF MallocLock, SMA_LOCK
<1>6. ASSUME NEW p \in Proc, MallocLockFails(p) PROVE SmaInside'
  BY <1>6 DEF MallocLockFails
<1>7. ASSUME NEW p \in Proc, MallocAlloc(p) PROVE SmaInside'
  BY <1>7 DEF MallocAlloc, SMA_UNLOCK, NoMemory
<1>8. ASSUME NEW p \in Proc, PersistUnprotect(p) PROVE SmaInside'
  BY <1>8 DEF PersistUnprotect
<1>9. ASSUME NEW p \in Proc, PersistCopy(p) PROVE SmaInside'
  BY <1>9 DEF PersistCopy, NewEntry
<1>10. ASSUME NEW p \in Proc, WLockSma(p) PROVE SmaInside'
  BY <1>10 DEF WLockSma, SMA_LOCK
<1>11. ASSUME NEW p \in Proc, WLockSmaFails(p) PROVE SmaInside'
  BY <1>11 DEF WLockSmaFails
<1>12. ASSUME NEW p \in Proc, WLockFine(p) PROVE SmaInside'
  BY <1>12 DEF WLockFine, TakeFineLock
<1>13. ASSUME NEW p \in Proc, WLockFineFails(p) PROVE SmaInside'
  BY <1>13 DEF WLockFineFails, SMA_UNLOCK
<1>14. ASSUME NEW p \in Proc, InsertExclusive(p) PROVE SmaInside'
  BY <1>14 DEF InsertExclusive, LinkAtTail
<1>15. ASSUME NEW p \in Proc, InsertCount(p) PROVE SmaInside'
  BY <1>15 DEF InsertCount
<1>16. ASSUME NEW p \in Proc, WUnlockFine(p) PROVE SmaInside'
  BY <1>16 DEF WUnlockFine
<1>17. ASSUME NEW p \in Proc, WUnlockSma(p) PROVE SmaInside'
  BY <1>17 DEF WUnlockSma, SMA_UNLOCK, FreeIfRefused
<1>18. ASSUME NEW p \in Proc, FreeLock(p) PROVE SmaInside'
  BY <1>18 DEF FreeLock, SMA_LOCK
<1>19. ASSUME NEW p \in Proc, FreeLockFails(p) PROVE SmaInside'
  BY <1>19 DEF FreeLockFails
<1>20. ASSUME NEW p \in Proc, FreeDealloc(p) PROVE SmaInside'
  BY <1>20 DEF FreeDealloc, SMA_UNLOCK
<1>21. ASSUME NEW p \in Proc, RLock(p) PROVE SmaInside'
  BY <1>21 DEF RLock
<1>22. ASSUME NEW p \in Proc, RLockFails(p) PROVE SmaInside'
  BY <1>22 DEF RLockFails
<1>23. ASSUME NEW p \in Proc, Walk(p) PROVE SmaInside'
  BY <1>23 DEF Walk, AfterWalk, NextAfter
<1>24. ASSUME NEW p \in Proc, Count(p) PROVE SmaInside'
  BY <1>24 DEF Count, AfterCount
<1>25. ASSUME NEW p \in Proc, CountStore(p) PROVE SmaInside'
  BY <1>25 DEF CountStore, AfterCount
<1>26. ASSUME NEW p \in Proc, CountEntry(p) PROVE SmaInside'
  BY <1>26 DEF CountEntry
<1>27. ASSUME NEW p \in Proc, RUnlock(p) PROVE SmaInside'
  BY <1>27 DEF RUnlock, ReleaseRead
<1>28. ASSUME NEW p \in Proc, Unpersist(p) PROVE SmaInside'
  BY <1>28 DEF Unpersist
<1>29. ASSUME NEW p \in Proc, RLockGlobal(p) PROVE SmaInside'
  BY <1>29 DEF RLockGlobal, TakeSmaRead
<1>30. ASSUME NEW p \in Proc, RLockGlobalFails(p) PROVE SmaInside'
  BY <1>30 DEF RLockGlobalFails
<1>31. ASSUME NEW p \in Proc, InfoCount(p) PROVE SmaInside'
  BY <1>31 DEF InfoCount
<1>32. ASSUME NEW p \in Proc, InfoList(p) PROVE SmaInside'
  BY <1>32 DEF InfoList
<1>33. ASSUME NEW p \in Proc, SmaInfoLock(p) PROVE SmaInside'
  BY <1>33 DEF SmaInfoLock, SMA_LOCK
<1>34. ASSUME NEW p \in Proc, SmaInfoLockFails(p) PROVE SmaInside'
  BY <1>34 DEF SmaInfoLockFails
<1>35. ASSUME NEW p \in Proc, SmaInfoUnlock(p) PROVE SmaInside'
  BY <1>35 DEF SmaInfoUnlock, SMA_UNLOCK
<1>36. ASSUME NEW p \in Proc, SmaInfoBailout(p) PROVE SmaInside'
  BY <1>36 DEF SmaInfoBailout
<1>37. ASSUME NEW p \in Proc, Crash(p) PROVE SmaInside'
  BY <1>37 DEF Crash, NoCall
<1>38. ASSUME NEW p \in Proc, UnpersistFails(p) PROVE SmaInside'
  BY <1>38 DEF UnpersistFails
<1>90. CASE UNCHANGED vars
  BY <1>90 DEF vars
<1> QED
  BY <1>1, <1>2, <1>3, <1>4, <1>5, <1>6, <1>7, <1>8, <1>9, <1>10, <1>11, <1>12, <1>13,
      <1>14, <1>15, <1>16, <1>17, <1>18, <1>19, <1>20, <1>21, <1>22, <1>23, <1>24, <1>25,
      <1>26, <1>27, <1>28, <1>29, <1>30, <1>31, <1>32, <1>33, <1>34, <1>35, <1>36, <1>37,
      <1>38, <1>90 DEF Next, Step, Store, Read, Info, Done

\* The owner of the SMA lock is inside it in every behaviour without bailout.
LEMMA SmaInsideAlways == ASSUME ~Bailout PROVE Spec => []SmaInside
<1>1. Init => SmaInside
  BY CacheAssumption DEF Init, SmaInside
<1>2. IndInv /\ SmaInside /\ [Next]_vars => SmaInside'
  BY SmaInsideStep DEF IndInv
<1> QED
  BY <1>1, <1>2, Invariance, PTL DEF Spec

\* Without a bailout inside the locked walk of sma_info no worker ever asks for
\* the SMA lock while it owns it, so that locking does not fail with EDEADLK
\* (SMA_LOCK, immutable_cache_lock_wlock).
THEOREM NeverAsksTwice == ~Bailout => (Spec => []LocksNeverFail)
<1> SUFFICES ASSUME ~Bailout PROVE Spec => []LocksNeverFail
  OBVIOUS
<1>1. SmaInside => LocksNeverFail
  BY DEF SmaInside, SmaPcs, LocksNeverFail
<1> QED
  BY <1>1, SmaInsideAlways, PTL

\* Nothing goes wrong on the way: locks are granted, nobody dies and no request
\* is cut off inside the SMA lock.
FaultFree == ~LockMayFail /\ ~Bailout /\ MaxCrashes = 0

\* An add that has succeeded has linked its entry.
Inserted(p) ==
  pc[p] = "s_count" \/ (pc[p] \in {"s_wunlock", "s_sunlock"} /\ res[p] = TRUE)
InsertedLinked == \A p \in Proc : Inserted(p) => ent[p] \in Linked

Storing == {q \in Proc : pc[q] \in StorePcs}
BlocksOwned == \A c \in Cell : c \in heap <=> c \in Linked \/ \E p \in Storing : ent[p] = c

LeakInv == IndInv /\ SmaInside /\ InsertedLinked /\ BlocksOwned

\* How a step may bring a worker to success.
InsertRel ==
  \A p \in Proc : Inserted(p)' => ent'[p] = ent[p] /\ (Inserted(p) \/ Links(p))

\* An add succeeds only by linking its entry.
LEMMA InsertStep ==
  ASSUME TypeOK, CallShape, [Next]_vars PROVE InsertRel
<1>a. pc \in [Proc -> Pcs] /\ DOMAIN ent = Proc /\ DOMAIN res = Proc
  BY DEF TypeOK
<1>b. \A p \in Proc : pc[p] = "s_count" => res[p] = TRUE
  BY DEF CallShape
<1> USE <1>a, <1>b DEF InsertRel, Inserted, Goto, Answer, locks, shared, local, bounds
<1>1. ASSUME NEW p \in Proc, Begin(p) PROVE InsertRel
  BY <1>1 DEF Begin, CallAdd, CallRead, CallInfo, CallSmaInfo, NoCall
<1>2. ASSUME NEW p \in Proc, Return(p) PROVE InsertRel
  BY <1>2 DEF Return, NoCall
<1>3. ASSUME NEW p \in Proc, EndRequest(p) PROVE InsertRel
  BY <1>3 DEF EndRequest
<1>4. ASSUME NEW p \in Proc, PersistCalc(p) PROVE InsertRel
  BY <1>4 DEF PersistCalc
<1>5. ASSUME NEW p \in Proc, MallocLock(p) PROVE InsertRel
  BY <1>5 DEF MallocLock, SMA_LOCK
<1>6. ASSUME NEW p \in Proc, MallocLockFails(p) PROVE InsertRel
  BY <1>6 DEF MallocLockFails
<1>7. ASSUME NEW p \in Proc, MallocAlloc(p) PROVE InsertRel
  BY <1>7 DEF MallocAlloc, SMA_UNLOCK, NoMemory
<1>8. ASSUME NEW p \in Proc, PersistUnprotect(p) PROVE InsertRel
  BY <1>8 DEF PersistUnprotect
<1>9. ASSUME NEW p \in Proc, PersistCopy(p) PROVE InsertRel
  BY <1>9 DEF PersistCopy, NewEntry
<1>10. ASSUME NEW p \in Proc, WLockSma(p) PROVE InsertRel
  BY <1>10 DEF WLockSma, SMA_LOCK
<1>11. ASSUME NEW p \in Proc, WLockSmaFails(p) PROVE InsertRel
  BY <1>11 DEF WLockSmaFails
<1>12. ASSUME NEW p \in Proc, WLockFine(p) PROVE InsertRel
  BY <1>12 DEF WLockFine, TakeFineLock
<1>13. ASSUME NEW p \in Proc, WLockFineFails(p) PROVE InsertRel
  BY <1>13 DEF WLockFineFails, SMA_UNLOCK
<1>14. ASSUME NEW p \in Proc, InsertExclusive(p) PROVE InsertRel
  <2>1. CASE Answer(p, FALSE) /\ Goto(p, "s_wunlock")
    BY <1>14, <2>1 DEF InsertExclusive
  <2>2. CASE Links(p)
    BY <1>14, <2>2 DEF InsertExclusive, Links
  <2> QED
    BY <1>14, <2>1, <2>2 DEF InsertExclusive, Links
<1>15. ASSUME NEW p \in Proc, InsertCount(p) PROVE InsertRel
  BY <1>15 DEF InsertCount
<1>16. ASSUME NEW p \in Proc, WUnlockFine(p) PROVE InsertRel
  BY <1>16 DEF WUnlockFine
<1>17. ASSUME NEW p \in Proc, WUnlockSma(p) PROVE InsertRel
  BY <1>17 DEF WUnlockSma, SMA_UNLOCK, FreeIfRefused
<1>18. ASSUME NEW p \in Proc, FreeLock(p) PROVE InsertRel
  BY <1>18 DEF FreeLock, SMA_LOCK
<1>19. ASSUME NEW p \in Proc, FreeLockFails(p) PROVE InsertRel
  BY <1>19 DEF FreeLockFails
<1>20. ASSUME NEW p \in Proc, FreeDealloc(p) PROVE InsertRel
  BY <1>20 DEF FreeDealloc, SMA_UNLOCK
<1>21. ASSUME NEW p \in Proc, RLock(p) PROVE InsertRel
  BY <1>21 DEF RLock
<1>22. ASSUME NEW p \in Proc, RLockFails(p) PROVE InsertRel
  BY <1>22 DEF RLockFails
<1>23. ASSUME NEW p \in Proc, Walk(p) PROVE InsertRel
  BY <1>23 DEF Walk, AfterWalk, NextAfter
<1>24. ASSUME NEW p \in Proc, Count(p) PROVE InsertRel
  BY <1>24 DEF Count, AfterCount
<1>25. ASSUME NEW p \in Proc, CountStore(p) PROVE InsertRel
  BY <1>25 DEF CountStore, AfterCount
<1>26. ASSUME NEW p \in Proc, CountEntry(p) PROVE InsertRel
  BY <1>26 DEF CountEntry
<1>27. ASSUME NEW p \in Proc, RUnlock(p) PROVE InsertRel
  BY <1>27 DEF RUnlock, ReleaseRead
<1>28. ASSUME NEW p \in Proc, Unpersist(p) PROVE InsertRel
  BY <1>28 DEF Unpersist
<1>29. ASSUME NEW p \in Proc, RLockGlobal(p) PROVE InsertRel
  BY <1>29 DEF RLockGlobal, TakeSmaRead
<1>30. ASSUME NEW p \in Proc, RLockGlobalFails(p) PROVE InsertRel
  BY <1>30 DEF RLockGlobalFails
<1>31. ASSUME NEW p \in Proc, InfoCount(p) PROVE InsertRel
  BY <1>31 DEF InfoCount
<1>32. ASSUME NEW p \in Proc, InfoList(p) PROVE InsertRel
  BY <1>32 DEF InfoList
<1>33. ASSUME NEW p \in Proc, SmaInfoLock(p) PROVE InsertRel
  BY <1>33 DEF SmaInfoLock, SMA_LOCK
<1>34. ASSUME NEW p \in Proc, SmaInfoLockFails(p) PROVE InsertRel
  BY <1>34 DEF SmaInfoLockFails
<1>35. ASSUME NEW p \in Proc, SmaInfoUnlock(p) PROVE InsertRel
  BY <1>35 DEF SmaInfoUnlock, SMA_UNLOCK
<1>36. ASSUME NEW p \in Proc, SmaInfoBailout(p) PROVE InsertRel
  BY <1>36 DEF SmaInfoBailout
<1>37. ASSUME NEW p \in Proc, Crash(p) PROVE InsertRel
  BY <1>37 DEF Crash, NoCall
<1>38. ASSUME NEW p \in Proc, UnpersistFails(p) PROVE InsertRel
  BY <1>38 DEF UnpersistFails
<1>90. CASE UNCHANGED vars
  BY <1>90 DEF vars
<1> QED
  BY <1>1, <1>2, <1>3, <1>4, <1>5, <1>6, <1>7, <1>8, <1>9, <1>10, <1>11, <1>12, <1>13,
      <1>14, <1>15, <1>16, <1>17, <1>18, <1>19, <1>20, <1>21, <1>22, <1>23, <1>24, <1>25,
      <1>26, <1>27, <1>28, <1>29, <1>30, <1>31, <1>32, <1>33, <1>34, <1>35, <1>36, <1>37,
      <1>38, <1>90 DEF Next, Step, Store, Read, Info, Done

\* How a step may change the heap and who stores into it.
SameStores == 
  /\ UNCHANGED heap
  /\ \A q \in Proc : (pc'[q] \in StorePcs <=> pc[q] \in StorePcs)
  /\ \A q \in Proc : pc[q] \in StorePcs => ent'[q] = ent[q]
OtherStores(p) ==
  \A q \in Proc \ {p} : pc'[q] = pc[q] /\ ent'[q] = ent[q]
Allocates(p) ==
  /\ pc[p] \notin StorePcs /\ pc'[p] \in StorePcs
  /\ heap' = heap \cup {ent'[p]} /\ OtherStores(p)
Frees(p) ==
  /\ pc[p] = "s_dealloc" /\ pc'[p] \notin StorePcs
  /\ heap' = heap \ {ent[p]} /\ OtherStores(p)
Leaves(p) ==
  /\ Inserted(p) /\ pc'[p] \notin StorePcs
  /\ UNCHANGED heap /\ OtherStores(p)
StoreRel == SameStores \/ \E p \in Proc : Allocates(p) \/ Frees(p) \/ Leaves(p)

\* Blocks are taken by an allocation and given back by a free, or linked.
LEMMA StoreStep ==
  ASSUME FaultFree, TypeOK, SmaInside, [Next]_vars PROVE StoreRel
<1>a. pc \in [Proc -> Pcs] /\ DOMAIN ent = Proc /\ crashes \in 0 .. MaxCrashes
  BY DEF TypeOK
<1>b. \A p \in Proc : pc[p] \notin SmaPcs => ~SmaLockFails(p)
  BY DEF FaultFree, SmaInside, SmaLockFails, Deadlocks
<1> USE <1>a, <1>b DEF StoreRel, SameStores, StorePcs, Goto, locks, shared, local, bounds
<1>1. ASSUME NEW p \in Proc, Begin(p) PROVE StoreRel
  BY <1>1 DEF Begin, CallAdd, CallRead, CallInfo, CallSmaInfo, NoCall
<1>2. ASSUME NEW p \in Proc, Return(p) PROVE StoreRel
  BY <1>2 DEF Return, NoCall
<1>3. ASSUME NEW p \in Proc, EndRequest(p) PROVE StoreRel
  BY <1>3 DEF EndRequest
<1>4. ASSUME NEW p \in Proc, PersistCalc(p) PROVE StoreRel
  BY <1>4 DEF PersistCalc
<1>5. ASSUME NEW p \in Proc, MallocLock(p) PROVE StoreRel
  BY <1>5 DEF MallocLock, SMA_LOCK
<1>6. ASSUME NEW p \in Proc, MallocLockFails(p) PROVE StoreRel
  BY <1>6 DEF MallocLockFails
<1>7. ASSUME NEW p \in Proc, MallocAlloc(p) PROVE StoreRel
  <2>1. CASE NoMemory(p)
    BY <1>7, <2>1 DEF MallocAlloc, NoMemory
  <2>2. ASSUME NEW c \in Cell \ heap, heap' = heap \cup {c}, ent' = [ent EXCEPT ![p] = c], Goto(p, "s_unprot")
        PROVE Allocates(p)
    BY <1>7, <2>2 DEF MallocAlloc, Allocates, OtherStores
  <2> QED
    BY <1>7, <2>1, <2>2 DEF MallocAlloc
<1>8. ASSUME NEW p \in Proc, PersistUnprotect(p) PROVE StoreRel
  BY <1>8 DEF PersistUnprotect
<1>9. ASSUME NEW p \in Proc, PersistCopy(p) PROVE StoreRel
  BY <1>9 DEF PersistCopy, NewEntry
<1>10. ASSUME NEW p \in Proc, WLockSma(p) PROVE StoreRel
  BY <1>10 DEF WLockSma, SMA_LOCK
<1>11. ASSUME NEW p \in Proc, WLockSmaFails(p) PROVE StoreRel
  BY <1>11 DEF WLockSmaFails
<1>12. ASSUME NEW p \in Proc, WLockFine(p) PROVE StoreRel
  BY <1>12 DEF WLockFine, TakeFineLock
<1>13. ASSUME NEW p \in Proc, WLockFineFails(p) PROVE StoreRel
  BY <1>13 DEF WLockFineFails, SMA_UNLOCK
<1>14. ASSUME NEW p \in Proc, InsertExclusive(p) PROVE StoreRel
  BY <1>14 DEF InsertExclusive, LinkAtTail
<1>15. ASSUME NEW p \in Proc, InsertCount(p) PROVE StoreRel
  BY <1>15 DEF InsertCount
<1>16. ASSUME NEW p \in Proc, WUnlockFine(p) PROVE StoreRel
  BY <1>16 DEF WUnlockFine
<1>17. ASSUME NEW p \in Proc, WUnlockSma(p) PROVE StoreRel
  <2>1. CASE res[p] = TRUE
    BY <1>17, <2>1 DEF WUnlockSma, FreeIfRefused, Leaves, Inserted, OtherStores
  <2>2. CASE res[p] # TRUE
    BY <1>17, <2>2 DEF WUnlockSma, FreeIfRefused
  <2> QED
    BY <2>1, <2>2
<1>18. ASSUME NEW p \in Proc, FreeLock(p) PROVE StoreRel
  BY <1>18 DEF FreeLock, SMA_LOCK
<1>19. ASSUME NEW p \in Proc, FreeLockFails(p) PROVE StoreRel
  BY <1>19 DEF FreeLockFails, SmaPcs
<1>20. ASSUME NEW p \in Proc, FreeDealloc(p) PROVE StoreRel
  BY <1>20 DEF FreeDealloc, Frees, OtherStores
<1>21. ASSUME NEW p \in Proc, RLock(p) PROVE StoreRel
  BY <1>21 DEF RLock
<1>22. ASSUME NEW p \in Proc, RLockFails(p) PROVE StoreRel
  BY <1>22 DEF RLockFails
<1>23. ASSUME NEW p \in Proc, Walk(p) PROVE StoreRel
  BY <1>23 DEF Walk, AfterWalk, NextAfter
<1>24. ASSUME NEW p \in Proc, Count(p) PROVE StoreRel
  BY <1>24 DEF Count, AfterCount
<1>25. ASSUME NEW p \in Proc, CountStore(p) PROVE StoreRel
  BY <1>25 DEF CountStore, AfterCount
<1>26. ASSUME NEW p \in Proc, CountEntry(p) PROVE StoreRel
  BY <1>26 DEF CountEntry
<1>27. ASSUME NEW p \in Proc, RUnlock(p) PROVE StoreRel
  BY <1>27 DEF RUnlock, ReleaseRead
<1>28. ASSUME NEW p \in Proc, Unpersist(p) PROVE StoreRel
  BY <1>28 DEF Unpersist
<1>29. ASSUME NEW p \in Proc, RLockGlobal(p) PROVE StoreRel
  BY <1>29 DEF RLockGlobal, TakeSmaRead
<1>30. ASSUME NEW p \in Proc, RLockGlobalFails(p) PROVE StoreRel
  BY <1>30 DEF RLockGlobalFails
<1>31. ASSUME NEW p \in Proc, InfoCount(p) PROVE StoreRel
  BY <1>31 DEF InfoCount
<1>32. ASSUME NEW p \in Proc, InfoList(p) PROVE StoreRel
  BY <1>32 DEF InfoList
<1>33. ASSUME NEW p \in Proc, SmaInfoLock(p) PROVE StoreRel
  BY <1>33 DEF SmaInfoLock, SMA_LOCK
<1>34. ASSUME NEW p \in Proc, SmaInfoLockFails(p) PROVE StoreRel
  BY <1>34 DEF SmaInfoLockFails
<1>35. ASSUME NEW p \in Proc, SmaInfoUnlock(p) PROVE StoreRel
  BY <1>35 DEF SmaInfoUnlock, SMA_UNLOCK
<1>36. ASSUME NEW p \in Proc, SmaInfoBailout(p) PROVE StoreRel
  BY <1>36 DEF SmaInfoBailout
<1>37. ASSUME NEW p \in Proc, Crash(p) PROVE StoreRel
  BY <1>37 DEF Crash, FaultFree
<1>38. ASSUME NEW p \in Proc, UnpersistFails(p) PROVE StoreRel
  BY <1>38 DEF UnpersistFails
<1>90. CASE UNCHANGED vars
  BY <1>90 DEF vars
<1> QED
  BY <1>1, <1>2, <1>3, <1>4, <1>5, <1>6, <1>7, <1>8, <1>9, <1>10, <1>11, <1>12, <1>13,
      <1>14, <1>15, <1>16, <1>17, <1>18, <1>19, <1>20, <1>21, <1>22, <1>23, <1>24, <1>25,
      <1>26, <1>27, <1>28, <1>29, <1>30, <1>31, <1>32, <1>33, <1>34, <1>35, <1>36, <1>37,
      <1>38, <1>90 DEF Next, Step, Store, Read, Info, Done

\* The entries of the heap are accounted for.
LEMMA LeakStep ==
  ASSUME FaultFree, LeakInv, [Next]_vars PROVE InsertedLinked' /\ BlocksOwned'
<1>a. TypeOK /\ CallShape /\ BlockOwned /\ BlockPrivate /\ SmaInside /\ InsertedLinked /\ BlocksOwned
  BY DEF LeakInv, IndInv
<1>b. /\ Linked \subseteq Linked'
      /\ UNCHANGED chain => Linked' = Linked
      /\ \A p \in Proc : Links(p) => Linked' = Linked \cup {ent[p]}
  BY LinkedMonotone DEF LeakInv
<1>1. InsertedLinked'
  BY <1>a, <1>b, InsertStep DEF InsertRel, InsertedLinked
<1>2. StoreRel
  BY <1>a, StoreStep
<1>3. ASSUME NEW p \in Proc, Links(p) PROVE BlocksOwned'
  <2>1. pc[p] = "s_insert" /\ pc' = [pc EXCEPT ![p] = "s_count"] /\ UNCHANGED <<heap, ent>>
    BY <1>3 DEF Links
  <2>2. Storing' = Storing /\ p \in Storing
    BY <1>a, <2>1 DEF Storing, StorePcs, TypeOK
  <2> QED
    BY <1>a, <1>b, <1>3, <2>1, <2>2 DEF BlocksOwned
<1>4. ASSUME UNCHANGED chain, SameStores PROVE BlocksOwned'
  <2>1. Storing' = Storing /\ \A q \in Storing : ent'[q] = ent[q]
    BY <1>4 DEF SameStores, Storing
  <2> QED
    BY <1>a, <1>b, <1>4, <2>1 DEF BlocksOwned, SameStores
<1>5. ASSUME UNCHANGED chain, NEW p \in Proc, Allocates(p) PROVE BlocksOwned'
  <2>1. Storing' = Storing \cup {p} /\ p \notin Storing /\ \A q \in Storing : ent'[q] = ent[q]
    BY <1>5 DEF Allocates, OtherStores, Storing
  <2> QED
    BY <1>a, <1>b, <1>5, <2>1 DEF BlocksOwned, Allocates
<1>6. ASSUME UNCHANGED chain, NEW p \in Proc, Frees(p) PROVE BlocksOwned'
  <2>1. Storing' = Storing \ {p} /\ p \in Storing /\ \A q \in Storing' : ent'[q] = ent[q]
    BY <1>6 DEF Frees, OtherStores, Storing, StorePcs
  <2>2. ent[p] \notin Linked /\ \A q \in Storing' : ent[q] # ent[p]
    BY <1>a, <1>6, <2>1 DEF Frees, Storing, BlockOwned, BlockPrivate, Private, PrivatePcs
  <2> QED
    BY <1>a, <1>b, <1>6, <2>1, <2>2 DEF BlocksOwned, Frees
<1>7. ASSUME UNCHANGED chain, NEW p \in Proc, Leaves(p) PROVE BlocksOwned'
  <2>1. Storing' = Storing \ {p} /\ \A q \in Storing' : ent'[q] = ent[q]
    BY <1>7 DEF Leaves, OtherStores, Storing
  <2>2. ent[p] \in Linked
    BY <1>a, <1>7 DEF Leaves, InsertedLinked
  <2> QED
    BY <1>a, <1>b, <1>7, <2>1, <2>2 DEF BlocksOwned, Leaves
<1> QED
  BY <1>1, <1>2, <1>3, <1>4, <1>5, <1>6, <1>7, ChainStep DEF StoreRel

\* No block is lost and none is owned twice: every block of the heap is in the
\* table or in the hands of the one add that is storing it, so that a refused
\* add gives its block back exactly once (free_entry).  Where locks fail or a
\* worker dies, blocks may be lost; NoDangling holds there too.
THEOREM NothingLeaks == FaultFree => (Spec => []NoLeak)
<1> SUFFICES ASSUME FaultFree PROVE Spec => []NoLeak
  OBVIOUS
<1>1. Init => InsertedLinked /\ BlocksOwned
  <2> SUFFICES ASSUME Init PROVE InsertedLinked /\ BlocksOwned
    OBVIOUS
  <2>1. Linked = {} /\ Storing = {} /\ heap = {} /\ \A p \in Proc : ~Inserted(p)
    BY DEF Init, Linked, Storing, StorePcs, Inserted
  <2> QED
    BY <2>1 DEF InsertedLinked, BlocksOwned
<1>2. IndInv /\ SmaInside /\ InsertedLinked /\ BlocksOwned /\ [Next]_vars
        => InsertedLinked' /\ BlocksOwned'
  BY LeakStep DEF LeakInv
<1>3. IndInv /\ BlocksOwned => NoLeak
  <2> SUFFICES ASSUME IndInv, BlocksOwned PROVE NoLeak
    OBVIOUS
  <2>1. heap \subseteq Cell /\ Linked \subseteq Cell /\ \A p \in Storing : ent[p] \in heap
    BY DEF IndInv, TypeOK, Linked, BlockOwned, Storing
  <2>2. heap = Linked \cup {ent[p] : p \in Storing}
    BY <2>1 DEF BlocksOwned
  <2> QED
    BY <2>2 DEF IndInv, BlockOwned, Storing, NoLeak
<1>4. Spec => []SmaInside
  BY SmaInsideAlways DEF FaultFree
<1> QED
  BY <1>1, <1>2, <1>3, <1>4, Invariance, PTL DEF Spec

-----------------------------------------------------------------------------
(* Hits.                                                                     *)

\* An add links an entry that nobody has hit yet.
FreshPcs == {"s_wlock", "s_fine", "s_insert"}

\* In a build whose increments are atomic, the header is ahead of the entries by
\* the fetches between the two increments, and by those that died there.
HitsBounded == HitsSeen <= hdr["nhits"] /\ hdr["nhits"] <= HitsSeen + crashes

HitsInv ==
  /\ ~recursive
  /\ \A p \in Proc : pc[p] # "f_store"
  /\ \A p \in Proc : pc[p] \in FreshPcs => mem[ent[p]].nhits = 0
  /\ IsFiniteSet(Units(HitsOf, Linked)) /\ IsFiniteSet(Counting)
  /\ HitsBounded

\* How a step may change what the hits count.
OtherPcs(p) == \A q \in Proc \ {p} : pc'[q] = pc[q]
HitsRel ==
  /\ UNCHANGED recursive /\ \A q \in Proc : pc'[q] # "f_store"
  /\ \A q \in Proc : pc'[q] \in FreshPcs =>
       PersistCopy(q) \/ (pc[q] \in FreshPcs /\ ent'[q] = ent[q])
  /\ \/ \E p \in Proc :
          /\ pc[p] = "f_count" /\ pc'[p] = "f_entry" /\ OtherPcs(p)
          /\ hdr'["nhits"] = hdr["nhits"] + 1 /\ UNCHANGED <<chain, mem, crashes>>
     \/ \E p \in Proc :
          CountEntry(p) /\ pc'[p] = "f_runlock" /\ OtherPcs(p)
     \/ \E p \in Proc : Links(p) /\ UNCHANGED <<hdr, crashes>> /\ OtherPcs(p)
     \/ \E p \in Proc :
          PersistCopy(p) /\ pc'[p] = "s_wlock" /\ OtherPcs(p)
     \/ \E p \in Proc :
          /\ pc'[p] = "idle" /\ OtherPcs(p) /\ crashes' = crashes + 1
          /\ UNCHANGED <<chain, mem, hdr>>
     \/ /\ hdr'["nhits"] = hdr["nhits"] /\ UNCHANGED <<chain, mem, crashes>>
        /\ \A q \in Proc : pc'[q] = "f_entry" <=> pc[q] = "f_entry"

\* Only a hit, its count in the entry, a link, a copy and a death matter to them.
LEMMA HitsStep ==
  ASSUME TypeOK, CallShape, HitsInv, [Next]_vars PROVE HitsRel
<1>a. /\ pc \in [Proc -> Pcs] /\ DOMAIN ent = Proc /\ hdr \in [Counters -> Nat]
      /\ ~recursive /\ \A p \in Proc : pc[p] # "f_store"
  BY DEF TypeOK, HitsInv
<1> USE <1>a DEF HitsRel, OtherPcs, FreshPcs, Goto, Counters, locks, shared, local, bounds
<1>1. ASSUME NEW p \in Proc, Begin(p) PROVE HitsRel
  BY <1>1 DEF Begin, CallAdd, CallRead, CallInfo, CallSmaInfo, NoCall
<1>2. ASSUME NEW p \in Proc, Return(p) PROVE HitsRel
  BY <1>2 DEF Return, NoCall
<1>3. ASSUME NEW p \in Proc, EndRequest(p) PROVE HitsRel
  BY <1>3 DEF EndRequest
<1>4. ASSUME NEW p \in Proc, PersistCalc(p) PROVE HitsRel
  BY <1>4 DEF PersistCalc
<1>5. ASSUME NEW p \in Proc, MallocLock(p) PROVE HitsRel
  BY <1>5 DEF MallocLock, SMA_LOCK
<1>6. ASSUME NEW p \in Proc, MallocLockFails(p) PROVE HitsRel
  BY <1>6 DEF MallocLockFails
<1>7. ASSUME NEW p \in Proc, MallocAlloc(p) PROVE HitsRel
  BY <1>7 DEF MallocAlloc, SMA_UNLOCK, NoMemory
<1>8. ASSUME NEW p \in Proc, PersistUnprotect(p) PROVE HitsRel
  BY <1>8 DEF PersistUnprotect
<1>9. ASSUME NEW p \in Proc, PersistCopy(p) PROVE HitsRel
  BY <1>9 DEF PersistCopy, NewEntry
<1>10. ASSUME NEW p \in Proc, WLockSma(p) PROVE HitsRel
  BY <1>10 DEF WLockSma, SMA_LOCK
<1>11. ASSUME NEW p \in Proc, WLockSmaFails(p) PROVE HitsRel
  BY <1>11 DEF WLockSmaFails
<1>12. ASSUME NEW p \in Proc, WLockFine(p) PROVE HitsRel
  BY <1>12 DEF WLockFine, TakeFineLock
<1>13. ASSUME NEW p \in Proc, WLockFineFails(p) PROVE HitsRel
  BY <1>13 DEF WLockFineFails, SMA_UNLOCK
<1>14. ASSUME NEW p \in Proc, InsertExclusive(p) PROVE HitsRel
  <2>1. CASE UNCHANGED chain /\ Goto(p, "s_wunlock")
    BY <1>14, <2>1 DEF InsertExclusive
  <2>2. CASE Links(p)
    BY <1>14, <2>2 DEF InsertExclusive, Links
  <2> QED
    BY <1>14, <2>1, <2>2 DEF InsertExclusive, Links
<1>15. ASSUME NEW p \in Proc, InsertCount(p) PROVE HitsRel
  BY <1>15 DEF InsertCount
<1>16. ASSUME NEW p \in Proc, WUnlockFine(p) PROVE HitsRel
  BY <1>16 DEF WUnlockFine
<1>17. ASSUME NEW p \in Proc, WUnlockSma(p) PROVE HitsRel
  BY <1>17 DEF WUnlockSma, SMA_UNLOCK, FreeIfRefused
<1>18. ASSUME NEW p \in Proc, FreeLock(p) PROVE HitsRel
  BY <1>18 DEF FreeLock, SMA_LOCK
<1>19. ASSUME NEW p \in Proc, FreeLockFails(p) PROVE HitsRel
  BY <1>19 DEF FreeLockFails
<1>20. ASSUME NEW p \in Proc, FreeDealloc(p) PROVE HitsRel
  BY <1>20 DEF FreeDealloc, SMA_UNLOCK
<1>21. ASSUME NEW p \in Proc, RLock(p) PROVE HitsRel
  BY <1>21 DEF RLock
<1>22. ASSUME NEW p \in Proc, RLockFails(p) PROVE HitsRel
  BY <1>22 DEF RLockFails
<1>23. ASSUME NEW p \in Proc, Walk(p) PROVE HitsRel
  BY <1>23 DEF Walk, AfterWalk, NextAfter
<1>24. ASSUME NEW p \in Proc, Count(p) PROVE HitsRel
  BY <1>24 DEF Count, AfterCount, CounterOf, PlainIncrement
<1>25. ASSUME NEW p \in Proc, CountStore(p) PROVE HitsRel
  BY <1>25 DEF CountStore, AfterCount, CounterOf
<1>26. ASSUME NEW p \in Proc, CountEntry(p) PROVE HitsRel
  BY <1>26 DEF CountEntry
<1>27. ASSUME NEW p \in Proc, RUnlock(p) PROVE HitsRel
  BY <1>27 DEF RUnlock, ReleaseRead
<1>28. ASSUME NEW p \in Proc, Unpersist(p) PROVE HitsRel
  BY <1>28 DEF Unpersist
<1>29. ASSUME NEW p \in Proc, RLockGlobal(p) PROVE HitsRel
  BY <1>29 DEF RLockGlobal, TakeSmaRead
<1>30. ASSUME NEW p \in Proc, RLockGlobalFails(p) PROVE HitsRel
  BY <1>30 DEF RLockGlobalFails
<1>31. ASSUME NEW p \in Proc, InfoCount(p) PROVE HitsRel
  BY <1>31 DEF InfoCount
<1>32. ASSUME NEW p \in Proc, InfoList(p) PROVE HitsRel
  BY <1>32 DEF InfoList
<1>33. ASSUME NEW p \in Proc, SmaInfoLock(p) PROVE HitsRel
  BY <1>33 DEF SmaInfoLock, SMA_LOCK
<1>34. ASSUME NEW p \in Proc, SmaInfoLockFails(p) PROVE HitsRel
  BY <1>34 DEF SmaInfoLockFails
<1>35. ASSUME NEW p \in Proc, SmaInfoUnlock(p) PROVE HitsRel
  BY <1>35 DEF SmaInfoUnlock, SMA_UNLOCK
<1>36. ASSUME NEW p \in Proc, SmaInfoBailout(p) PROVE HitsRel
  BY <1>36 DEF SmaInfoBailout
<1>37. ASSUME NEW p \in Proc, Crash(p) PROVE HitsRel
  BY <1>37 DEF Crash, NoCall
<1>38. ASSUME NEW p \in Proc, UnpersistFails(p) PROVE HitsRel
  BY <1>38 DEF UnpersistFails
<1>90. CASE UNCHANGED vars
  BY <1>90 DEF vars
<1> QED
  BY <1>1, <1>2, <1>3, <1>4, <1>5, <1>6, <1>7, <1>8, <1>9, <1>10, <1>11, <1>12, <1>13,
      <1>14, <1>15, <1>16, <1>17, <1>18, <1>19, <1>20, <1>21, <1>22, <1>23, <1>24, <1>25,
      <1>26, <1>27, <1>28, <1>29, <1>30, <1>31, <1>32, <1>33, <1>34, <1>35, <1>36, <1>37,
      <1>38, <1>90 DEF Next, Step, Store, Read, Info, Done

\* The units of a sum (module Sums) depend on its terms only, a term that is 0
\* has none, and a term that grows by one adds one.
LEMMA UnitsStay ==
  ASSUME NEW S, NEW f, NEW g, \A x \in S : g[x] = f[x]
  PROVE  Units(g, S) = Units(f, S)
  BY DEF Units

LEMMA UnitsFresh ==
  ASSUME NEW S, NEW f, NEW x, f[x] = 0
  PROVE  Units(f, S \cup {x}) = Units(f, S)
<1>1. {x} \X (1 .. f[x]) = {}
  OBVIOUS
<1> QED
  BY <1>1 DEF Units

LEMMA UnitsHit ==
  ASSUME NEW S, NEW f, NEW g, NEW x \in S, f[x] \in Nat, g[x] = f[x] + 1,
         \A y \in S \ {x} : g[y] = f[y]
  PROVE  \E u : Units(g, S) = Units(f, S) \cup {u} /\ u \notin Units(f, S)
<1>1. 1 .. g[x] = (1 .. f[x]) \cup {f[x] + 1}
  OBVIOUS
<1>2. {x} \X (1 .. g[x]) = ({x} \X (1 .. f[x])) \cup {<<x, f[x] + 1>>}
  BY <1>1
<1>3. ASSUME NEW u PROVE u \in Units(g, S) <=> u \in Units(f, S) \cup {<<x, f[x] + 1>>}
  <2>1. ASSUME NEW y \in S, y # x PROVE {y} \X (1 .. g[y]) = {y} \X (1 .. f[y])
    BY <2>1
  <2> QED
    BY <1>2, <2>1 DEF Units
<1>4. ASSUME NEW y \in S, <<x, f[x] + 1>> \in {y} \X (1 .. f[y]) PROVE FALSE
  <2>1. y = x /\ f[x] + 1 \in 1 .. f[y]
    BY <1>4
  <2> QED
    BY <2>1
<1>5. <<x, f[x] + 1>> \notin Units(f, S)
  BY <1>4 DEF Units
<1> QED
  BY <1>3, <1>5

\* The bounds hold after a step that changes neither count, or both alike.
LEMMA HitsInvStep ==
  ASSUME IndInv, HitsInv, [Next]_vars PROVE HitsInv'
<1>a. /\ TypeOK /\ CallShape /\ BlockPrivate /\ BlockOwned /\ AnswerStable
      /\ mem \in [Cell -> Entries] /\ hdr["nhits"] \in Nat /\ crashes \in Nat
      /\ ent \in [Proc -> Cell \cup {None}] /\ Linked \subseteq Cell /\ heap \subseteq Cell
      /\ \A c \in Cell : mem[c].nhits \in Nat
  BY CacheAssumption DEF IndInv, TypeOK, Counters, Linked, Entries
<1>b. HitsRel /\ HitsInv
  BY <1>a, HitsStep
<1>c. /\ IsFiniteSet(Units(HitsOf, Linked)) /\ IsFiniteSet(Counting)
      /\ Total(HitsOf, Linked) \in Nat /\ Cardinality(Counting) \in Nat
      /\ Total(HitsOf, Linked) = Cardinality(Units(HitsOf, Linked))
  BY <1>b, FS_CardinalityType DEF HitsInv, Total
<1>d. /\ Total(HitsOf, Linked) + Cardinality(Counting) <= hdr["nhits"]
      /\ hdr["nhits"] <= Total(HitsOf, Linked) + Cardinality(Counting) + crashes
  BY <1>b DEF HitsInv, HitsBounded, HitsSeen
<1>e. ASSUME \A p \in Proc : pc'[p] \in FreshPcs => mem'[ent'[p]].nhits = 0,
             IsFiniteSet(Units(HitsOf', Linked')), IsFiniteSet(Counting'),
             Cardinality(Units(HitsOf', Linked')) + Cardinality(Counting') <= hdr'["nhits"],
             hdr'["nhits"] <= Cardinality(Units(HitsOf', Linked')) + Cardinality(Counting') + crashes'
      PROVE HitsInv'
  BY <1>b, <1>e DEF HitsInv, HitsRel, HitsBounded, HitsSeen, Total
<1>f. ASSUME UNCHANGED mem PROVE \A p \in Proc : pc'[p] \in FreshPcs => mem'[ent'[p]].nhits = 0
  <2>1. \A p \in Proc : ~PersistCopy(p) \/ mem'[ent'[p]].nhits = 0
    <3> SUFFICES ASSUME NEW p \in Proc, PersistCopy(p) PROVE mem'[ent'[p]].nhits = 0
      OBVIOUS
    <3>1. ent[p] \in Cell /\ ent'[p] = ent[p] /\ mem'[ent[p]] = NewEntry(p)
      BY <1>a DEF PersistCopy, BlockOwned, StorePcs, local
    <3> QED
      BY <3>1 DEF NewEntry
  <2> QED
    BY <1>b, <1>f, <2>1 DEF HitsRel, HitsInv
<1>g. ASSUME UNCHANGED mem PROVE HitsOf' = HitsOf
  BY <1>g DEF HitsOf
<1>1. ASSUME NEW p \in Proc, pc[p] = "f_count", pc'[p] = "f_entry", OtherPcs(p),
             hdr'["nhits"] = hdr["nhits"] + 1, UNCHANGED <<chain, mem, crashes>>
      PROVE HitsInv'
  <2>1. Counting' = Counting \cup {p} /\ p \notin Counting
    BY <1>1 DEF Counting, OtherPcs
  <2>2. IsFiniteSet(Counting') /\ Cardinality(Counting') = Cardinality(Counting) + 1
    BY <1>c, <2>1, FS_AddElement
  <2>3. Linked' = Linked /\ HitsOf' = HitsOf
    BY <1>1, <1>g, LinkedFrame
  <2> QED
    BY <1>1, <1>a, <1>c, <1>d, <1>e, <1>f, <2>2, <2>3
<1>2. ASSUME NEW p \in Proc, CountEntry(p), pc'[p] = "f_runlock", OtherPcs(p) PROVE HitsInv'
  <2>1. /\ pc[p] = "f_entry" /\ UNCHANGED <<chain, hdr, crashes, ent>>
        /\ mem' = [mem EXCEPT ![ent[p]].nhits = @ + 1]
    BY <1>2 DEF CountEntry, local, bounds
  <2>2. ent[p] \in Linked
    BY <1>a, <2>1 DEF CallShape, AnswerStable, FoundPcs
  <2>3. Counting = Counting' \cup {p} /\ p \notin Counting'
    BY <1>2, <2>1 DEF Counting, OtherPcs
  <2>4. Counting' \subseteq Counting
    BY <2>3
  <2>5. IsFiniteSet(Counting')
    BY <1>c, <2>4, FS_Subset
  <2>6. Cardinality(Counting) = Cardinality(Counting') + 1 /\ Cardinality(Counting') \in Nat
    BY <2>3, <2>5, FS_AddElement, FS_CardinalityType
  <2>7. Linked' = Linked
    BY <2>1, LinkedFrame
  <2>8. /\ HitsOf[ent[p]] \in Nat /\ HitsOf'[ent[p]] = HitsOf[ent[p]] + 1
        /\ \A c \in Linked \ {ent[p]} : HitsOf'[c] = HitsOf[c]
    BY <1>a, <2>1, <2>2 DEF HitsOf, Entries
  <2>9. \E u : Units(HitsOf', Linked) = Units(HitsOf, Linked) \cup {u} /\ u \notin Units(HitsOf, Linked)
    BY <2>2, <2>8, UnitsHit
  <2>10. /\ IsFiniteSet(Units(HitsOf', Linked))
         /\ Cardinality(Units(HitsOf', Linked)) = Cardinality(Units(HitsOf, Linked)) + 1
    BY <1>c, <2>9, FS_AddElement
  <2>11. \A q \in Proc : pc'[q] \in FreshPcs => mem'[ent'[q]].nhits = 0
    <3> SUFFICES ASSUME NEW q \in Proc, pc'[q] \in FreshPcs PROVE mem'[ent'[q]].nhits = 0
      OBVIOUS
    <3>1. q # p /\ pc[q] \in FreshPcs
      BY <1>2 DEF OtherPcs, FreshPcs
    <3>2. ent[q] \in Cell /\ ent[q] # ent[p] /\ mem[ent[q]].nhits = 0
      BY <1>a, <1>b, <2>2, <3>1
         DEF HitsInv, FreshPcs, BlockOwned, StorePcs, BlockPrivate, Private, PrivatePcs
    <3> QED
      BY <1>a, <2>1, <2>2, <3>2
  <2> QED
    BY <1>a, <1>c, <1>d, <1>e, <2>1, <2>5, <2>6, <2>7, <2>10, <2>11
<1>3. ASSUME NEW p \in Proc, Links(p), UNCHANGED <<hdr, crashes>>, OtherPcs(p) PROVE HitsInv'
  <2>1. pc[p] = "s_insert" /\ pc'[p] = "s_count" /\ UNCHANGED mem /\ Linked' = Linked \cup {ent[p]}
    BY <1>a, <1>3, LinkedMonotone DEF Links, TypeOK
  <2>2. Counting' = Counting
    BY <1>3, <2>1 DEF Counting, OtherPcs
  <2>3. ent[p] \in Cell /\ HitsOf[ent[p]] = 0
    BY <1>a, <1>b, <2>1 DEF HitsInv, HitsOf, FreshPcs, BlockOwned, StorePcs
  <2>4. Units(HitsOf', Linked') = Units(HitsOf, Linked)
    BY <1>g, <2>1, <2>3, UnitsFresh
  <2> QED
    BY <1>3, <1>a, <1>c, <1>d, <1>e, <1>f, <2>1, <2>2, <2>4
<1>4. ASSUME NEW p \in Proc, PersistCopy(p), pc'[p] = "s_wlock", OtherPcs(p) PROVE HitsInv'
  <2>1. /\ pc[p] = "s_copy" /\ UNCHANGED <<chain, hdr, crashes, ent>>
        /\ mem' = [mem EXCEPT ![ent[p]] = NewEntry(p)]
    BY <1>4 DEF PersistCopy, local, bounds
  <2>2. ent[p] \in Cell /\ ent[p] \notin Linked
    BY <1>a, <2>1 DEF BlockOwned, StorePcs, BlockPrivate, Private, PrivatePcs
  <2>3. Counting' = Counting
    BY <1>4, <2>1 DEF Counting, OtherPcs
  <2>4. Linked' = Linked
    BY <2>1, LinkedFrame
  <2>5. \A c \in Linked : HitsOf'[c] = HitsOf[c]
    BY <1>a, <2>1, <2>2 DEF HitsOf
  <2>6. Units(HitsOf', Linked) = Units(HitsOf, Linked)
    BY <2>5, UnitsStay
  <2>7. \A q \in Proc : pc'[q] \in FreshPcs => mem'[ent'[q]].nhits = 0
    <3> SUFFICES ASSUME NEW q \in Proc, pc'[q] \in FreshPcs PROVE mem'[ent'[q]].nhits = 0
      OBVIOUS
    <3>1. CASE q = p
      BY <1>a, <2>1, <2>2, <3>1 DEF NewEntry
    <3>2. CASE q # p
      <4>1. pc[q] \in FreshPcs
        BY <1>4, <3>2 DEF OtherPcs
      <4>2. ent[q] \in Cell /\ ent[q] # ent[p] /\ mem[ent[q]].nhits = 0
        BY <1>a, <1>b, <2>1, <3>2, <4>1 DEF HitsInv, FreshPcs, BlockOwned, StorePcs
      <4> QED
        BY <1>a, <2>1, <2>2, <4>2
    <3> QED
      BY <3>1, <3>2
  <2> QED
    BY <1>a, <1>c, <1>d, <1>e, <2>1, <2>3, <2>4, <2>6, <2>7
<1>5. ASSUME NEW p \in Proc, pc'[p] = "idle", OtherPcs(p), crashes' = crashes + 1,
             UNCHANGED <<chain, mem, hdr>>
      PROVE HitsInv'
  <2>1. Counting' \subseteq Counting /\ Counting' = Counting \ {p}
    BY <1>5 DEF Counting, OtherPcs
  <2>2. IsFiniteSet(Counting') /\ Cardinality(Counting') \in Nat
    BY <1>c, <2>1, FS_Subset, FS_CardinalityType
  <2>3. Cardinality(Counting') = IF p \in Counting THEN Cardinality(Counting) - 1 ELSE Cardinality(Counting)
    BY <1>c, <2>1, FS_RemoveElement
  <2>4. Linked' = Linked /\ HitsOf' = HitsOf
    BY <1>5, <1>g, LinkedFrame
  <2> QED
    BY <1>5, <1>a, <1>c, <1>d, <1>e, <1>f, <2>2, <2>3, <2>4
<1>6. ASSUME hdr'["nhits"] = hdr["nhits"], UNCHANGED <<chain, mem, crashes>>,
             \A q \in Proc : pc'[q] = "f_entry" <=> pc[q] = "f_entry"
      PROVE HitsInv'
  <2>1. Counting' = Counting
    BY <1>6 DEF Counting
  <2>2. Linked' = Linked /\ HitsOf' = HitsOf
    BY <1>6, <1>g, LinkedFrame
  <2> QED
    BY <1>6, <1>a, <1>c, <1>d, <1>e, <1>f, <2>1, <2>2
<1> QED
  BY <1>b, <1>1, <1>2, <1>3, <1>4, <1>5, <1>6 DEF HitsRel

\* Every build here has rwlocks, whose readers increment atomically.
AtomicBuild == Recursive \subseteq {FALSE}

\* HitsInv is inductive relative to IndInv.
LEMMA HitsInvAlways == ASSUME AtomicBuild PROVE Spec => []HitsInv
<1>1. Init => HitsInv
  <2> SUFFICES ASSUME Init PROVE HitsInv
    OBVIOUS
  <2>1. Linked = {} /\ Counting = {}
    BY DEF Init, Linked, Counting
  <2>2. Units(HitsOf, Linked) = {}
    BY <2>1 DEF Units
  <2>3. IsFiniteSet({}) /\ Cardinality({}) = 0
    BY FS_EmptySet
  <2>4. HitsSeen = 0
    BY <2>1, <2>2, <2>3 DEF HitsSeen, Total
  <2>5. ~recursive /\ hdr["nhits"] = 0 /\ crashes = 0
    BY DEF Init, AtomicBuild, Counters
  <2>6. \A p \in Proc : pc[p] = "idle"
    BY DEF Init
  <2> QED
    BY <2>1, <2>2, <2>3, <2>4, <2>5, <2>6 DEF HitsInv, HitsBounded, FreshPcs
<1>2. IndInv /\ HitsInv /\ [Next]_vars => HitsInv'
  BY HitsInvStep
<1> QED
  BY <1>1, <1>2, Invariance, PTL DEF Spec

\* A build that increments atomically loses no hit to another worker, whatever
\* adds, reads and deaths run meanwhile: each death leaves at most one hit in
\* the header that its entry has not got (immutable_cache_cache_rlocked_find).
THEOREM HitsNeverLost == AtomicBuild => (Spec => []HitsBounded)
<1> SUFFICES ASSUME AtomicBuild PROVE Spec => []HitsBounded
  OBVIOUS
<1>1. HitsInv => HitsBounded
  BY DEF HitsInv
<1> QED
  BY <1>1, HitsInvAlways, PTL

\* Without deaths the two counts agree at all times, up to the fetches between
\* the two increments (immutable_cache_cache_rlocked_find).
THEOREM HitsAreExact == AtomicBuild /\ MaxCrashes = 0 => (Spec => []HitsExact)
<1> SUFFICES ASSUME AtomicBuild, MaxCrashes = 0 PROVE Spec => []HitsExact
  OBVIOUS
<1>1. HitsInv => HitsSeen \in Nat
  BY FS_CardinalityType DEF HitsInv, HitsSeen, Total
<1>2. HitsInv /\ IndInv => HitsExact
  BY <1>1 DEF HitsInv, HitsBounded, IndInv, TypeOK, HitsExact, Counters
<1> QED
  BY <1>2, HitsInvAlways, Invariance, PTL

-----------------------------------------------------------------------------
(* The cache implements the write-once map, for every value of the constants: *)
(* every step of Cache is, through the refinement mapping AbsMap, AbsPhase,   *)
(* AbsCall and AbsRes, one step of ImmutableMap or none.                      *)

\* Where a worker is inside an add, a lookup or a statistics call, and where an
\* add has been decided.
AddPcs     == {"s_calc", "s_malloc", "s_alloc"} \cup StorePcs
LookupPcs  == {"f_rlock", "f_walk"} \cup FoundPcs
StatPcs    == {"i_rlock", "i_count", "i_list", "m_lock", "m_walk"}
DecidedPcs == {"s_count", "s_wunlock", "s_sunlock", "s_free", "s_dealloc"}

\* The program counter tells which call is running and whether it is decided:
\* IndInv leaves open what an answer means, which the mapping needs to know.
CallPhase ==
  \A p \in Proc :
    /\ pc[p] = "idle" => call[p] = NoCall
    /\ pc[p] \in AddPcs => call[p].op = "add" /\ call[p].val \in Val
    /\ pc[p] \in LookupPcs => call[p].op \in {"fetch", "exists", "stat"}
    /\ pc[p] = "f_unpersist" => call[p].op = "fetch"
    /\ pc[p] \in StatPcs => call[p].op \in {"info", "smainfo"}
    /\ pc[p] \in DecidedPcs => res[p] \in BOOLEAN
    /\ pc[p] \notin DecidedPcs \cup {"ret"} => res[p] = None

\* The table holds values, never NULL.
LinkedValues == \A c \in Linked : mem[c].val \in Val

RefInv == IndInv /\ CallPhase /\ LinkedValues

\* A call goes through its own program counters only, and decides once.
LEMMA CallPhaseStep ==
  ASSUME TypeOK, CallPhase, [Next]_vars PROVE CallPhase'
<1>a. pc \in [Proc -> Pcs] /\ DOMAIN call = Proc /\ DOMAIN res = Proc
  BY DEF TypeOK
<1> USE <1>a DEF CallPhase, Goto, Answer, AddPcs, LookupPcs, StatPcs, DecidedPcs, StorePcs,
    FoundPcs, locks, shared, local, bounds
<1>1. ASSUME NEW p \in Proc, Begin(p) PROVE CallPhase'
  <2>1. pc[p] = "idle" /\ UNCHANGED res
    BY <1>1 DEF Begin
  <2>2. ASSUME NEW k \in Key, NEW v \in Val, NEW r, CallAdd(p, k, v, r) PROVE CallPhase'
    BY <2>1, <2>2 DEF CallAdd
  <2>3. ASSUME NEW op \in {"fetch", "exists", "stat"}, NEW k \in Key, CallRead(p, op, k)
        PROVE CallPhase'
    BY <2>1, <2>3 DEF CallRead
  <2>4. CASE CallInfo(p) \/ CallSmaInfo(p)
    <3>1. /\ pc'[p] \in {"i_rlock", "m_lock"} /\ call'[p].op \in {"info", "smainfo"}
          /\ \A q \in Proc \ {p} : pc'[q] = pc[q] /\ call'[q] = call[q]
      BY <2>4 DEF CallInfo, CallSmaInfo, NoCall
    <3> QED
      BY <2>1, <3>1
  <2> QED
    BY <1>1, <2>2, <2>3, <2>4 DEF Begin
<1>2. ASSUME NEW p \in Proc, Return(p) PROVE CallPhase'
  BY <1>2 DEF Return, NoCall
<1>3. ASSUME NEW p \in Proc, EndRequest(p) PROVE CallPhase'
  BY <1>3 DEF EndRequest
<1>4. ASSUME NEW p \in Proc, PersistCalc(p) PROVE CallPhase'
  BY <1>4 DEF PersistCalc
<1>5. ASSUME NEW p \in Proc, MallocLock(p) PROVE CallPhase'
  BY <1>5 DEF MallocLock, SMA_LOCK
<1>6. ASSUME NEW p \in Proc, MallocLockFails(p) PROVE CallPhase'
  BY <1>6 DEF MallocLockFails
<1>7. ASSUME NEW p \in Proc, MallocAlloc(p) PROVE CallPhase'
  BY <1>7 DEF MallocAlloc, SMA_UNLOCK, NoMemory
<1>8. ASSUME NEW p \in Proc, PersistUnprotect(p) PROVE CallPhase'
  BY <1>8 DEF PersistUnprotect
<1>9. ASSUME NEW p \in Proc, PersistCopy(p) PROVE CallPhase'
  BY <1>9 DEF PersistCopy, NewEntry
<1>10. ASSUME NEW p \in Proc, WLockSma(p) PROVE CallPhase'
  BY <1>10 DEF WLockSma, SMA_LOCK
<1>11. ASSUME NEW p \in Proc, WLockSmaFails(p) PROVE CallPhase'
  BY <1>11 DEF WLockSmaFails
<1>12. ASSUME NEW p \in Proc, WLockFine(p) PROVE CallPhase'
  BY <1>12 DEF WLockFine, TakeFineLock
<1>13. ASSUME NEW p \in Proc, WLockFineFails(p) PROVE CallPhase'
  BY <1>13 DEF WLockFineFails, SMA_UNLOCK
<1>14. ASSUME NEW p \in Proc, InsertExclusive(p) PROVE CallPhase'
  <2>1. CASE Answer(p, FALSE) /\ Goto(p, "s_wunlock")
    BY <1>14, <2>1 DEF InsertExclusive
  <2>2. CASE Answer(p, TRUE) /\ Goto(p, "s_count")
    BY <1>14, <2>2 DEF InsertExclusive
  <2> QED
    BY <1>14, <2>1, <2>2 DEF InsertExclusive
<1>15. ASSUME NEW p \in Proc, InsertCount(p) PROVE CallPhase'
  BY <1>15 DEF InsertCount
<1>16. ASSUME NEW p \in Proc, WUnlockFine(p) PROVE CallPhase'
  BY <1>16 DEF WUnlockFine
<1>17. ASSUME NEW p \in Proc, WUnlockSma(p) PROVE CallPhase'
  BY <1>17 DEF WUnlockSma, SMA_UNLOCK, FreeIfRefused
<1>18. ASSUME NEW p \in Proc, FreeLock(p) PROVE CallPhase'
  BY <1>18 DEF FreeLock, SMA_LOCK
<1>19. ASSUME NEW p \in Proc, FreeLockFails(p) PROVE CallPhase'
  BY <1>19 DEF FreeLockFails
<1>20. ASSUME NEW p \in Proc, FreeDealloc(p) PROVE CallPhase'
  BY <1>20 DEF FreeDealloc, SMA_UNLOCK
<1>21. ASSUME NEW p \in Proc, RLock(p) PROVE CallPhase'
  BY <1>21 DEF RLock
<1>22. ASSUME NEW p \in Proc, RLockFails(p) PROVE CallPhase'
  BY <1>22 DEF RLockFails
<1>23. ASSUME NEW p \in Proc, Walk(p) PROVE CallPhase'
  BY <1>23 DEF Walk, AfterWalk, NextAfter
<1>24. ASSUME NEW p \in Proc, Count(p) PROVE CallPhase'
  BY <1>24 DEF Count, AfterCount
<1>25. ASSUME NEW p \in Proc, CountStore(p) PROVE CallPhase'
  BY <1>25 DEF CountStore, AfterCount
<1>26. ASSUME NEW p \in Proc, CountEntry(p) PROVE CallPhase'
  BY <1>26 DEF CountEntry
<1>27. ASSUME NEW p \in Proc, RUnlock(p) PROVE CallPhase'
  BY <1>27 DEF RUnlock, ReleaseRead
<1>28. ASSUME NEW p \in Proc, Unpersist(p) PROVE CallPhase'
  BY <1>28 DEF Unpersist
<1>29. ASSUME NEW p \in Proc, RLockGlobal(p) PROVE CallPhase'
  BY <1>29 DEF RLockGlobal, TakeSmaRead
<1>30. ASSUME NEW p \in Proc, RLockGlobalFails(p) PROVE CallPhase'
  BY <1>30 DEF RLockGlobalFails
<1>31. ASSUME NEW p \in Proc, InfoCount(p) PROVE CallPhase'
  BY <1>31 DEF InfoCount
<1>32. ASSUME NEW p \in Proc, InfoList(p) PROVE CallPhase'
  BY <1>32 DEF InfoList
<1>33. ASSUME NEW p \in Proc, SmaInfoLock(p) PROVE CallPhase'
  BY <1>33 DEF SmaInfoLock, SMA_LOCK
<1>34. ASSUME NEW p \in Proc, SmaInfoLockFails(p) PROVE CallPhase'
  BY <1>34 DEF SmaInfoLockFails
<1>35. ASSUME NEW p \in Proc, SmaInfoUnlock(p) PROVE CallPhase'
  BY <1>35 DEF SmaInfoUnlock, SMA_UNLOCK
<1>36. ASSUME NEW p \in Proc, SmaInfoBailout(p) PROVE CallPhase'
  BY <1>36 DEF SmaInfoBailout
<1>37. ASSUME NEW p \in Proc, Crash(p) PROVE CallPhase'
  BY <1>37 DEF Crash, NoCall
<1>38. ASSUME NEW p \in Proc, UnpersistFails(p) PROVE CallPhase'
  BY <1>38 DEF UnpersistFails
<1>90. CASE UNCHANGED vars
  BY <1>90 DEF vars
<1> QED
  BY <1>1, <1>2, <1>3, <1>4, <1>5, <1>6, <1>7, <1>8, <1>9, <1>10, <1>11, <1>12, <1>13,
      <1>14, <1>15, <1>16, <1>17, <1>18, <1>19, <1>20, <1>21, <1>22, <1>23, <1>24, <1>25,
      <1>26, <1>27, <1>28, <1>29, <1>30, <1>31, <1>32, <1>33, <1>34, <1>35, <1>36, <1>37,
      <1>38, <1>90 DEF Next, Step, Store, Read, Info, Done

\* The value of an entry is complete before it is linked, and stays.
LEMMA LinkedValuesStep ==
  ASSUME RefInv, [Next]_vars PROVE LinkedValues'
<1>1. Kept
  BY EntriesKept DEF RefInv, IndInv
<1>2. CASE UNCHANGED chain
  BY <1>1, <1>2, LinkedFrame DEF RefInv, LinkedValues, Kept
<1>3. ASSUME NEW p \in Proc, Links(p) PROVE LinkedValues'
  <2>1. Linked' = Linked \cup {ent[p]}
    BY <1>3, LinkedMonotone DEF RefInv
  <2>2. mem[ent[p]].val \in Val /\ UNCHANGED mem
    BY <1>3 DEF Links, RefInv, IndInv, BlockWritten, CallPhase, AddPcs, StorePcs
  <2> QED
    BY <2>1, <2>2 DEF RefInv, LinkedValues
<1> QED
  BY <1>2, <1>3, ChainStep

\* The invariant of the refinement holds of every behaviour.
LEMMA RefInvariance == Spec => []RefInv
<1>1. Init => RefInv
  <2> SUFFICES ASSUME Init PROVE CallPhase /\ LinkedValues
    BY InitInv DEF RefInv
  <2> QED
    BY DEF Init, CallPhase, LinkedValues, Linked, AddPcs, LookupPcs, StatPcs, DecidedPcs,
           StorePcs, FoundPcs
<1>2. RefInv /\ [Next]_vars => RefInv'
  BY IndInvStep, CallPhaseStep, LinkedValuesStep DEF RefInv, IndInv
<1> QED
  BY <1>1, <1>2, PTL DEF Spec

-----------------------------------------------------------------------------
(* What the mapping makes of a state.                                        *)

\* The mapped variables are functions.
AbsShape ==
  /\ AbsMap = [k \in Key |-> AbsMap[k]]
  /\ AbsPhase = [p \in Proc |-> AbsPhase[p]]
  /\ AbsCall = [p \in Proc |-> AbsCall[p]]
  /\ AbsRes = [p \in Proc |-> AbsRes[p]]

\* The mapping builds functions over keys and workers.
LEMMA Shape == TRUE => AbsShape
  BY DEF AbsShape, AbsMap, AbsPhase, AbsCall, AbsRes

\* The map is read off the table: each linked entry binds its key.
MapExact ==
  /\ \A c \in Linked : mem[c].key \in Key => AbsMap[mem[c].key] = mem[c].val
  /\ \A k \in Key : (\A c \in Linked : mem[c].key # k) => AbsMap[k] = None

\* One entry per key makes the choice of AbsMap no choice.
LEMMA MapOfTable == RefInv => MapExact
<1> SUFFICES ASSUME RefInv PROVE MapExact
  OBVIOUS
<1>1. ASSUME NEW c \in Linked, NEW d \in Linked, mem[c].key = mem[d].key PROVE c = d
  <2>1. PICK s \in Slot : \E i \in DOMAIN chain[s] : chain[s][i] = c
    BY DEF Linked
  <2>2. PICK t \in Slot : \E j \in DOMAIN chain[t] : chain[t][j] = d
    BY DEF Linked
  <2>3. PICK i \in DOMAIN chain[s], j \in DOMAIN chain[t] : chain[s][i] = c /\ chain[t][j] = d
    BY <2>1, <2>2
  <2>4. s = t /\ i = j
    BY <1>1, <2>3 DEF RefInv, IndInv, UniqueKeys
  <2> QED
    BY <2>3, <2>4
<1>2. ASSUME NEW c \in Linked, mem[c].key \in Key PROVE AbsMap[mem[c].key] = mem[c].val
  <2> DEFINE k == mem[c].key
             d == CHOOSE e \in Linked : mem[e].key = k
  <2>1. d \in Linked /\ mem[d].key = k
    OBVIOUS
  <2>2. d = c
    BY <1>1, <2>1
  <2>3. AbsMap[k] = mem[d].val
    BY <1>2 DEF AbsMap
  <2> QED
    BY <2>2, <2>3
<1>3. ASSUME NEW k \in Key, \A c \in Linked : mem[c].key # k PROVE AbsMap[k] = None
  BY <1>3 DEF AbsMap
<1> QED
  BY <1>2, <1>3 DEF MapExact

\* What each program counter means to the map: before its decision a call is
\* pending, after it the answer is fixed.
PhaseTable ==
  \A p \in Proc :
    /\ pc[p] \in {"idle"} \cup StatPcs =>
         AbsPhase[p] = "idle" /\ AbsCall[p] = Map!NoCall /\ AbsRes[p] = None
    /\ pc[p] \in (AddPcs \ DecidedPcs) \cup {"f_rlock", "f_walk"} =>
         AbsPhase[p] = "called" /\ AbsRes[p] = None
    /\ pc[p] \in DecidedPcs => AbsPhase[p] = "applied" /\ AbsRes[p] = res[p]
    /\ Decoding(p) => AbsPhase[p] = "called" /\ AbsRes[p] = None
    /\ pc[p] \in FoundPcs /\ ~Decoding(p) =>
         /\ AbsPhase[p] = "applied"
         /\ AbsRes[p] = IF call[p].op # "fetch" THEN ent[p] # None ELSE None
    /\ pc[p] = "ret" /\ MapCall(p) => AbsPhase[p] = "applied" /\ AbsRes[p] = res[p]
    /\ ~MapCall(p) => AbsPhase[p] = "idle" /\ AbsCall[p] = Map!NoCall /\ AbsRes[p] = None
    /\ MapCall(p) => AbsCall[p] = [op |-> call[p].op, key |-> call[p].key, val |-> call[p].val]

\* The table of phases follows from the definitions of the mapping.
LEMMA PhasesMapped == RefInv => PhaseTable
<1> SUFFICES ASSUME RefInv, NEW p \in Proc
             PROVE /\ pc[p] \in {"idle"} \cup StatPcs => ~MapCall(p)
                   /\ pc[p] \in (AddPcs \ DecidedPcs) \cup {"f_rlock", "f_walk"} =>
                        PhaseOf(p) = "called" /\ ResultOf(p) = None
                   /\ pc[p] \in DecidedPcs => PhaseOf(p) = "applied" /\ ResultOf(p) = res[p]
                   /\ Decoding(p) => PhaseOf(p) = "called" /\ ResultOf(p) = None
                   /\ pc[p] \in FoundPcs /\ ~Decoding(p) =>
                        /\ PhaseOf(p) = "applied"
                        /\ ResultOf(p) = IF call[p].op # "fetch" THEN ent[p] # None ELSE None
                   /\ pc[p] = "ret" /\ MapCall(p) => PhaseOf(p) = "applied" /\ ResultOf(p) = res[p]
                   /\ ~MapCall(p) => PhaseOf(p) = "idle" /\ CallOf(p) = Map!NoCall /\ ResultOf(p) = None
                   /\ MapCall(p) => CallOf(p) = [op |-> call[p].op, key |-> call[p].key, val |-> call[p].val]
  BY DEF PhaseTable, AbsPhase, AbsCall, AbsRes
<1>1. /\ pc[p] \in AddPcs \cup LookupPcs => MapCall(p)
      /\ pc[p] \in {"idle"} \cup StatPcs => ~MapCall(p)
      /\ pc[p] \in DecidedPcs => res[p] # None
      /\ pc[p] \notin DecidedPcs \cup {"ret"} => res[p] = None
  BY CacheAssumption DEF RefInv, CallPhase, MapCall, NoCall
<1>2. ~MapCall(p) => PhaseOf(p) = "idle" /\ CallOf(p) = Map!NoCall /\ ResultOf(p) = None
  BY DEF PhaseOf, CallOf, ResultOf, Map!NoCall
<1>3. MapCall(p) => CallOf(p) = [op |-> call[p].op, key |-> call[p].key, val |-> call[p].val]
  BY DEF CallOf
<1>4. ASSUME pc[p] \in (AddPcs \ DecidedPcs) \cup {"f_rlock", "f_walk"}
      PROVE PhaseOf(p) = "called" /\ ResultOf(p) = None
  BY <1>1, <1>4 DEF PhaseOf, ResultOf, AddPcs, LookupPcs, DecidedPcs, StorePcs, FoundPcs
<1>5. ASSUME pc[p] \in DecidedPcs PROVE PhaseOf(p) = "applied" /\ ResultOf(p) = res[p]
  BY <1>1, <1>5 DEF PhaseOf, ResultOf, AddPcs, DecidedPcs, StorePcs, FoundPcs
<1>6. ASSUME pc[p] \in FoundPcs, ~Decoding(p)
      PROVE /\ PhaseOf(p) = "applied"
            /\ ResultOf(p) = IF call[p].op # "fetch" THEN ent[p] # None ELSE None
  BY <1>1, <1>6 DEF PhaseOf, ResultOf, LookupPcs, DecidedPcs, StorePcs, FoundPcs
<1>8. ASSUME Decoding(p) PROVE PhaseOf(p) = "called" /\ ResultOf(p) = None
  BY <1>1, <1>8 DEF PhaseOf, ResultOf, Decoding, LookupPcs, DecidedPcs, StorePcs, FoundPcs
<1>7. ASSUME pc[p] = "ret", MapCall(p) PROVE PhaseOf(p) = "applied" /\ ResultOf(p) = res[p]
  BY <1>7 DEF PhaseOf, ResultOf, Decoding, StorePcs, FoundPcs
<1> QED
  BY <1>1, <1>2, <1>3, <1>4, <1>5, <1>6, <1>7, <1>8

-----------------------------------------------------------------------------
(* What the mapping makes of a step.                                         *)

\* Only worker p moves.
Alone(p) ==
  \A q \in Proc \ {p} :
    pc'[q] = pc[q] /\ call'[q] = call[q] /\ ent'[q] = ent[q] /\ res'[q] = res[q]

\* Both ends of a step satisfy what the mapping needs.
RefStep == RefInv /\ RefInv' /\ [Next]_vars

\* What holds of a state holds of both states of a step.
LEMMA BothEnds ==
  ASSUME RefStep
  PROVE AbsShape /\ AbsShape' /\ MapExact /\ MapExact' /\ PhaseTable /\ PhaseTable'
<1>1. RefInv /\ RefInv'
  BY DEF RefStep
<1>2. AbsShape /\ AbsShape'
  BY Shape, PTL
<1>3. MapExact /\ MapExact'
  BY <1>1, MapOfTable, PTL
<1>4. PhaseTable /\ PhaseTable'
  BY <1>1, PhasesMapped, PTL
<1> QED
  BY <1>2, <1>3, <1>4

\* A step that links nothing leaves the map.
LEMMA MapKept ==
  ASSUME RefStep, UNCHANGED chain PROVE AbsMap' = AbsMap
<1>1. Linked' = Linked /\ Kept
  BY LinkedFrame, EntriesKept DEF RefStep, RefInv, IndInv
<1>2. ASSUME NEW k \in Key PROVE AbsMap'[k] = AbsMap[k]
  <2>1. CASE \E c \in Linked : mem[c].key = k
    BY <1>1, <2>1, BothEnds DEF MapExact, Kept
  <2>2. CASE \A c \in Linked : mem[c].key # k
    BY <1>1, <2>2, BothEnds DEF MapExact, Kept
  <2> QED
    BY <2>1, <2>2
<1>3. /\ AbsMap = [k \in Key |-> AbsMap[k]]
      /\ AbsMap' = [k \in Key |-> AbsMap'[k]]
  BY BothEnds DEF AbsShape
<1> QED
  BY <1>2, <1>3

\* Linking an entry binds a key that was free.
LEMMA MapGrows ==
  ASSUME RefStep, NEW p \in Proc, Links(p)
  PROVE /\ call[p].key \in Key
        /\ AbsMap[call[p].key] = None
        /\ AbsMap' = [AbsMap EXCEPT ![call[p].key] = call[p].val]
<1> DEFINE k == call[p].key
<1>1. k \in Key /\ mem[ent[p]].key = k /\ mem[ent[p]].val = call[p].val /\ UNCHANGED mem
  BY DEF Links, RefStep, RefInv, IndInv, CallShape, KeyPcs, StorePcs, BlockWritten
<1>2. Linked' = Linked \cup {ent[p]}
  BY LinkedMonotone DEF RefStep, RefInv
<1>3. \A c \in Linked : mem[c].key # k
  <2> SUFFICES ASSUME NEW c \in Linked, mem[c].key = k PROVE FALSE
    OBVIOUS
  <2>1. PICK s \in Slot : \E i \in DOMAIN chain[s] : chain[s][i] = c
    BY DEF Linked
  <2>2. SlotOf(k) = s
    BY <2>1 DEF RefStep, RefInv, IndInv, UniqueKeys
  <2> QED
    BY <2>1, <2>2 DEF Links, Present
<1>4. AbsMap[k] = None
  BY <1>1, <1>3, BothEnds DEF MapExact
<1>5. AbsMap'[k] = call[p].val
  BY <1>1, <1>2, BothEnds DEF MapExact
<1>6. ASSUME NEW j \in Key, j # k PROVE AbsMap'[j] = AbsMap[j]
  <2>1. CASE \E c \in Linked : mem[c].key = j
    BY <1>1, <1>2, <2>1, BothEnds DEF MapExact
  <2>2. CASE \A c \in Linked : mem[c].key # j
    BY <1>1, <1>2, <1>6, <2>2, BothEnds DEF MapExact
  <2> QED
    BY <2>1, <2>2
<1>7. /\ AbsMap = [i \in Key |-> AbsMap[i]]
      /\ AbsMap' = [i \in Key |-> AbsMap'[i]]
  BY BothEnds DEF AbsShape
<1> QED
  BY <1>1, <1>4, <1>5, <1>6, <1>7

\* Nothing a worker does changes what another has been answered.
LEMMA OthersKept ==
  ASSUME RefStep, NEW p \in Proc, Alone(p), NEW q \in Proc \ {p}
  PROVE AbsPhase'[q] = AbsPhase[q] /\ AbsCall'[q] = AbsCall[q] /\ AbsRes'[q] = AbsRes[q]
<1>1. pc'[q] = pc[q] /\ call'[q] = call[q] /\ ent'[q] = ent[q] /\ res'[q] = res[q]
  BY DEF Alone
<1>3. AbsCall'[q] = AbsCall[q]
  BY <1>1 DEF AbsCall, CallOf, MapCall
<1>4. AbsPhase'[q] = AbsPhase[q]
  BY <1>1 DEF AbsPhase, PhaseOf, Decoding, MapCall
<1>5. AbsRes'[q] = AbsRes[q]
  BY <1>1 DEF AbsRes, ResultOf, MapCall
<1> QED
  BY <1>3, <1>4, <1>5

\* A step that changes nothing the map sees.
LEMMA LiftStutter ==
  ASSUME RefStep, NEW p \in Proc, Alone(p), UNCHANGED chain,
         AbsPhase'[p] = AbsPhase[p], AbsCall'[p] = AbsCall[p], AbsRes'[p] = AbsRes[p]
  PROVE UNCHANGED <<AbsMap, AbsPhase, AbsCall, AbsRes>>
<1>1. \A q \in Proc : AbsPhase'[q] = AbsPhase[q] /\ AbsCall'[q] = AbsCall[q] /\ AbsRes'[q] = AbsRes[q]
  BY OthersKept
<1>2. /\ AbsPhase = [q \in Proc |-> AbsPhase[q]] /\ AbsPhase' = [q \in Proc |-> AbsPhase'[q]]
      /\ AbsCall = [q \in Proc |-> AbsCall[q]] /\ AbsCall' = [q \in Proc |-> AbsCall'[q]]
      /\ AbsRes = [q \in Proc |-> AbsRes[q]] /\ AbsRes' = [q \in Proc |-> AbsRes'[q]]
  BY BothEnds DEF AbsShape
<1>3. AbsPhase' = AbsPhase /\ AbsCall' = AbsCall /\ AbsRes' = AbsRes
  BY <1>1, <1>2
<1> QED
  BY <1>3, MapKept

\* A step that changes the call of one worker, as the map sees it.
LEMMA LiftMove ==
  ASSUME RefStep, NEW p \in Proc, Alone(p)
  PROVE /\ AbsPhase' = [AbsPhase EXCEPT ![p] = AbsPhase'[p]]
        /\ AbsCall' = [AbsCall EXCEPT ![p] = AbsCall'[p]]
        /\ AbsRes' = [AbsRes EXCEPT ![p] = AbsRes'[p]]
<1>1. \A q \in Proc \ {p} : AbsPhase'[q] = AbsPhase[q] /\ AbsCall'[q] = AbsCall[q] /\ AbsRes'[q] = AbsRes[q]
  BY OthersKept
<1>2. /\ AbsPhase = [q \in Proc |-> AbsPhase[q]] /\ AbsPhase' = [q \in Proc |-> AbsPhase'[q]]
      /\ AbsCall = [q \in Proc |-> AbsCall[q]] /\ AbsCall' = [q \in Proc |-> AbsCall'[q]]
      /\ AbsRes = [q \in Proc |-> AbsRes[q]] /\ AbsRes' = [q \in Proc |-> AbsRes'[q]]
  BY BothEnds DEF AbsShape
<1> QED
  BY <1>1, <1>2

\* Worker p ends a fetch that had found its entry.
Fetched(p) ==
  Alone(p) /\ UNCHANGED chain /\ call'[p] = call[p] /\ pc[p] = "f_unpersist" /\ pc'[p] = "ret"

\* A step of the map, or none.
MapStep == Map!Next \/ UNCHANGED <<AbsMap, AbsPhase, AbsCall, AbsRes>>

\* Every step of the cache is a step of the map or none: an add takes effect
\* where it links its entry or fails, a read where its walk ends, a fetch that
\* found its entry where the value is rebuilt or not.
LEMMA StepMapped ==
  ASSUME RefStep PROVE MapStep
<1>a. pc \in [Proc -> Pcs] /\ DOMAIN call = Proc /\ DOMAIN ent = Proc /\ DOMAIN res = Proc
  BY DEF RefStep, RefInv, IndInv, TypeOK
<1>b. PhaseTable /\ PhaseTable'
  BY BothEnds
<1>c. CallPhase
  BY DEF RefStep, RefInv
<1>e. CallShape
  BY DEF RefStep, RefInv, IndInv
<1>d. ASSUME NEW p \in Proc
      PROVE /\ call'[p] = call[p] => AbsCall'[p] = AbsCall[p]
            /\ call[p].op \in {"add", "fetch", "exists", "stat"} =>
                 AbsCall[p].op = call[p].op /\ AbsCall[p].key = call[p].key /\ AbsCall[p].val = call[p].val
            /\ call'[p].op \in {"add", "fetch", "exists", "stat"} =>
                 AbsCall'[p] = [op |-> call'[p].op, key |-> call'[p].key, val |-> call'[p].val]
  BY DEF AbsCall, CallOf, MapCall
<1>l. ASSUME NEW p \in Proc, Alone(p)
      PROVE /\ AbsPhase' = [AbsPhase EXCEPT ![p] = AbsPhase'[p]]
            /\ AbsCall' = [AbsCall EXCEPT ![p] = AbsCall'[p]]
            /\ AbsRes' = [AbsRes EXCEPT ![p] = AbsRes'[p]]
  BY <1>l, LiftMove
<1>s. ASSUME NEW p \in Proc, Alone(p), UNCHANGED chain, call'[p] = call[p],
             AbsPhase'[p] = AbsPhase[p], AbsRes'[p] = AbsRes[p]
      PROVE MapStep
  BY <1>s, <1>d, LiftStutter DEF MapStep
<1>n. ASSUME NEW p \in Proc, Alone(p), call'[p] = call[p] PROVE AbsCall' = AbsCall
  BY <1>n, <1>d, <1>l, BothEnds DEF AbsShape
<1>r. ASSUME NEW p \in Proc, pc[p] \in FoundPcs, pc'[p] \in FoundPcs,
             call'[p] = call[p], ent'[p] = ent[p]
      PROVE AbsPhase'[p] = AbsPhase[p] /\ AbsRes'[p] = AbsRes[p]
  <2>1. Decoding(p)' <=> Decoding(p)
    BY <1>r DEF Decoding
  <2>2. CASE Decoding(p)
    <3>1. AbsPhase[p] = "called" /\ AbsRes[p] = None
      BY <2>2, <1>b DEF PhaseTable
    <3>2. AbsPhase'[p] = "called" /\ AbsRes'[p] = None
      BY <2>1, <2>2, <1>b DEF PhaseTable
    <3> QED
      BY <3>1, <3>2
  <2>3. CASE ~Decoding(p)
    <3>1. /\ AbsPhase[p] = "applied"
          /\ AbsRes[p] = IF call[p].op # "fetch" THEN ent[p] # None ELSE None
      BY <1>r, <2>3, <1>b DEF PhaseTable
    <3>2. /\ AbsPhase'[p] = "applied"
          /\ AbsRes'[p] = IF call'[p].op # "fetch" THEN ent'[p] # None ELSE None
      BY <1>r, <2>1, <2>3, <1>b DEF PhaseTable
    <3> QED
      BY <1>r, <3>1, <3>2
  <2> QED
    BY <2>2, <2>3
<1>f. ASSUME NEW p \in Proc, Alone(p), UNCHANGED chain, call'[p] = call[p], call[p].op = "add",
             AbsPhase[p] = "called", AbsPhase'[p] = "applied", AbsRes'[p] = FALSE
      PROVE MapStep
  <2>1. AbsCall[p].op = "add"
    BY <1>f, <1>d
  <2>2. AbsCall' = AbsCall
    BY <1>f, <1>n
  <2>3. Map!Answer(p, FALSE)
    BY <2>2, <1>f, <1>l DEF Map!Answer
  <2>4. Map!AddFails(p)
    BY <1>f, <2>1, <2>3, MapKept DEF Map!AddFails
  <2> QED
    BY <2>4 DEF MapStep, Map!Next, Map!Apply
<1>t. ASSUME NEW p \in Proc, Fetched(p)
      PROVE /\ AbsCall[p].op = "fetch"
            /\ AbsMap[AbsCall[p].key] = mem[ent[p]].val
            /\ Map!Answer(p, res'[p])
  <2>1. /\ Alone(p) /\ call'[p] = call[p] /\ pc[p] = "f_unpersist" /\ pc'[p] = "ret"
        /\ call[p].op = "fetch" /\ ent[p] # None /\ call[p].key \in Key
    BY <1>t, <1>c, <1>e DEF Fetched, CallPhase, CallShape, KeyPcs, FoundPcs
  <2>2. AbsPhase[p] = "called" /\ AbsPhase'[p] = "applied" /\ AbsRes'[p] = res'[p]
    BY <2>1, <1>b DEF PhaseTable, Decoding, FoundPcs, MapCall
  <2>3. AbsCall' = AbsCall /\ AbsCall[p].op = "fetch" /\ AbsCall[p].key = call[p].key
    BY <2>1, <1>d, <1>n
  <2>4. ent[p] \in Linked /\ mem[ent[p]].key = call[p].key
    BY <2>1 DEF RefStep, RefInv, IndInv, AnswerStable, FoundPcs
  <2>5. AbsMap[call[p].key] = mem[ent[p]].val
    BY <2>1, <2>4, BothEnds DEF MapExact
  <2> QED
    BY <2>1, <2>2, <2>3, <2>5, <1>l DEF Map!Answer
<1>m. ASSUME NEW p \in Proc, pc[p] # "idle", MapCall(p) PROVE AbsPhase[p] # "idle"
  <2>1. pc[p] \notin StatPcs
    BY <1>m, <1>c DEF CallPhase, MapCall
  <2> QED
    BY <1>a, <1>b, <1>m, <2>1 DEF PhaseTable, Pcs, StatPcs, AddPcs, LookupPcs, DecidedPcs,
       StorePcs, FoundPcs
<1> USE <1>a DEF Goto, Answer, locks, shared, local, bounds, MapStep, PhaseTable, CallPhase,
    CallShape, MapCall, AddPcs, LookupPcs, DecidedPcs, StatPcs, StorePcs, FoundPcs, KeyPcs
<1>1. ASSUME NEW p \in Proc, Begin(p) PROVE MapStep
  <2>1. Alone(p) /\ UNCHANGED <<chain, res>> /\ pc[p] = "idle"
    BY <1>1 DEF Alone, Begin, CallAdd, CallRead, CallInfo, CallSmaInfo
  <2>2. AbsPhase[p] = "idle" /\ AbsCall[p] = Map!NoCall /\ AbsRes[p] = None
    BY <2>1, <1>b
  <2>3. CASE CallInfo(p) \/ CallSmaInfo(p)
    <3>1. pc'[p] \in {"i_rlock", "m_lock"}
      BY <2>3 DEF CallInfo, CallSmaInfo
    <3>2. AbsPhase'[p] = "idle" /\ AbsCall'[p] = Map!NoCall /\ AbsRes'[p] = None
      BY <3>1, <1>b
    <3> QED
      BY <2>1, <2>2, <3>2, LiftStutter
  <2>4. ASSUME NEW op \in {"add", "fetch", "exists", "stat"}, NEW k \in Key, NEW v \in Val \cup {None},
               call'[p].op = op, call'[p].key = k, call'[p].val = v, pc'[p] \in {"s_calc", "f_rlock"}
        PROVE MapStep
    <3>1. AbsPhase'[p] = "called" /\ AbsRes'[p] = None
      BY <2>4, <1>b
    <3>2. AbsCall'[p] = [op |-> op, key |-> k, val |-> v]
      BY <2>4, <1>d
    <3>3. AbsCall'[p] \in Map!Calls
      BY <3>2 DEF Map!Calls
    <3>4. AbsRes' = AbsRes
      BY <2>1, <2>2, <3>1, <1>l, BothEnds DEF AbsShape
    <3>5. Map!Call(p)
      BY <2>1, <2>2, <3>1, <3>3, <3>4, <1>l, MapKept DEF Map!Call
    <3> QED
      BY <3>5 DEF Map!Next
  <2>5. ASSUME NEW k \in Key, NEW v \in Val, NEW r, CallAdd(p, k, v, r) PROVE MapStep
    <3>1. call'[p].op = "add" /\ call'[p].key = k /\ call'[p].val = v /\ pc'[p] = "s_calc"
      BY <2>5 DEF CallAdd
    <3> QED
      BY <3>1, <2>4
  <2>6. ASSUME NEW op \in {"fetch", "exists", "stat"}, NEW k \in Key, CallRead(p, op, k) PROVE MapStep
    <3>1. call'[p].op = op /\ call'[p].key = k /\ call'[p].val = None /\ pc'[p] = "f_rlock"
      BY <2>6 DEF CallRead
    <3> QED
      BY <3>1, <2>4
  <2> QED
    BY <1>1, <2>3, <2>5, <2>6 DEF Begin
<1>2. ASSUME NEW p \in Proc, Return(p) PROVE MapStep
  <2>1. Alone(p) /\ UNCHANGED chain /\ pc'[p] = "idle" /\ pc[p] = "ret"
    BY <1>2 DEF Alone, Return, NoCall
  <2>2. AbsPhase'[p] = "idle" /\ AbsCall'[p] = Map!NoCall /\ AbsRes'[p] = None
    BY <2>1, <1>b
  <2>3. CASE call[p].op \in {"add", "fetch", "exists", "stat"}
    <3>1. AbsPhase[p] = "applied"
      BY <2>1, <2>3, <1>b
    <3>2. Map!Leave(p)
      BY <2>1, <2>2, <1>l, MapKept DEF Map!Leave
    <3> QED
      BY <3>1, <3>2 DEF Map!Next, Map!Return
  <2>4. CASE call[p].op \notin {"add", "fetch", "exists", "stat"}
    <3>1. AbsPhase[p] = "idle" /\ AbsCall[p] = Map!NoCall /\ AbsRes[p] = None
      BY <2>4, <1>b
    <3> QED
      BY <2>1, <2>2, <3>1, LiftStutter
  <2> QED
    BY <2>3, <2>4
<1>3. ASSUME NEW p \in Proc, EndRequest(p) PROVE MapStep
  <2>1. Alone(p) /\ UNCHANGED chain /\ call'[p] = call[p]
    BY <1>3 DEF Alone, EndRequest
  <2>2. AbsPhase'[p] = AbsPhase[p] /\ AbsRes'[p] = AbsRes[p]
    BY <1>3, <1>b DEF EndRequest
  <2> QED
    BY <2>1, <2>2, <1>s
<1>4. ASSUME NEW p \in Proc, PersistCalc(p) PROVE MapStep
  <2>1. Alone(p) /\ UNCHANGED chain /\ call'[p] = call[p]
    BY <1>4 DEF Alone, PersistCalc
  <2>2. CASE Goto(p, "s_malloc") /\ UNCHANGED res
    <3>1. AbsPhase'[p] = AbsPhase[p] /\ AbsRes'[p] = AbsRes[p]
      BY ZenonT(40), <1>4, <2>2, <1>b DEF PersistCalc
    <3> QED
      BY <2>1, <3>1, <1>s
  <2>3. CASE Goto(p, "ret") /\ Answer(p, FALSE)
    <3>1. AbsPhase[p] = "called" /\ AbsPhase'[p] = "applied" /\ AbsRes'[p] = FALSE /\ call[p].op = "add"
      BY <1>4, <2>3, <1>b, <1>c DEF PersistCalc
    <3> QED
      BY <2>1, <3>1, <1>f
  <2> QED
    BY <1>4, <2>2, <2>3 DEF PersistCalc
<1>5. ASSUME NEW p \in Proc, MallocLock(p) PROVE MapStep
  <2>1. Alone(p) /\ UNCHANGED chain /\ call'[p] = call[p]
    BY <1>5 DEF Alone, MallocLock, SMA_LOCK
  <2>2. AbsPhase'[p] = AbsPhase[p] /\ AbsRes'[p] = AbsRes[p]
    BY ZenonT(40), <1>5, <1>b DEF MallocLock, SMA_LOCK
  <2> QED
    BY <2>1, <2>2, <1>s
<1>6. ASSUME NEW p \in Proc, MallocLockFails(p) PROVE MapStep
  <2>1. Alone(p) /\ UNCHANGED chain /\ call'[p] = call[p]
    BY <1>6 DEF Alone, MallocLockFails
  <2>2. AbsPhase[p] = "called" /\ AbsPhase'[p] = "applied" /\ AbsRes'[p] = FALSE /\ call[p].op = "add"
    BY <1>6, <1>b, <1>c DEF MallocLockFails
  <2> QED
    BY <2>1, <2>2, <1>f
<1>7. ASSUME NEW p \in Proc, MallocAlloc(p) PROVE MapStep
  <2>1. Alone(p) /\ UNCHANGED chain /\ call'[p] = call[p]
    BY <1>7 DEF Alone, MallocAlloc, NoMemory
  <2>2. CASE Goto(p, "s_unprot") /\ UNCHANGED res
    <3>1. AbsPhase'[p] = AbsPhase[p] /\ AbsRes'[p] = AbsRes[p]
      BY ZenonT(40), <1>7, <2>2, <1>b DEF MallocAlloc
    <3> QED
      BY <2>1, <3>1, <1>s
  <2>3. CASE NoMemory(p)
    <3>1. AbsPhase[p] = "called" /\ AbsPhase'[p] = "applied" /\ AbsRes'[p] = FALSE /\ call[p].op = "add"
      BY <1>7, <2>3, <1>b, <1>c DEF MallocAlloc, NoMemory
    <3> QED
      BY <2>1, <3>1, <1>f
  <2> QED
    BY <1>7, <2>2, <2>3 DEF MallocAlloc
<1>8. ASSUME NEW p \in Proc, PersistUnprotect(p) PROVE MapStep
  <2>1. Alone(p) /\ UNCHANGED chain /\ call'[p] = call[p]
    BY <1>8 DEF Alone, PersistUnprotect
  <2>2. AbsPhase'[p] = AbsPhase[p] /\ AbsRes'[p] = AbsRes[p]
    BY ZenonT(40), <1>8, <1>b DEF PersistUnprotect
  <2> QED
    BY <2>1, <2>2, <1>s
<1>9. ASSUME NEW p \in Proc, PersistCopy(p) PROVE MapStep
  <2>1. Alone(p) /\ UNCHANGED chain /\ call'[p] = call[p]
    BY <1>9 DEF Alone, PersistCopy, NewEntry
  <2>2. AbsPhase'[p] = AbsPhase[p] /\ AbsRes'[p] = AbsRes[p]
    BY ZenonT(40), <1>9, <1>b DEF PersistCopy, NewEntry
  <2> QED
    BY <2>1, <2>2, <1>s
<1>10. ASSUME NEW p \in Proc, WLockSma(p) PROVE MapStep
  <2>1. Alone(p) /\ UNCHANGED chain /\ call'[p] = call[p]
    BY <1>10 DEF Alone, WLockSma, SMA_LOCK
  <2>2. AbsPhase'[p] = AbsPhase[p] /\ AbsRes'[p] = AbsRes[p]
    BY ZenonT(40), <1>10, <1>b DEF WLockSma, SMA_LOCK
  <2> QED
    BY <2>1, <2>2, <1>s
<1>11. ASSUME NEW p \in Proc, WLockSmaFails(p) PROVE MapStep
  <2>1. Alone(p) /\ UNCHANGED chain /\ call'[p] = call[p]
    BY <1>11 DEF Alone, WLockSmaFails
  <2>2. AbsPhase[p] = "called" /\ AbsPhase'[p] = "applied" /\ AbsRes'[p] = FALSE /\ call[p].op = "add"
    BY <1>11, <1>b, <1>c DEF WLockSmaFails
  <2> QED
    BY <2>1, <2>2, <1>f
<1>12. ASSUME NEW p \in Proc, WLockFine(p) PROVE MapStep
  <2>1. Alone(p) /\ UNCHANGED chain /\ call'[p] = call[p]
    BY <1>12 DEF Alone, WLockFine, TakeFineLock
  <2>2. AbsPhase'[p] = AbsPhase[p] /\ AbsRes'[p] = AbsRes[p]
    BY ZenonT(40), <1>12, <1>b DEF WLockFine, TakeFineLock
  <2> QED
    BY <2>1, <2>2, <1>s
<1>13. ASSUME NEW p \in Proc, WLockFineFails(p) PROVE MapStep
  <2>1. Alone(p) /\ UNCHANGED chain /\ call'[p] = call[p]
    BY <1>13 DEF Alone, WLockFineFails, SMA_UNLOCK
  <2>2. AbsPhase[p] = "called" /\ AbsPhase'[p] = "applied" /\ AbsRes'[p] = FALSE /\ call[p].op = "add"
    BY <1>13, <1>b, <1>c DEF WLockFineFails, SMA_UNLOCK
  <2> QED
    BY <2>1, <2>2, <1>f
<1>14. ASSUME NEW p \in Proc, InsertExclusive(p) PROVE MapStep
  <2>1. Alone(p) /\ call'[p] = call[p] /\ pc[p] = "s_insert" /\ call[p].op = "add"
    BY <1>14, <1>c DEF Alone, InsertExclusive
  <2>2. CASE UNCHANGED chain /\ Answer(p, FALSE) /\ Goto(p, "s_wunlock")
    <3>1. AbsPhase[p] = "called" /\ AbsPhase'[p] = "applied" /\ AbsRes'[p] = FALSE
      BY <2>1, <2>2, <1>b
    <3> QED
      BY <2>1, <2>2, <3>1, <1>f
  <2>3. CASE Links(p) /\ Answer(p, TRUE) /\ Goto(p, "s_count")
    <3>1. AbsPhase[p] = "called" /\ AbsPhase'[p] = "applied" /\ AbsRes'[p] = TRUE
      BY <2>1, <2>3, <1>b
    <3>2. AbsCall' = AbsCall
      BY <2>1, <1>n
    <3>3. AbsCall[p].op = "add" /\ AbsCall[p].key = call[p].key /\ AbsCall[p].val = call[p].val
      BY <2>1, <1>d
    <3>4. Map!Answer(p, TRUE)
      BY <2>1, <3>1, <3>2, <1>l DEF Map!Answer
    <3>5. Map!AddNew(p)
      BY <2>3, <3>2, <3>3, <3>4, MapGrows DEF Map!AddNew
    <3> QED
      BY <3>5 DEF Map!Next, Map!Apply
  <2> QED
    BY <1>14, <2>2, <2>3 DEF InsertExclusive, Links
<1>15. ASSUME NEW p \in Proc, InsertCount(p) PROVE MapStep
  <2>1. Alone(p) /\ UNCHANGED chain /\ call'[p] = call[p]
    BY <1>15 DEF Alone, InsertCount
  <2>2. AbsPhase'[p] = AbsPhase[p] /\ AbsRes'[p] = AbsRes[p]
    BY ZenonT(40), <1>15, <1>b DEF InsertCount
  <2> QED
    BY <2>1, <2>2, <1>s
<1>16. ASSUME NEW p \in Proc, WUnlockFine(p) PROVE MapStep
  <2>1. Alone(p) /\ UNCHANGED chain /\ call'[p] = call[p]
    BY <1>16 DEF Alone, WUnlockFine
  <2>2. AbsPhase'[p] = AbsPhase[p] /\ AbsRes'[p] = AbsRes[p]
    BY ZenonT(40), <1>16, <1>b DEF WUnlockFine
  <2> QED
    BY <2>1, <2>2, <1>s
<1>17. ASSUME NEW p \in Proc, WUnlockSma(p) PROVE MapStep
  <2>1. Alone(p) /\ UNCHANGED chain /\ call'[p] = call[p]
    BY <1>17 DEF Alone, WUnlockSma, SMA_UNLOCK, FreeIfRefused
  <2>2. AbsPhase'[p] = AbsPhase[p] /\ AbsRes'[p] = AbsRes[p]
    BY ZenonT(40), <1>17, <1>b DEF WUnlockSma, SMA_UNLOCK, FreeIfRefused
  <2> QED
    BY <2>1, <2>2, <1>s
<1>18. ASSUME NEW p \in Proc, FreeLock(p) PROVE MapStep
  <2>1. Alone(p) /\ UNCHANGED chain /\ call'[p] = call[p]
    BY <1>18 DEF Alone, FreeLock, SMA_LOCK
  <2>2. AbsPhase'[p] = AbsPhase[p] /\ AbsRes'[p] = AbsRes[p]
    BY ZenonT(40), <1>18, <1>b DEF FreeLock, SMA_LOCK
  <2> QED
    BY <2>1, <2>2, <1>s
<1>19. ASSUME NEW p \in Proc, FreeLockFails(p) PROVE MapStep
  <2>1. Alone(p) /\ UNCHANGED chain /\ call'[p] = call[p]
    BY <1>19 DEF Alone, FreeLockFails
  <2>2. AbsPhase'[p] = AbsPhase[p] /\ AbsRes'[p] = AbsRes[p]
    BY ZenonT(40), <1>19, <1>b DEF FreeLockFails
  <2> QED
    BY <2>1, <2>2, <1>s
<1>20. ASSUME NEW p \in Proc, FreeDealloc(p) PROVE MapStep
  <2>1. Alone(p) /\ UNCHANGED chain /\ call'[p] = call[p]
    BY <1>20 DEF Alone, FreeDealloc, SMA_UNLOCK
  <2>2. AbsPhase'[p] = AbsPhase[p] /\ AbsRes'[p] = AbsRes[p]
    BY ZenonT(40), <1>20, <1>b DEF FreeDealloc, SMA_UNLOCK
  <2> QED
    BY <2>1, <2>2, <1>s
<1>21. ASSUME NEW p \in Proc, RLock(p) PROVE MapStep
  <2>1. Alone(p) /\ UNCHANGED chain /\ call'[p] = call[p]
    BY <1>21 DEF Alone, RLock
  <2>2. AbsPhase'[p] = AbsPhase[p] /\ AbsRes'[p] = AbsRes[p]
    BY ZenonT(40), <1>21, <1>b DEF RLock
  <2> QED
    BY <2>1, <2>2, <1>s
<1>22. ASSUME NEW p \in Proc, RLockFails(p) PROVE MapStep
  <2>1. Alone(p) /\ UNCHANGED chain /\ call'[p] = call[p] /\ pc[p] = "f_rlock" /\ LockMayFail
    BY <1>22 DEF Alone, RLockFails
  <2>2. call[p].op \in {"fetch", "exists", "stat"}
    BY <2>1, <1>c
  <2>3. /\ AbsPhase[p] = "called" /\ AbsPhase'[p] = "applied"
        /\ AbsRes'[p] = IF call[p].op = "fetch" THEN None ELSE FALSE
    BY <1>22, <2>1, <2>2, <1>b DEF RLockFails
  <2>4. AbsCall' = AbsCall /\ AbsCall[p].op = call[p].op
    BY <2>1, <2>2, <1>d, <1>n
  <2>5. Map!Answer(p, IF AbsCall[p].op = "fetch" THEN None ELSE FALSE)
    BY <2>1, <2>3, <2>4, <1>l DEF Map!Answer
  <2>6. Map!ReadFails(p)
    BY <2>1, <2>2, <2>4, <2>5, MapKept DEF Map!ReadFails
  <2> QED
    BY <2>6 DEF Map!Next, Map!Apply
<1>23. ASSUME NEW p \in Proc, Walk(p) PROVE MapStep
  <2>1. /\ Alone(p) /\ UNCHANGED <<chain, mem, call, res>> /\ pc[p] = "f_walk"
        /\ call[p].op \in {"fetch", "exists", "stat"} /\ call[p].key \in Key
    BY <1>23, <1>c, <1>e DEF Alone, Walk
  <2>2. CASE UNCHANGED <<pc, ent>>
    <3>1. AbsPhase'[p] = AbsPhase[p] /\ AbsRes'[p] = AbsRes[p]
      BY <2>1, <2>2, <1>b
    <3> QED
      BY <2>1, <2>2, <3>1, <1>s
  <2>3. CASE Goto(p, AfterWalk(p))
    <3>1. pc'[p] \in {"f_count", "f_runlock"}
      BY <2>3 DEF AfterWalk
    <3>2. /\ ent'[p] = None => \A c \in Linked' : mem'[c].key # call[p].key
          /\ ent'[p] # None => ent'[p] \in Linked' /\ mem'[ent'[p]].key = call[p].key
      BY <2>1, <3>1 DEF RefStep, RefInv, IndInv, AnswerStable
    <3>3. AbsMap' = AbsMap
      BY <2>1, MapKept
    <3>4. /\ ent'[p] = None => AbsMap[call[p].key] = None
          /\ ent'[p] # None => AbsMap[call[p].key] = mem'[ent'[p]].val /\ mem'[ent'[p]].val \in Val
      BY <2>1, <3>2, <3>3, BothEnds DEF MapExact, RefStep, RefInv, LinkedValues
    <3>5. AbsPhase[p] = "called" /\ AbsRes[p] = None
      BY <2>1, <1>b
    <3>6. AbsCall' = AbsCall /\ AbsCall[p].op = call[p].op /\ AbsCall[p].key = call[p].key
      BY <2>1, <1>d, <1>n
    <3>7. CASE call[p].op = "fetch" /\ ent'[p] # None
      <4>1. Decoding(p)'
        BY <2>1, <3>1, <3>7 DEF Decoding
      <4>2. AbsPhase'[p] = AbsPhase[p] /\ AbsRes'[p] = AbsRes[p]
        BY <4>1, <3>5, <1>b
      <4> QED
        BY <2>1, <4>2, <1>s
    <3>8. CASE call[p].op = "fetch" /\ ent'[p] = None
      <4>1. AbsPhase'[p] = "applied" /\ AbsRes'[p] = None
        BY <2>1, <3>1, <3>8, <1>b DEF Decoding
      <4>2. Map!Answer(p, AbsMap[AbsCall[p].key])
        BY <2>1, <3>4, <3>5, <3>6, <3>8, <4>1, <1>l DEF Map!Answer
      <4>3. Map!Fetch(p)
        BY <3>3, <3>6, <3>8, <4>2 DEF Map!Fetch
      <4> QED
        BY <4>3 DEF Map!Next, Map!Apply
    <3>9. CASE call[p].op # "fetch"
      <4>1. AbsPhase'[p] = "applied" /\ AbsRes'[p] = (ent'[p] # None)
        BY <2>1, <3>1, <3>9, <1>b DEF Decoding
      <4>2. AbsRes'[p] = (AbsMap[AbsCall[p].key] # None)
        BY <3>4, <3>6, <4>1, CacheAssumption
      <4>3. Map!Answer(p, AbsMap[AbsCall[p].key] # None)
        BY <2>1, <3>5, <3>6, <4>1, <4>2, <1>l DEF Map!Answer
      <4>4. Map!Exists(p)
        BY <2>1, <3>3, <3>6, <3>9, <4>3 DEF Map!Exists
      <4> QED
        BY <4>4 DEF Map!Next, Map!Apply
    <3> QED
      BY <3>7, <3>8, <3>9
  <2> QED
    BY <1>23, <2>2, <2>3 DEF Walk
<1>24. ASSUME NEW p \in Proc, Count(p) PROVE MapStep
  <2>1. Alone(p) /\ UNCHANGED chain /\ call'[p] = call[p] /\ ent'[p] = ent[p]
    BY <1>24 DEF Alone, Count, AfterCount
  <2>2. pc[p] \in FoundPcs /\ pc'[p] \in FoundPcs
    BY <1>24 DEF Count, AfterCount
  <2> QED
    BY <2>1, <2>2, <1>r, <1>s
<1>25. ASSUME NEW p \in Proc, CountStore(p) PROVE MapStep
  <2>1. Alone(p) /\ UNCHANGED chain /\ call'[p] = call[p] /\ ent'[p] = ent[p]
    BY <1>25 DEF Alone, CountStore, AfterCount
  <2>2. pc[p] \in FoundPcs /\ pc'[p] \in FoundPcs
    BY <1>25 DEF CountStore, AfterCount
  <2> QED
    BY <2>1, <2>2, <1>r, <1>s
<1>26. ASSUME NEW p \in Proc, CountEntry(p) PROVE MapStep
  <2>1. Alone(p) /\ UNCHANGED chain /\ call'[p] = call[p] /\ ent'[p] = ent[p]
    BY <1>26 DEF Alone, CountEntry
  <2>2. pc[p] \in FoundPcs /\ pc'[p] \in FoundPcs
    BY <1>26 DEF CountEntry
  <2> QED
    BY <2>1, <2>2, <1>r, <1>s
<1>27. ASSUME NEW p \in Proc, RUnlock(p) PROVE MapStep
  <2>1. /\ Alone(p) /\ UNCHANGED chain /\ call'[p] = call[p] /\ ent'[p] = ent[p]
        /\ pc[p] = "f_runlock" /\ call[p].op \in {"fetch", "exists", "stat"}
    BY <1>27, <1>c DEF Alone, RUnlock
  <2>2. CASE pc'[p] = "f_unpersist"
    BY <2>1, <2>2, <1>r, <1>s
  <2>3. CASE pc'[p] = "ret"
    <3>1. /\ res'[p] = IF call[p].op # "fetch" THEN ent[p] # None ELSE None
          /\ ~Decoding(p)
      BY <1>27, <2>3 DEF RUnlock, Decoding
    <3>2. AbsPhase'[p] = "applied" /\ AbsRes'[p] = res'[p]
      BY <2>1, <2>3, <1>b
    <3>3. /\ AbsPhase[p] = "applied"
          /\ AbsRes[p] = IF call[p].op # "fetch" THEN ent[p] # None ELSE None
      BY <2>1, <3>1, <1>b
    <3> QED
      BY <2>1, <3>1, <3>2, <3>3, <1>s
  <2> QED
    BY <1>27, <2>2, <2>3 DEF RUnlock
<1>28. ASSUME NEW p \in Proc, Unpersist(p) PROVE MapStep
  <2>1. pc[p] = "f_unpersist" /\ res'[p] = mem[ent[p]].val
    BY <1>28 DEF Unpersist
  <2>2. Fetched(p)
    BY <1>28 DEF Alone, Unpersist, Fetched
  <2>3. Map!Answer(p, AbsMap[AbsCall[p].key]) /\ AbsCall[p].op = "fetch"
    BY <2>1, <2>2, <1>t
  <2>4. Map!Fetch(p)
    BY <2>2, <2>3, MapKept DEF Map!Fetch, Fetched
  <2> QED
    BY <2>4 DEF Map!Next, Map!Apply
<1>29. ASSUME NEW p \in Proc, RLockGlobal(p) PROVE MapStep
  <2>1. Alone(p) /\ UNCHANGED chain /\ call'[p] = call[p]
    BY <1>29 DEF Alone, RLockGlobal, TakeSmaRead
  <2>2. AbsPhase'[p] = AbsPhase[p] /\ AbsRes'[p] = AbsRes[p]
    BY ZenonT(40), <1>29, <1>b DEF RLockGlobal, TakeSmaRead
  <2> QED
    BY <2>1, <2>2, <1>s
<1>30. ASSUME NEW p \in Proc, RLockGlobalFails(p) PROVE MapStep
  <2>1. /\ Alone(p) /\ UNCHANGED chain /\ call'[p] = call[p]
        /\ call[p].op \in {"info", "smainfo"}
    BY <1>30, <1>c DEF Alone, RLockGlobalFails
  <2>2. AbsPhase'[p] = AbsPhase[p] /\ AbsRes'[p] = AbsRes[p]
    BY <2>1, <1>b
  <2> QED
    BY <2>1, <2>2, <1>s
<1>31. ASSUME NEW p \in Proc, InfoCount(p) PROVE MapStep
  <2>1. Alone(p) /\ UNCHANGED chain /\ call'[p] = call[p]
    BY <1>31 DEF Alone, InfoCount
  <2>2. AbsPhase'[p] = AbsPhase[p] /\ AbsRes'[p] = AbsRes[p]
    BY ZenonT(40), <1>31, <1>b DEF InfoCount
  <2> QED
    BY <2>1, <2>2, <1>s
<1>32. ASSUME NEW p \in Proc, InfoList(p) PROVE MapStep
  <2>1. /\ Alone(p) /\ UNCHANGED chain /\ call'[p] = call[p]
        /\ call[p].op \in {"info", "smainfo"}
    BY <1>32, <1>c DEF Alone, InfoList
  <2>2. AbsPhase'[p] = AbsPhase[p] /\ AbsRes'[p] = AbsRes[p]
    BY <2>1, <1>b
  <2> QED
    BY <2>1, <2>2, <1>s
<1>33. ASSUME NEW p \in Proc, SmaInfoLock(p) PROVE MapStep
  <2>1. Alone(p) /\ UNCHANGED chain /\ call'[p] = call[p]
    BY <1>33 DEF Alone, SmaInfoLock, SMA_LOCK
  <2>2. AbsPhase'[p] = AbsPhase[p] /\ AbsRes'[p] = AbsRes[p]
    BY ZenonT(40), <1>33, <1>b DEF SmaInfoLock, SMA_LOCK
  <2> QED
    BY <2>1, <2>2, <1>s
<1>34. ASSUME NEW p \in Proc, SmaInfoLockFails(p) PROVE MapStep
  <2>1. Alone(p) /\ UNCHANGED chain /\ call'[p] = call[p]
    BY <1>34 DEF Alone, SmaInfoLockFails
  <2>2. AbsPhase'[p] = AbsPhase[p] /\ AbsRes'[p] = AbsRes[p]
    BY ZenonT(40), <1>34, <1>b DEF SmaInfoLockFails
  <2> QED
    BY <2>1, <2>2, <1>s
<1>35. ASSUME NEW p \in Proc, SmaInfoUnlock(p) PROVE MapStep
  <2>1. /\ Alone(p) /\ UNCHANGED chain /\ call'[p] = call[p]
        /\ call[p].op \in {"info", "smainfo"}
    BY <1>35, <1>c DEF Alone, SmaInfoUnlock, SMA_UNLOCK
  <2>2. AbsPhase'[p] = AbsPhase[p] /\ AbsRes'[p] = AbsRes[p]
    BY <2>1, <1>b
  <2> QED
    BY <2>1, <2>2, <1>s
<1>36. ASSUME NEW p \in Proc, SmaInfoBailout(p) PROVE MapStep
  <2>1. /\ Alone(p) /\ UNCHANGED chain /\ call'[p] = call[p]
        /\ call[p].op \in {"info", "smainfo"}
    BY <1>36, <1>c DEF Alone, SmaInfoBailout
  <2>2. AbsPhase'[p] = AbsPhase[p] /\ AbsRes'[p] = AbsRes[p]
    BY <2>1, <1>b
  <2> QED
    BY <2>1, <2>2, <1>s
<1>37. ASSUME NEW p \in Proc, Crash(p) PROVE MapStep
  <2>1. Alone(p) /\ UNCHANGED chain /\ pc'[p] = "idle" /\ pc[p] # "idle"
    BY <1>37 DEF Alone, Crash, NoCall
  <2>2. AbsPhase'[p] = "idle" /\ AbsCall'[p] = Map!NoCall /\ AbsRes'[p] = None
    BY <2>1, <1>b
  <2>3. CASE call[p].op \in {"add", "fetch", "exists", "stat"}
    <3>1. AbsPhase[p] # "idle"
      BY <2>1, <2>3, <1>b, <1>m
    <3>2. Map!Leave(p)
      BY <2>1, <2>2, <1>l, MapKept DEF Map!Leave
    <3> QED
      BY <3>1, <3>2 DEF Map!Next, Map!Abort
  <2>4. CASE call[p].op \notin {"add", "fetch", "exists", "stat"}
    <3>1. AbsPhase[p] = "idle" /\ AbsCall[p] = Map!NoCall /\ AbsRes[p] = None
      BY <2>4, <1>b
    <3> QED
      BY <2>1, <2>2, <3>1, LiftStutter
  <2> QED
    BY <2>3, <2>4
<1>38. ASSUME NEW p \in Proc, UnpersistFails(p) PROVE MapStep
  <2>1. pc[p] = "f_unpersist" /\ mem[ent[p]].val \in Serialized /\ res'[p] = None
    BY <1>38 DEF UnpersistFails
  <2>2. Fetched(p)
    BY <1>38 DEF Alone, UnpersistFails, Fetched
  <2>3. /\ Map!Answer(p, None) /\ AbsCall[p].op = "fetch"
        /\ AbsMap[AbsCall[p].key] \in Serialized
    BY <2>1, <2>2, <1>t
  <2>4. Map!DecodeFails(p)
    BY <2>2, <2>3, MapKept DEF Map!DecodeFails, Fetched
  <2> QED
    BY <2>4 DEF Map!Next, Map!Apply
<1>90. CASE UNCHANGED vars
  <2>1. Linked' = Linked
    BY <1>90, LinkedFrame DEF vars, shared
  <2> QED
    BY <1>90, <2>1 DEF vars, locks, shared, local, bounds, AbsMap, AbsPhase, AbsCall, AbsRes, PhaseOf, CallOf, ResultOf, MapCall
<1> QED
  BY <1>1, <1>2, <1>3, <1>4, <1>5, <1>6, <1>7, <1>8, <1>9, <1>10, <1>11, <1>12, <1>13,
      <1>14, <1>15, <1>16, <1>17, <1>18, <1>19, <1>20, <1>21, <1>22, <1>23, <1>24, <1>25,
      <1>26, <1>27, <1>28, <1>29, <1>30, <1>31, <1>32, <1>33, <1>34, <1>35, <1>36, <1>37,
      <1>38, <1>90 DEF RefStep, Next, Step, Store, Read, Info, Done

\* The initial states of the cache are initial states of the map.
LEMMA InitMapped == Init => Map!Init
<1> SUFFICES ASSUME Init PROVE Map!Init
  OBVIOUS
<1>1. Linked = {}
  BY DEF Init, Linked
<1>2. AbsMap = [k \in Key |-> None]
  BY <1>1 DEF AbsMap
<1>3. \A p \in Proc : ~MapCall(p)
  BY DEF Init, MapCall, NoCall
<1>4. /\ AbsPhase = [p \in Proc |-> "idle"]
      /\ AbsCall = [p \in Proc |-> Map!NoCall]
      /\ AbsRes = [p \in Proc |-> None]
  BY <1>3 DEF AbsPhase, AbsCall, AbsRes, PhaseOf, CallOf, ResultOf, Map!NoCall
<1> QED
  BY <1>2, <1>4 DEF Map!Init

\* Adds, fetches, existence tests and stats of any number of workers behave as
\* if each took effect at one instant on a map whose keys are written at most
\* once, whatever locks fail and whoever dies on the way
\* (immutable_cache_cache_store, _fetch, _exists, _stat).
THEOREM CacheImplementsMap == Spec => ImplementsMap
<1>1. RefInv /\ RefInv' /\ [Next]_vars => [Map!Next]_(Map!vars)
  BY StepMapped DEF RefStep, MapStep, Map!vars
<1> QED
  BY <1>1, InitMapped, RefInvariance, PTL DEF Spec, ImplementsMap, Map!Safety
=============================================================================
