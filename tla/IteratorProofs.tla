---------------------------- MODULE IteratorProofs ----------------------------
(* Proofs about Iterator, for any table, chunk size, selection of keys and    *)
(* number of calls: the lock is released, the current item stays, and a loop  *)
(* yields each matching entry once and, if no lock call fails, all of them.   *)
EXTENDS Iterator, FiniteSetTheorems, TLAPS

-----------------------------------------------------------------------------
(* The inductive invariant.                                                  *)

Walking == pc \in {"f_walk", "wake"}
Fetching == Walking \/ pc \in {"f_lock", "fetched"}

\* An object has the fields of an iterator; the totals may be any numbers.
IsObject(o) ==
  o = [initialized |-> o.initialized, slot_idx |-> o.slot_idx, stack_idx |-> o.stack_idx,
       totals_flag |-> o.totals_flag, count |-> o.count, hits |-> o.hits]

\* Types of the variables, and where the method in progress can be.
IterTypeOK ==
  /\ chain \in [Slot -> Seq(Key)]
  /\ locked \in BOOLEAN
  /\ IsObject(it)
  /\ it.slot_idx \in 0 .. NSlots /\ it.stack_idx \in Nat
  /\ stack \in Seq(Key)
  /\ pc \in {"script", "f_lock", "f_walk", "wake", "fetched", "t_lock", "t_walk", "answer", "dead"}
  /\ pc \notin {"script", "dead"} => meth \in Methods
  /\ at \in Nat
  /\ turn \in {"construct", "rewind", "valid", "current", "key", "next"}
  /\ script \in {"foreach", "free"}
  /\ present \subseteq Key

\* A chain holds keys of its slot, none of them twice.
Chained == \A s \in Slot : IsInjective(chain[s]) /\ \A i \in DOMAIN chain[s] : SlotOf[chain[s][i]] = s

\* The lock is held in the loops of fetch_active and totals, and only there; a
\* walk has passed as many entries as the chain it is in has.
Held ==
  /\ locked <=> pc \in {"f_walk", "wake", "t_walk"}
  /\ Walking /\ at > 0 => it.slot_idx \in Slot /\ at <= Len(chain[it.slot_idx])
  /\ Fetching => meth # "totals"
  /\ pc \in {"t_lock", "t_walk"} => meth = "totals"
  /\ pc = "f_lock" => at = 0

\* The item last answered is the one at stack_idx, and no fetch replaces it.
CursorKept ==
  cursor \in Key => /\ ~Fetching /\ pc # "dead"
                    /\ it.stack_idx < Len(stack) /\ stack[it.stack_idx + 1] = cursor

\* Where foreach is in the chunk when it calls or is in a method.
Position ==
  /\ pc \notin {"script", "dead"} => meth = turn \/ (meth = "totals" /\ turn = "next")
  /\ Fetching => turn \in {"rewind", "valid"}
  /\ pc = "answer" => turn # "rewind"
  /\ turn \in {"current", "key", "next"} => it.stack_idx < Len(stack)
  /\ turn = "rewind" /\ Fetching => it.stack_idx = 0
  /\ turn = "valid" =>
       /\ pc = "script" => it.stack_idx <= Len(stack)
       /\ pc = "answer" => it.stack_idx < Len(stack)
       /\ pc = "f_lock" => it.stack_idx = Len(stack)
       /\ pc = "fetched" => stack = <<>> \/ it.stack_idx = 0

\* Entries that the fetches of the loop have passed; items of the chunk that
\* have been yielded.
Passed(k) ==
  \/ SlotOf[k] < it.slot_idx
  \/ Walking /\ SlotOf[k] = it.slot_idx /\ \E i \in 1 .. at : chain[it.slot_idx][i] = k
Yielded ==
  IF Walking THEN 0 ELSE IF turn \in {"key", "next"} THEN it.stack_idx + 1 ELSE it.stack_idx

\* What is in the chunk has been passed once, and is yielded once.
Once ==
  /\ IsInjective(seen) /\ Range(seen) \subseteq Matches
  /\ pc # "dead" => \A k \in Range(seen) : Passed(k)
  /\ pc \notin {"dead", "f_lock"} =>
       /\ IsInjective(stack)
       /\ \A i \in DOMAIN stack : stack[i] \in Matches /\ Passed(stack[i])
       /\ \A i \in DOMAIN stack : i > Yielded => stack[i] \notin Range(seen)

\* An entry that the loop must yield has been yielded, is in the chunk, or is
\* still to be passed.
InChunk(k) == pc # "f_lock" /\ \E i \in DOMAIN stack : i > Yielded /\ stack[i] = k
Due ==
  /\ pc # "dead" => \A k \in present : k \in Matches /\ (k \in Range(seen) \/ InChunk(k) \/ ~Passed(k))
  /\ pc = "fetched" /\ stack = <<>> => present = {} \/ it.slot_idx = NSlots
  /\ pc = "script" /\ turn = "rewind" => present \subseteq Range(seen)

ForeachInv == script = "foreach" => Position /\ seen \in Seq(Key) /\ Once /\ Due

IterInv == IterTypeOK /\ Chained /\ Held /\ CursorKept /\ ForeachInv

-----------------------------------------------------------------------------
(* Sequences, the iterator object and the table.                             *)

\* One more element at the end of a sequence.
LEMMA AppendFacts ==
  ASSUME NEW S, NEW s \in Seq(S), NEW x \in S
  PROVE  /\ Append(s, x) \in Seq(S) /\ Len(Append(s, x)) = Len(s) + 1
         /\ DOMAIN s = 1 .. Len(s) /\ DOMAIN Append(s, x) = 1 .. Len(s) + 1
         /\ Append(s, x)[Len(s) + 1] = x
         /\ \A i \in DOMAIN s : Append(s, x)[i] = s[i]
         /\ \A i \in DOMAIN Append(s, x) : i \in DOMAIN s \/ i = Len(s) + 1
         /\ Range(Append(s, x)) = Range(s) \cup {x}
         /\ IsInjective(s) /\ x \notin Range(s) => IsInjective(Append(s, x))
<1> DEFINE a == Append(s, x)
           n == Len(s)
<1>1. /\ a \in Seq(S) /\ Len(a) = n + 1 /\ n \in Nat
      /\ DOMAIN s = 1 .. n /\ DOMAIN a = 1 .. n + 1 /\ a[n + 1] = x
      /\ \A i \in 1 .. n : a[i] = s[i]
  OBVIOUS
<1> HIDE DEF a, n
<1>2. \A i \in 1 .. n + 1 : i \in 1 .. n \/ i = n + 1
  BY <1>1
<1>3. n + 1 \in 1 .. n + 1 /\ \A i \in 1 .. n : i \in 1 .. n + 1
  BY <1>1
<1>4. Range(a) = Range(s) \cup {x}
  <2>1. \A y : (\E i \in 1 .. n + 1 : a[i] = y) <=> (\E i \in 1 .. n : s[i] = y) \/ y = x
    BY <1>1, <1>2, <1>3
  <2> QED
    BY <1>1, <2>1 DEF Range
<1>5. ASSUME IsInjective(s), x \notin Range(s) PROVE IsInjective(a)
  <2> SUFFICES ASSUME NEW i \in 1 .. n + 1, NEW j \in 1 .. n + 1, a[i] = a[j] PROVE i = j
    BY <1>1 DEF IsInjective
  <2>1. \A h \in 1 .. n : s[h] # x
    BY <1>1, <1>5 DEF Range
  <2> QED
    BY <1>1, <1>2, <1>5, <2>1 DEF IsInjective
<1> QED
  BY <1>1, <1>2, <1>4, <1>5 DEF a, n

\* The empty sequence.
LEMMA EmptyFacts ==
  /\ Range(<<>>) = {} /\ IsInjective(<<>>) /\ DOMAIN <<>> = {} /\ Len(<<>>) = 0
  /\ \A S : <<>> \in Seq(S)
  BY DEF Range, IsInjective

\* Assignments to fields of the iterator object.
LEMMA ObjectFacts ==
  ASSUME IterTypeOK
  PROVE  /\ \A x : [it EXCEPT !.slot_idx = x] =
              [initialized |-> it.initialized, slot_idx |-> x, stack_idx |-> it.stack_idx,
               totals_flag |-> it.totals_flag, count |-> it.count, hits |-> it.hits]
         /\ \A x : [it EXCEPT !.stack_idx = x] =
              [initialized |-> it.initialized, slot_idx |-> it.slot_idx, stack_idx |-> x,
               totals_flag |-> it.totals_flag, count |-> it.count, hits |-> it.hits]
         /\ \A x, y : [it EXCEPT !.slot_idx = x, !.stack_idx = y] =
              [initialized |-> it.initialized, slot_idx |-> x, stack_idx |-> y,
               totals_flag |-> it.totals_flag, count |-> it.count, hits |-> it.hits]
         /\ \A x : [it EXCEPT !.totals_flag = x] =
              [initialized |-> it.initialized, slot_idx |-> it.slot_idx, stack_idx |-> it.stack_idx,
               totals_flag |-> x, count |-> it.count, hits |-> it.hits]
         /\ \A x, y : [it EXCEPT !.count = x, !.hits = y] =
              [initialized |-> it.initialized, slot_idx |-> it.slot_idx, stack_idx |-> it.stack_idx,
               totals_flag |-> it.totals_flag, count |-> x, hits |-> y]
<1>1. it = [initialized |-> it.initialized, slot_idx |-> it.slot_idx, stack_idx |-> it.stack_idx,
            totals_flag |-> it.totals_flag, count |-> it.count, hits |-> it.hits]
  BY DEF IterTypeOK, IsObject
<1>2. ASSUME NEW x PROVE [it EXCEPT !.slot_idx = x] =
        [initialized |-> it.initialized, slot_idx |-> x, stack_idx |-> it.stack_idx,
         totals_flag |-> it.totals_flag, count |-> it.count, hits |-> it.hits]
  BY <1>1
<1>3. ASSUME NEW x PROVE [it EXCEPT !.stack_idx = x] =
        [initialized |-> it.initialized, slot_idx |-> it.slot_idx, stack_idx |-> x,
         totals_flag |-> it.totals_flag, count |-> it.count, hits |-> it.hits]
  BY <1>1
<1>4. ASSUME NEW x, NEW y PROVE [it EXCEPT !.slot_idx = x, !.stack_idx = y] =
        [initialized |-> it.initialized, slot_idx |-> x, stack_idx |-> y,
         totals_flag |-> it.totals_flag, count |-> it.count, hits |-> it.hits]
  <2> DEFINE j == [it EXCEPT !.slot_idx = x]
  <2>1. [it EXCEPT !.slot_idx = x, !.stack_idx = y] = [j EXCEPT !.stack_idx = y]
    BY <1>1
  <2>2. j = [initialized |-> it.initialized, slot_idx |-> x, stack_idx |-> it.stack_idx,
             totals_flag |-> it.totals_flag, count |-> it.count, hits |-> it.hits]
    BY <1>1
  <2> HIDE DEF j
  <2> QED
    BY <2>1, <2>2
<1>5. ASSUME NEW x PROVE [it EXCEPT !.totals_flag = x] =
        [initialized |-> it.initialized, slot_idx |-> it.slot_idx, stack_idx |-> it.stack_idx,
         totals_flag |-> x, count |-> it.count, hits |-> it.hits]
  BY <1>1
<1>6. ASSUME NEW x, NEW y PROVE [it EXCEPT !.count = x, !.hits = y] =
        [initialized |-> it.initialized, slot_idx |-> it.slot_idx, stack_idx |-> it.stack_idx,
         totals_flag |-> it.totals_flag, count |-> x, hits |-> y]
  <2> DEFINE j == [it EXCEPT !.count = x]
  <2>1. [it EXCEPT !.count = x, !.hits = y] = [j EXCEPT !.hits = y]
    BY <1>1
  <2>2. j = [initialized |-> it.initialized, slot_idx |-> it.slot_idx, stack_idx |-> it.stack_idx,
             totals_flag |-> it.totals_flag, count |-> x, hits |-> it.hits]
    BY <1>1
  <2> HIDE DEF j
  <2> QED
    BY <2>1, <2>2
<1> QED
  BY <1>2, <1>3, <1>4, <1>5, <1>6

\* The matching entries are those of the chains.
LEMMA MatchFacts ==
  ASSUME IterTypeOK, Chained
  PROVE  /\ \A k : k \in Matches <=> k \in Match /\ \E s \in Slot : \E i \in DOMAIN chain[s] : chain[s][i] = k
         /\ Matches \subseteq Key
         /\ \A k \in Matches : SlotOf[k] \in Slot /\ \E i \in DOMAIN chain[SlotOf[k]] : chain[SlotOf[k]][i] = k
<1>1. \A k : k \in Linked <=> \E s \in Slot : \E i \in DOMAIN chain[s] : chain[s][i] = k
  BY DEF Linked, Range
<1>2. \A k : k \in Matches <=> k \in Match /\ \E s \in Slot : \E i \in DOMAIN chain[s] : chain[s][i] = k
  BY <1>1 DEF Matches
<1>3. Matches \subseteq Key
  BY IteratorAssumption DEF Matches
<1> QED
  BY <1>2, <1>3 DEF Chained

\* Numbers of slots.
LEMMA SlotFacts ==
  /\ NSlots \in Nat /\ Slot \subseteq Nat /\ \A s \in Slot : s < NSlots /\ s + 1 \in 0 .. NSlots
  /\ \A k \in Key : SlotOf[k] \in Slot
  /\ \A i \in 0 .. NSlots : i \in Nat /\ (i \in Slot \/ i = NSlots)
<1>1. NSlots \in Nat
  BY IteratorAssumption
<1>2. \A s \in Slot : s \in Nat /\ s < NSlots /\ s + 1 \in 0 .. NSlots
  BY <1>1 DEF Slot
<1>3. \A i \in 0 .. NSlots : i \in Nat /\ (i \in Slot \/ i = NSlots)
  BY <1>1 DEF Slot
<1> QED
  BY <1>1, <1>2, <1>3, IteratorAssumption

\* Where no walk is in progress, a slot has been passed or not.
LEMMA PassedFacts ==
  ASSUME IterTypeOK, ~Walking
  PROVE \A k : Passed(k) <=> SlotOf[k] < it.slot_idx
  BY DEF Passed

-----------------------------------------------------------------------------
(* Other workers, and steps that touch nothing of a loop.                    *)

\* What counts hits, calls or answers only.
LEMMA UntouchedKeeps ==
  ASSUME IterInv, UNCHANGED <<chain, locked, it, stack, pc, meth, at, turn, script, seen, present, cursor>>
  PROVE  IterInv'
<1>1. Linked' = Linked
  BY DEF Linked
<1>2. Matches' = Matches
  BY <1>1 DEF Matches
<1>3. Walking' = Walking /\ Fetching' = Fetching /\ Yielded' = Yielded
  BY DEF Walking, Fetching, Yielded
<1>4. (\A k : Passed(k)' <=> Passed(k)) /\ \A k : InChunk(k)' <=> InChunk(k)
  BY <1>3 DEF Passed, InChunk
<1>5. (IterTypeOK /\ Chained /\ Held /\ CursorKept)'
  BY <1>3 DEF IterInv, IterTypeOK, Chained, Held, CursorKept
<1>6. ForeachInv'
  BY <1>2, <1>3, <1>4 DEF IterInv, ForeachInv, Position, Once, Due
<1> QED
  BY <1>5, <1>6 DEF IterInv

\* An insertion under the write lock, while no walk is in progress.
LEMMA InsertKeeps == ASSUME IterInv, NEW k \in Key, Insert(k) PROVE IterInv'
<1> DEFINE s == SlotOf[k]
           c == Append(chain[s], k)
<1>1. /\ ~locked /\ k \notin Linked /\ chain' = [chain EXCEPT ![s] = c]
      /\ locked' = locked /\ it' = it /\ stack' = stack /\ pc' = pc /\ meth' = meth /\ at' = at
      /\ turn' = turn /\ script' = script /\ seen' = seen /\ present' = present /\ cursor' = cursor
  BY DEF Insert, object, user, history
<1>2. IterTypeOK /\ Chained /\ Held /\ s \in Slot
  BY SlotFacts DEF IterInv
<1>3. chain \in [Slot -> Seq(Key)] /\ chain[s] \in Seq(Key)
  BY <1>2 DEF IterTypeOK
<1>4. k \notin Range(chain[s])
  BY <1>1, <1>2 DEF Linked
<1>5. /\ c \in Seq(Key) /\ DOMAIN c = 1 .. Len(chain[s]) + 1 /\ Range(c) = Range(chain[s]) \cup {k}
      /\ IsInjective(chain[s]) => IsInjective(c)
      /\ \A i \in DOMAIN c : (i \in DOMAIN chain[s] /\ c[i] = chain[s][i]) \/ c[i] = k
  BY <1>3, <1>4, AppendFacts
<1> HIDE DEF c
<1>6. chain' \in [Slot -> Seq(Key)] /\ chain'[s] = c /\ \A t \in Slot : t # s => chain'[t] = chain[t]
  BY <1>1, <1>2, <1>3, <1>5
<1>7. IterTypeOK'
  BY <1>1, <1>2, <1>6 DEF IterTypeOK
<1>8. ~Walking /\ ~Walking' /\ Fetching' = Fetching /\ Yielded' = Yielded
  BY <1>1, <1>2 DEF Held, Walking, Fetching, Yielded
<1>9. Chained'
  <2> SUFFICES ASSUME NEW t \in Slot
               PROVE IsInjective(chain'[t]) /\ \A i \in DOMAIN chain'[t] : SlotOf[chain'[t][i]] = t
    BY DEF Chained
  <2>1. IsInjective(chain[t]) /\ \A i \in DOMAIN chain[t] : SlotOf[chain[t][i]] = t
    BY <1>2 DEF Chained
  <2> QED
    BY <1>5, <1>6, <2>1
<1>10. Held' /\ CursorKept'
  BY <1>1, <1>8 DEF IterInv, Held, CursorKept
<1>11. Linked \subseteq Linked'
  BY <1>2, <1>5, <1>6 DEF Linked
<1>12. Matches \subseteq Matches'
  BY <1>11 DEF Matches
<1>13. (\A j : Passed(j)' <=> Passed(j)) /\ \A j : InChunk(j)' <=> InChunk(j)
  BY <1>1, <1>8 DEF Passed, InChunk
<1>14. ForeachInv'
  <2> SUFFICES ASSUME script = "foreach" PROVE (Position /\ seen \in Seq(Key) /\ Once /\ Due)'
    BY <1>1 DEF ForeachInv
  <2>1. Position /\ seen \in Seq(Key) /\ Once /\ Due
    BY DEF IterInv, ForeachInv
  <2>2. Position' /\ seen' \in Seq(Key)
    BY <1>1, <1>8, <2>1 DEF Position
  <2>3. Once'
    BY <1>1, <1>8, <1>12, <1>13, <2>1 DEF Once
  <2>4. Due'
    BY <1>1, <1>8, <1>12, <1>13, <2>1 DEF Due
  <2> QED
    BY <2>1, <2>2, <2>3, <2>4
<1> QED
  BY <1>7, <1>9, <1>10, <1>14 DEF IterInv

\* As long as no walk is in progress, and neither the chunk nor what was yielded
\* of it changes, the loop stays in order.
LEMMA LoopFrame ==
  ASSUME IterInv, script = "foreach",
         chain' = chain, stack' = stack, it'.slot_idx = it.slot_idx, seen' = seen, present' = present,
         Yielded' = Yielded, ~Walking, ~Walking', pc \notin {"dead", "f_lock"}, pc' \notin {"dead", "fetched"},
         pc' = "f_lock" => Len(stack) <= Yielded,
         pc' = "script" /\ turn' = "rewind" => present \subseteq Range(seen)
  PROVE  Once' /\ Due'
<1>1. Once /\ Due /\ IterTypeOK
  BY DEF IterInv, ForeachInv
<1>2. Linked' = Linked
  BY DEF Linked
<1>3. Matches' = Matches
  BY <1>2 DEF Matches
<1>4. \A k : Passed(k)' <=> Passed(k)
  BY DEF Passed
<1>5. pc' # "f_lock" => \A k : InChunk(k)' <=> InChunk(k)
  BY DEF InChunk
<1>6. pc' = "f_lock" => \A k : ~InChunk(k)
  <2> SUFFICES ASSUME pc' = "f_lock", NEW i \in DOMAIN stack, i > Yielded PROVE FALSE
    BY DEF InChunk
  <2>1. i \in Nat /\ i <= Len(stack) /\ Len(stack) \in Nat
    BY <1>1 DEF IterTypeOK
  <2>2. Yielded \in Nat
    BY <1>1 DEF Yielded, IterTypeOK
  <2> QED
    BY <2>1, <2>2
<1>7. Once'
  BY <1>1, <1>3, <1>4 DEF Once
<1>8. Due'
  BY <1>1, <1>3, <1>4, <1>5, <1>6 DEF Due
<1> QED
  BY <1>7, <1>8

-----------------------------------------------------------------------------
(* The script calls a method.                                                *)

\* What a new or freed object has.
LEMMA NewObject ==
  /\ IsObject(Created) /\ Created.slot_idx = 0 /\ Created.stack_idx = 0
  /\ IsObject(Initialized) /\ Initialized.slot_idx = 0 /\ Initialized.stack_idx = 0
<1>1. IsObject(Created) /\ Created.slot_idx = 0 /\ Created.stack_idx = 0
  BY DEF Created, IsObject
<1>2. ASSUME NEW b, NEW f
      PROVE [[initialized |-> f, slot_idx |-> 0, stack_idx |-> 0, totals_flag |-> f, count |-> 0, hits |-> 0]
               EXCEPT !.initialized = b] =
            [initialized |-> b, slot_idx |-> 0, stack_idx |-> 0, totals_flag |-> f, count |-> 0, hits |-> 0]
  OBVIOUS
<1>3. Initialized = [initialized |-> TRUE, slot_idx |-> 0, stack_idx |-> 0,
                     totals_flag |-> FALSE, count |-> 0, hits |-> 0]
  BY <1>2 DEF Created, Initialized
<1> QED
  BY <1>1, <1>3 DEF IsObject

\* A new object, or none: nothing is yielded or due.
LEMMA NewKeeps ==
  ASSUME IterInv, chain' = chain, locked' = locked, ~locked, IsObject(it'), it'.slot_idx = 0, it'.stack_idx = 0,
         stack' = <<>>, pc' = "script", at' \in Nat, turn' \in {"construct", "rewind"}, script' = script,
         seen' = <<>>, present' = {}, cursor' = None
  PROVE  IterInv'
<1>1. IterTypeOK /\ Chained
  BY DEF IterInv
<1>2. 0 \in 0 .. NSlots /\ <<>> \in Seq(Key)
  BY SlotFacts, EmptyFacts
<1>3. IterTypeOK'
  BY <1>1, <1>2 DEF IterTypeOK
<1>4. ~Walking' /\ ~Fetching'
  BY DEF Walking, Fetching
<1>5. Chained' /\ Held'
  BY <1>1, <1>4 DEF Chained, Held
<1>6. CursorKept'
  BY IteratorAssumption DEF CursorKept
<1>7. ForeachInv'
  BY <1>2, <1>4, EmptyFacts DEF ForeachInv, Position, Once, Due
<1> QED
  BY <1>3, <1>5, <1>6, <1>7 DEF IterInv

\* The constructor succeeds or fails.
LEMMA ConstructKeeps == ASSUME IterInv, Construct PROVE IterInv'
<1>1. /\ pc = "script" /\ pc' = "script" /\ chain' = chain /\ locked' = locked
      /\ meth' = meth /\ at' = at /\ script' = script
  BY DEF Construct, May, table
<1>2. ~locked /\ at \in Nat
  BY <1>1 DEF IterInv, Held, IterTypeOK
<1>3. CASE /\ it' = Initialized /\ stack' = <<>> /\ turn' = "rewind"
           /\ seen' = <<>> /\ present' = {} /\ cursor' = None
  BY <1>1, <1>2, <1>3, NewObject, NewKeeps
<1>4. CASE UNCHANGED <<object, turn, history>>
  BY <1>1, <1>4, UntouchedKeeps DEF object, history
<1> QED
  BY <1>3, <1>4 DEF Construct

\* The object is freed.
LEMMA FreeKeeps == ASSUME IterInv, Free PROVE IterInv'
<1>1. /\ pc \in {"script", "dead"} /\ pc' = "script" /\ chain' = chain /\ locked' = locked
      /\ at' = 0 /\ script' = script /\ it' = Created /\ stack' = <<>> /\ turn' = "construct"
      /\ seen' = <<>> /\ present' = {} /\ cursor' = None
  BY DEF Free, table
<1>2. ~locked
  BY <1>1 DEF IterInv, Held
<1> QED
  BY <1>1, <1>2, NewObject, NewKeeps

\* A loop starts: every matching entry is due and none has been passed.
LEMMA RewindKeeps == ASSUME IterInv, Rewind PROVE IterInv'
<1>1. /\ pc = "script" /\ pc' = "f_lock" /\ meth' = "rewind" /\ at' = 0
      /\ it' = [it EXCEPT !.slot_idx = 0, !.stack_idx = 0] /\ stack' = stack
      /\ chain' = chain /\ locked' = locked /\ turn' = "rewind" /\ script' = script
      /\ seen' = <<>> /\ present' = Matches /\ cursor' = None
  BY DEF Rewind, Enter, May, table
<1>2. IterTypeOK /\ Chained /\ Held
  BY DEF IterInv
<1>3. IsObject(it') /\ it'.slot_idx = 0 /\ it'.stack_idx = 0
  BY <1>1, <1>2, ObjectFacts DEF IsObject
<1>4. 0 \in 0 .. NSlots
  BY SlotFacts
<1>5. Matches \subseteq Key /\ \A k \in Matches : SlotOf[k] \in Nat
  BY <1>2, MatchFacts, SlotFacts
<1>6. IterTypeOK'
  BY <1>1, <1>2, <1>3, <1>4, <1>5 DEF IterTypeOK, Methods
<1>7. ~Walking' /\ Fetching'
  BY <1>1 DEF Walking, Fetching
<1>8. Chained' /\ Held'
  BY <1>1, <1>2, <1>7 DEF Chained, Held
<1>9. CursorKept'
  BY <1>1, IteratorAssumption DEF CursorKept
<1>10. Matches' = Matches
  BY <1>1 DEF Matches, Linked
<1>11. \A k \in Matches : ~Passed(k)'
  BY <1>3, <1>5, <1>7 DEF Passed
<1>12. ForeachInv'
  BY <1>1, <1>3, <1>7, <1>10, <1>11, EmptyFacts DEF ForeachInv, Position, Once, Due
<1> QED
  BY <1>6, <1>8, <1>9, <1>12 DEF IterInv

\* valid, current and key fetch when the chunk is used up; in a loop, only
\* valid ever does.
LEMMA AskKeeps == ASSUME IterInv, NEW m \in {"valid", "current", "key"}, Ask(m) PROVE IterInv'
<1>1. /\ pc = "script" /\ (script = "free" \/ turn = m)
      /\ pc' = (IF UsedUp THEN "f_lock" ELSE "answer") /\ meth' = m /\ at' = 0
      /\ chain' = chain /\ locked' = locked /\ it' = it /\ stack' = stack
      /\ turn' = turn /\ script' = script /\ seen' = seen /\ present' = present /\ cursor' = cursor
  BY DEF Ask, Enter, May, table, object, history
<1>2. IterTypeOK /\ Chained /\ Held /\ CursorKept
  BY DEF IterInv
<1>3. Len(stack) \in Nat /\ it.stack_idx \in Nat
  BY <1>2 DEF IterTypeOK
<1>4. ~Walking /\ ~Walking' /\ ~Fetching /\ (Fetching' <=> UsedUp)
  BY <1>1 DEF Walking, Fetching
<1>5. IterTypeOK'
  BY <1>1, <1>2 DEF IterTypeOK, Methods
<1>6. Chained' /\ Held'
  BY <1>1, <1>2, <1>4 DEF Chained, Held
<1>7. CursorKept'
  BY <1>1, <1>2, <1>3, <1>4 DEF CursorKept, UsedUp
<1>8. ASSUME script = "foreach" PROVE (Position /\ seen \in Seq(Key) /\ Once /\ Due)'
  <2>1. Position /\ seen \in Seq(Key) /\ turn = m
    BY <1>1, <1>8 DEF IterInv, ForeachInv
  <2>2. UsedUp => turn = "valid"
    BY <1>1, <1>3, <2>1 DEF Position, UsedUp
  <2>3. Yielded' = Yielded /\ (UsedUp => Yielded = it.stack_idx)
    BY <1>1, <1>4, <2>2 DEF Yielded
  <2>4. Position'
    BY <1>1, <1>3, <1>4, <2>1, <2>2 DEF Position, UsedUp
  <2>5. Once' /\ Due'
    BY <1>1, <1>3, <1>4, <1>8, <2>3, LoopFrame DEF UsedUp
  <2> QED
    BY <1>1, <2>1, <2>4, <2>5
<1> QED
  BY <1>1, <1>5, <1>6, <1>7, <1>8 DEF IterInv, ForeachInv

\* next moves past the item that was yielded.
LEMMA NextItemKeeps == ASSUME IterInv, NextItem PROVE IterInv'
<1>1. /\ pc = "script" /\ pc' = "script" /\ (script = "free" \/ turn = "next")
      /\ it' = (IF stack = <<>> THEN it ELSE [it EXCEPT !.stack_idx = it.stack_idx + 1])
      /\ meth' = meth /\ at' = at /\ chain' = chain /\ locked' = locked /\ stack' = stack
      /\ turn' = "valid" /\ script' = script /\ seen' = seen /\ present' = present /\ cursor' = None
  BY DEF NextItem, May, table
<1>2. IterTypeOK /\ Chained /\ Held
  BY DEF IterInv
<1>3. /\ Len(stack) \in Nat /\ it.stack_idx \in Nat /\ (stack # <<>> => Len(stack) > 0)
      /\ (stack = <<>> => Len(stack) = 0)
  BY <1>2 DEF IterTypeOK
<1>4. /\ IsObject(it') /\ it'.slot_idx = it.slot_idx
      /\ it'.stack_idx = IF stack = <<>> THEN it.stack_idx ELSE it.stack_idx + 1
  <2>1. CASE stack = <<>>
    BY <1>1, <1>2, <2>1 DEF IterTypeOK
  <2>2. CASE stack # <<>>
    BY <1>1, <1>2, <2>2, ObjectFacts DEF IsObject
  <2> QED
    BY <2>1, <2>2
<1>5. ~Walking /\ ~Walking' /\ ~Fetching'
  BY <1>1 DEF Walking, Fetching
<1>6. IterTypeOK'
  BY <1>1, <1>2, <1>3, <1>4 DEF IterTypeOK
<1>7. Chained' /\ Held'
  BY <1>1, <1>2, <1>5 DEF Chained, Held
<1>8. CursorKept'
  BY <1>1, IteratorAssumption DEF CursorKept
<1>9. ASSUME script = "foreach" PROVE (Position /\ seen \in Seq(Key) /\ Once /\ Due)'
  <2>1. Position /\ seen \in Seq(Key) /\ turn = "next"
    BY <1>1, <1>9 DEF IterInv, ForeachInv
  <2>2. it.stack_idx < Len(stack) /\ it'.stack_idx = it.stack_idx + 1
    BY <1>3, <1>4, <2>1 DEF Position
  <2>3. Yielded' = Yielded
    BY <1>1, <1>5, <2>1, <2>2 DEF Yielded
  <2>4. Position'
    BY <1>1, <1>3, <1>5, <2>2 DEF Position
  <2>5. Once' /\ Due'
    BY <1>1, <1>4, <1>5, <1>9, <2>3, LoopFrame
  <2> QED
    BY <1>1, <2>1, <2>4, <2>5
<1> QED
  BY <1>1, <1>6, <1>7, <1>8, <1>9 DEF IterInv, ForeachInv

\* Steps of the totals, and the call of them: the loop is not touched.
LEMMA TotalsKeep ==
  ASSUME IterInv, Totals \/ AddUp
  PROVE  IterInv'
<1>1. IterTypeOK /\ Chained /\ Held /\ CursorKept
  BY DEF IterInv
<1>2. /\ chain' = chain /\ stack' = stack /\ turn' = turn /\ script' = script
      /\ seen' = seen /\ present' = present /\ cursor' = cursor
  BY DEF Totals, AddUp, TotalsLock, TotalsLockFails, TotalsSlot, TotalsEnd, table, object, user, history
<1>3. \/ /\ pc = "script" /\ pc' \in {"t_lock", "answer"} /\ meth' = "totals" /\ at' = 0
         /\ locked' = locked /\ (script = "foreach" => turn = "next")
      \/ pc = "t_lock" /\ pc' = "t_walk" /\ meth' = meth /\ at' = at /\ locked' = TRUE
      \/ pc = "t_lock" /\ pc' = "answer" /\ meth' = meth /\ at' = at /\ locked' = locked
      \/ pc = "t_walk" /\ pc' = "t_walk" /\ meth' = meth /\ at' = at + 1 /\ locked' = locked
      \/ pc = "t_walk" /\ pc' = "answer" /\ meth' = meth /\ at' = at /\ locked' = FALSE
  <2>1. CASE Totals
    <3>1. script \in {"foreach", "free"} /\ turn # "totals"
      BY <1>1 DEF IterTypeOK
    <3> QED
      BY <2>1, <3>1 DEF Totals, Enter, May
  <2>2. CASE TotalsLock
    BY <2>2 DEF TotalsLock
  <2>3. CASE TotalsLockFails
    BY <2>3 DEF TotalsLockFails
  <2>4. CASE TotalsSlot
    BY <2>4 DEF TotalsSlot
  <2>5. CASE TotalsEnd
    BY <2>5 DEF TotalsEnd
  <2> QED
    BY <2>1, <2>2, <2>3, <2>4, <2>5 DEF AddUp
<1>4. IsObject(it') /\ it'.slot_idx = it.slot_idx /\ it'.stack_idx = it.stack_idx
  <2>1. CASE it' = it
    BY <1>1, <2>1 DEF IterTypeOK
  <2>2. CASE TotalsSlot
    <3>1. PICK x, y : it' = [it EXCEPT !.count = x, !.hits = y]
      BY <2>2 DEF TotalsSlot
    <3> QED
      BY <1>1, <3>1, ObjectFacts DEF IsObject
  <2>3. CASE TotalsEnd
    <3>1. it' = [it EXCEPT !.totals_flag = TRUE]
      BY <2>3 DEF TotalsEnd
    <3> QED
      BY <1>1, <3>1, ObjectFacts DEF IsObject
  <2> QED
    BY <2>1, <2>2, <2>3 DEF Totals, AddUp, TotalsLock, TotalsLockFails, object
<1>5. /\ pc \in {"script", "t_lock", "t_walk"} /\ pc' \in {"t_lock", "t_walk", "answer"}
      /\ meth' = meth \/ (pc = "script" /\ meth' = "totals" /\ (script = "foreach" => turn = "next"))
  BY <1>3
<1>6. ~Walking /\ ~Walking' /\ ~Fetching /\ ~Fetching'
  BY <1>5 DEF Walking, Fetching
<1>7. IterTypeOK'
  <2>1. locked' \in BOOLEAN
    BY <1>1, <1>3 DEF IterTypeOK
  <2>2. at' \in Nat
    BY <1>1, <1>3 DEF IterTypeOK
  <2>3. meth' \in Methods
    BY <1>1, <1>3 DEF IterTypeOK, Methods
  <2> QED
    BY <1>1, <1>2, <1>4, <1>5, <2>1, <2>2, <2>3 DEF IterTypeOK
<1>8. locked' <=> pc' = "t_walk"
  BY <1>1, <1>3 DEF Held
<1>9. Chained' /\ Held'
  <2>1. pc' \in {"t_lock", "t_walk"} => meth' = "totals"
    BY <1>1, <1>3 DEF Held
  <2> QED
    BY <1>1, <1>2, <1>5, <1>6, <1>8, <2>1 DEF Chained, Held
<1>10. CursorKept'
  BY <1>1, <1>2, <1>4, <1>5, <1>6 DEF CursorKept
<1>11. ASSUME script = "foreach" PROVE (Position /\ seen \in Seq(Key) /\ Once /\ Due)'
  <2>1. Position /\ seen \in Seq(Key)
    BY <1>11 DEF IterInv, ForeachInv
  <2>2. Yielded' = Yielded
    BY <1>2, <1>4, <1>6 DEF Yielded
  <2>3. turn = "next"
    <3>1. CASE pc = "script"
      BY <1>3, <1>11, <3>1
    <3>2. CASE pc \in {"t_lock", "t_walk"}
      BY <1>1, <2>1, <3>2 DEF Position, Held, IterTypeOK
    <3> QED
      BY <1>5, <3>1, <3>2
  <2>4. meth' = "totals"
    BY <1>1, <1>3 DEF Held
  <2>5. Position'
    BY <1>2, <1>4, <1>5, <1>6, <2>1, <2>3, <2>4 DEF Position
  <2>6. Once' /\ Due'
    BY <1>2, <1>4, <1>5, <1>6, <1>11, <2>2, <2>3, LoopFrame
  <2> QED
    BY <1>2, <2>1, <2>5, <2>6
<1> QED
  BY <1>2, <1>7, <1>9, <1>10, <1>11 DEF IterInv, ForeachInv

-----------------------------------------------------------------------------
(* immutable_cache_iterator_fetch_active.                                    *)

\* The lock is taken: the chunk is empty, and nothing of the slot is passed.
LEMMA FetchLockKeeps == ASSUME IterInv, FetchLock PROVE IterInv'
<1>1. /\ pc = "f_lock" /\ pc' = "f_walk" /\ stack' = <<>> /\ locked' = TRUE
      /\ chain' = chain /\ it' = it /\ meth' = meth /\ at' = at /\ turn' = turn /\ script' = script
      /\ seen' = seen /\ present' = present /\ cursor' = cursor
  BY DEF FetchLock, table, user, history
<1>2. IterTypeOK /\ Chained /\ Held /\ CursorKept /\ at = 0
  BY <1>1 DEF IterInv, Held
<1>3. ~Walking /\ Walking' /\ Fetching /\ Fetching'
  BY <1>1 DEF Walking, Fetching
<1>4. IterTypeOK'
  BY <1>1, <1>2, EmptyFacts DEF IterTypeOK
<1>5. Chained' /\ Held' /\ CursorKept'
  BY <1>1, <1>2, <1>3 DEF Chained, Held, CursorKept
<1>6. ASSUME script = "foreach" PROVE (Position /\ seen \in Seq(Key) /\ Once /\ Due)'
  <2>1. Position /\ seen \in Seq(Key) /\ Once /\ Due
    BY <1>6 DEF IterInv, ForeachInv
  <2>2. Position'
    BY <1>1, <1>3, <2>1 DEF Position
  <2>3. Matches' = Matches
    BY <1>1 DEF Matches, Linked
  <2>4. \A k : Passed(k)' <=> Passed(k)
    <3>1. 1 .. at = {}
      BY <1>2
    <3> QED
      BY <1>1, <1>3, <3>1 DEF Passed
  <2>5. Once'
    BY <1>1, <2>1, <2>3, <2>4, EmptyFacts DEF Once
  <2>6. \A k : ~InChunk(k)
    BY <1>1 DEF InChunk
  <2>7. Due'
    BY <1>1, <2>1, <2>3, <2>4, <2>6 DEF Due
  <2> QED
    BY <1>1, <2>1, <2>2, <2>5, <2>7
<1> QED
  BY <1>1, <1>4, <1>5, <1>6 DEF IterInv, ForeachInv

\* The lock is not taken: there is no chunk, and nothing is due any more.
LEMMA FetchLockFailsKeeps == ASSUME IterInv, FetchLockFails PROVE IterInv'
<1>1. /\ pc = "f_lock" /\ pc' = "fetched" /\ stack' = <<>> /\ locked' = locked /\ present' = {}
      /\ chain' = chain /\ it' = it /\ meth' = meth /\ at' = at /\ turn' = turn /\ script' = script
      /\ seen' = seen /\ cursor' = cursor
  BY DEF FetchLockFails, table
<1>2. IterTypeOK /\ Chained /\ Held /\ CursorKept
  BY DEF IterInv
<1>3. ~Walking /\ ~Walking' /\ Fetching /\ Fetching'
  BY <1>1 DEF Walking, Fetching
<1>4. IterTypeOK'
  BY <1>1, <1>2, EmptyFacts DEF IterTypeOK
<1>5. Chained' /\ Held' /\ CursorKept'
  BY <1>1, <1>2, <1>3 DEF Chained, Held, CursorKept
<1>6. ASSUME script = "foreach" PROVE (Position /\ seen \in Seq(Key) /\ Once /\ Due)'
  <2>1. Position /\ seen \in Seq(Key) /\ Once
    BY <1>6 DEF IterInv, ForeachInv
  <2>2. Position'
    BY <1>1, <1>3, <2>1 DEF Position
  <2>3. Matches' = Matches /\ \A k : Passed(k)' <=> Passed(k)
    BY <1>1, <1>3 DEF Matches, Linked, Passed
  <2>4. Once'
    BY <1>1, <2>1, <2>3, EmptyFacts DEF Once
  <2>5. Due'
    BY <1>1 DEF Due
  <2> QED
    BY <1>1, <2>1, <2>2, <2>4, <2>5
<1> QED
  BY <1>1, <1>4, <1>5, <1>6 DEF IterInv, ForeachInv

\* User code changes nothing that the iterator keeps.
LEMMA UserCodeKeeps == ASSUME IterInv, UserCode PROVE IterInv'
<1>1. /\ pc = "wake" /\ pc' = "f_walk" /\ stack' = stack /\ locked' = locked /\ present' = present
      /\ chain' = chain /\ it' = it /\ meth' = meth /\ at' = at /\ turn' = turn /\ script' = script
      /\ seen' = seen /\ cursor' = cursor
  BY DEF UserCode, table, object, user, history
<1>2. Walking /\ Walking' /\ Fetching /\ Fetching'
  BY <1>1 DEF Walking, Fetching
<1>3. (IterTypeOK /\ Chained /\ Held /\ CursorKept)'
  BY <1>1, <1>2 DEF IterInv, IterTypeOK, Chained, Held, CursorKept
<1>4. Matches' = Matches /\ Yielded' = Yielded
  BY <1>1, <1>2 DEF Matches, Linked, Yielded
<1>5. (\A k : Passed(k)' <=> Passed(k)) /\ \A k : InChunk(k)' <=> InChunk(k)
  BY <1>1, <1>2, <1>4 DEF Passed, InChunk
<1>6. ForeachInv'
  BY <1>1, <1>2, <1>4, <1>5 DEF IterInv, ForeachInv, Position, Once, Due
<1> QED
  BY <1>3, <1>6 DEF IterInv

\* An entry is passed: it is in the chunk if it matches, and was not before.
LEMMA FetchEntryKeeps == ASSUME IterInv, FetchEntry PROVE IterInv'
<1> DEFINE slot == chain[it.slot_idx]
<1>0. PICK e : e = slot[at + 1]
  OBVIOUS
<1>1. /\ pc = "f_walk" /\ More /\ at < Len(slot) /\ at' = at + 1
      /\ stack' = (IF e \in Match THEN Append(stack, e) ELSE stack)
      /\ pc' \in {"wake", "f_walk"}
      /\ locked' = locked /\ present' = present
      /\ chain' = chain /\ it' = it /\ meth' = meth /\ turn' = turn /\ script' = script
      /\ seen' = seen /\ cursor' = cursor
  BY <1>0 DEF FetchEntry, Push, table, user, history
<1>2. IterTypeOK /\ Chained /\ Held /\ CursorKept
  BY DEF IterInv
<1>3. Walking /\ Walking' /\ Fetching /\ Fetching'
  BY <1>1 DEF Walking, Fetching
<1>4. it.slot_idx \in Slot
  <2>1. CASE at > 0
    BY <1>2, <1>3, <2>1 DEF Held
  <2>2. CASE ~(at > 0)
    <3>1. it.slot_idx < NSlots /\ it.slot_idx \in 0 .. NSlots
      BY <1>1, <1>2, <2>2 DEF More, IterTypeOK
    <3> QED
      BY <3>1, SlotFacts
  <2> QED
    BY <2>1, <2>2
<1>5. slot \in Seq(Key) /\ at \in Nat /\ Len(slot) \in Nat /\ stack \in Seq(Key)
  BY <1>2, <1>4 DEF IterTypeOK
<1>6. /\ at + 1 \in DOMAIN slot /\ e \in Key /\ e = slot[at + 1]
      /\ \A i \in 1 .. at : i \in DOMAIN slot /\ i # at + 1
  BY <1>0, <1>1, <1>5
<1>7. IsInjective(slot) /\ \A i \in DOMAIN slot : SlotOf[slot[i]] = it.slot_idx
  BY <1>2, <1>4 DEF Chained
<1>8. SlotOf[e] = it.slot_idx /\ \A i \in 1 .. at : slot[i] # e
  BY <1>6, <1>7 DEF IsInjective
<1>9. ~Passed(e)
  <2>1. it.slot_idx \in Nat
    BY <1>4, SlotFacts
  <2> QED
    BY <1>8, <2>1 DEF Passed
<1>10. \A k : Passed(k)' <=> Passed(k) \/ k = e
  <2> SUFFICES ASSUME NEW k PROVE Passed(k)' <=> Passed(k) \/ k = e
    OBVIOUS
  <2>1. \A i \in 1 .. at + 1 : i \in 1 .. at \/ i = at + 1
    BY <1>5
  <2>2. at + 1 \in 1 .. at + 1 /\ \A i \in 1 .. at : i \in 1 .. at + 1
    BY <1>5
  <2>3. (\E i \in 1 .. at + 1 : slot[i] = k) <=> (\E i \in 1 .. at : slot[i] = k) \/ k = e
    BY <1>0, <2>1, <2>2
  <2> QED
    BY <1>1, <1>3, <1>8, <2>3 DEF Passed
<1>11. e \in Match => e \in Matches
  BY <1>2, <1>4, <1>6, MatchFacts
<1>12. e \in Match => /\ Append(stack, e) \in Seq(Key)
                      /\ DOMAIN stack = 1 .. Len(stack) /\ DOMAIN Append(stack, e) = 1 .. Len(stack) + 1
                      /\ Append(stack, e)[Len(stack) + 1] = e
                      /\ \A i \in DOMAIN stack : Append(stack, e)[i] = stack[i]
                      /\ \A i \in DOMAIN Append(stack, e) : i \in DOMAIN stack \/ i = Len(stack) + 1
                      /\ IsInjective(stack) /\ e \notin Range(stack) => IsInjective(Append(stack, e))
  BY <1>5, <1>6, AppendFacts
<1>13. stack' \in Seq(Key)
  BY <1>1, <1>5, <1>12
<1>14. at' \in Nat /\ at' <= Len(slot) /\ at' > 0
  BY <1>1, <1>5
<1>15. IterTypeOK'
  BY <1>1, <1>2, <1>13, <1>14 DEF IterTypeOK
<1>16. Chained' /\ Held' /\ CursorKept'
  BY <1>1, <1>2, <1>3, <1>4, <1>14 DEF Chained, Held, CursorKept
<1>17. ASSUME script = "foreach" PROVE (Position /\ seen \in Seq(Key) /\ Once /\ Due)'
  <2>1. Position /\ seen \in Seq(Key) /\ Once /\ Due
    BY <1>17 DEF IterInv, ForeachInv
  <2>2. Position'
    BY <1>1, <1>3, <2>1 DEF Position
  <2>3. Matches' = Matches /\ Yielded' = 0 /\ Yielded = 0
    BY <1>1, <1>3 DEF Matches, Linked, Yielded
  <2>4. /\ IsInjective(seen) /\ Range(seen) \subseteq Matches /\ \A k \in Range(seen) : Passed(k)
        /\ IsInjective(stack)
        /\ \A i \in DOMAIN stack : stack[i] \in Matches /\ Passed(stack[i])
        /\ \A i \in DOMAIN stack : i > 0 => stack[i] \notin Range(seen)
    BY <1>1, <2>1, <2>3 DEF Once
  <2>5. e \notin Range(seen) /\ e \notin Range(stack)
    BY <1>9, <2>4 DEF Range
  <2>6. CASE e \in Match
    <3>1. stack' = Append(stack, e) /\ IsInjective(stack')
      BY <1>1, <1>12, <2>4, <2>5, <2>6
    <3>2. \A i \in DOMAIN stack' : stack'[i] = e \/ (i \in DOMAIN stack /\ stack'[i] = stack[i])
      BY <1>12, <2>6, <3>1
    <3>3. Once'
      <4>1. (\A i \in DOMAIN stack : stack[i] \in Matches /\ Passed(stack[i]))'
        BY <1>10, <1>11, <2>3, <2>4, <2>6, <3>2
      <4>2. \A i \in DOMAIN stack' : i > 0 => stack'[i] \notin Range(seen)
        BY <2>4, <2>5, <3>2
      <4>3. \A k \in Range(seen) : Passed(k)'
        BY <1>10, <2>4
      <4> QED
        BY <1>1, <2>3, <2>4, <3>1, <4>1, <4>2, <4>3 DEF Once
    <3>4. Len(stack) + 1 \in DOMAIN stack' /\ stack'[Len(stack) + 1] = e /\ Len(stack) + 1 > 0
      BY <1>5, <1>12, <2>6, <3>1
    <3>5. \A i \in DOMAIN stack : i \in DOMAIN stack' /\ stack'[i] = stack[i]
      <4>1. \A i \in 1 .. Len(stack) : i \in 1 .. Len(stack) + 1
        BY <1>5
      <4> QED
        BY <1>12, <2>6, <3>1, <4>1
    <3>6. InChunk(e)' /\ \A k : InChunk(k) => InChunk(k)'
      BY <1>1, <2>3, <3>4, <3>5 DEF InChunk
    <3>7. Due'
      BY <1>1, <1>10, <2>1, <2>3, <3>6 DEF Due
    <3> QED
      BY <1>1, <2>1, <2>2, <3>3, <3>7
  <2>7. CASE e \notin Match
    <3>1. stack' = stack /\ e \notin Matches
      BY <1>1, <2>7 DEF Matches
    <3>2. Once'
      <4>1. (\A i \in DOMAIN stack : Passed(stack[i]))'
        BY <1>10, <2>4, <3>1
      <4>2. \A k \in Range(seen) : Passed(k)'
        BY <1>10, <2>4
      <4> QED
        BY <1>1, <2>3, <2>4, <3>1, <4>1, <4>2 DEF Once
    <3>3. \A k : InChunk(k)' <=> InChunk(k)
      BY <1>1, <2>3, <3>1 DEF InChunk
    <3>4. Due'
      BY <1>1, <1>10, <2>1, <2>3, <3>1, <3>3 DEF Due
    <3> QED
      BY <1>1, <2>1, <2>2, <3>2, <3>4
  <2> QED
    BY <2>6, <2>7
<1> QED
  BY <1>1, <1>15, <1>16, <1>17 DEF IterInv, ForeachInv

\* The end of a chain: all of its entries are passed, and none of the next.
LEMMA FetchSlotKeeps == ASSUME IterInv, FetchSlot PROVE IterInv'
<1>1. /\ pc = "f_walk" /\ More /\ at = Len(chain[it.slot_idx]) /\ at' = 0 /\ pc' = pc
      /\ it' = [it EXCEPT !.slot_idx = it.slot_idx + 1]
      /\ stack' = stack /\ locked' = locked /\ present' = present
      /\ chain' = chain /\ meth' = meth /\ turn' = turn /\ script' = script
      /\ seen' = seen /\ cursor' = cursor
  BY DEF FetchSlot, table, user, history
<1>2. IterTypeOK /\ Chained /\ Held /\ CursorKept
  BY DEF IterInv
<1>3. Walking /\ Walking' /\ Fetching /\ Fetching'
  BY <1>1 DEF Walking, Fetching
<1>4. it.slot_idx \in Slot
  <2>1. CASE at > 0
    BY <1>2, <1>3, <2>1 DEF Held
  <2>2. CASE ~(at > 0)
    <3>1. it.slot_idx < NSlots /\ it.slot_idx \in 0 .. NSlots
      BY <1>1, <1>2, <2>2 DEF More, IterTypeOK
    <3> QED
      BY <3>1, SlotFacts
  <2> QED
    BY <2>1, <2>2
<1>5. IsObject(it') /\ it'.slot_idx = it.slot_idx + 1 /\ it'.stack_idx = it.stack_idx
  BY ZenonT(40), <1>1, <1>2, ObjectFacts DEF IsObject
<1>6. it'.slot_idx \in 0 .. NSlots /\ it.slot_idx \in Nat
  BY <1>4, <1>5, SlotFacts
<1>7. IterTypeOK'
  BY <1>1, <1>2, <1>5, <1>6 DEF IterTypeOK
<1>8. Chained' /\ Held' /\ CursorKept'
  BY <1>1, <1>2, <1>3 DEF Chained, Held, CursorKept
<1>9. \A k \in Matches : Passed(k)' <=> Passed(k)
  <2> SUFFICES ASSUME NEW k \in Matches PROVE Passed(k)' <=> Passed(k)
    OBVIOUS
  <2>1. SlotOf[k] \in Nat /\ \E i \in DOMAIN chain[SlotOf[k]] : chain[SlotOf[k]][i] = k
    BY <1>2, MatchFacts, SlotFacts
  <2>2. SlotOf[k] = it.slot_idx => \E i \in 1 .. at : chain[it.slot_idx][i] = k
    <3>1. DOMAIN chain[it.slot_idx] = 1 .. at
      BY <1>1, <1>2, <1>4 DEF IterTypeOK
    <3> QED
      BY <2>1, <3>1
  <2>3. Passed(k) <=> SlotOf[k] < it.slot_idx \/ SlotOf[k] = it.slot_idx
    BY <1>3, <2>2 DEF Passed
  <2>4. Passed(k)' <=> SlotOf[k] < it.slot_idx + 1
    <3>1. 1 .. 0 = {}
      OBVIOUS
    <3> QED
      BY <1>1, <1>5, <3>1 DEF Passed
  <2> QED
    BY <1>6, <2>1, <2>3, <2>4
<1>10. ASSUME script = "foreach" PROVE (Position /\ seen \in Seq(Key) /\ Once /\ Due)'
  <2>1. Position /\ seen \in Seq(Key) /\ Once /\ Due
    BY <1>10 DEF IterInv, ForeachInv
  <2>2. Position'
    BY <1>1, <1>3, <1>5, <2>1 DEF Position
  <2>3. Matches' = Matches /\ Yielded' = 0 /\ Yielded = 0
    BY <1>1, <1>3 DEF Matches, Linked, Yielded
  <2>4. \A k : InChunk(k)' <=> InChunk(k)
    BY <1>1, <2>3 DEF InChunk
  <2>5. Once'
    BY <1>1, <1>9, <2>1, <2>3 DEF Once
  <2>6. Due'
    BY <1>1, <1>9, <2>1, <2>3, <2>4 DEF Due
  <2> QED
    BY <1>1, <2>1, <2>2, <2>5, <2>6
<1> QED
  BY <1>1, <1>7, <1>8, <1>10 DEF IterInv, ForeachInv

\* The chunk is complete: it is empty only if the table has been walked.
LEMMA FetchEndKeeps == ASSUME IterInv, FetchEnd PROVE IterInv'
<1>1. /\ pc = "f_walk" /\ ~More /\ pc' = "fetched" /\ locked' = FALSE
      /\ stack' = stack /\ at' = at /\ present' = present
      /\ chain' = chain /\ meth' = meth /\ turn' = turn /\ script' = script
      /\ seen' = seen /\ cursor' = cursor
  BY DEF FetchEnd, table, user, history
<1>2. IterTypeOK /\ Chained /\ Held /\ CursorKept
  BY DEF IterInv
<1>3. Walking /\ ~Walking' /\ Fetching /\ Fetching'
  BY <1>1 DEF Walking, Fetching
<1>4. IsObject(it') /\ it'.slot_idx = it.slot_idx /\ it'.stack_idx = 0
  <2>1. it' = [it EXCEPT !.stack_idx = 0]
    BY DEF FetchEnd
  <2> QED
    BY <1>2, <2>1, ObjectFacts DEF IsObject
<1>5. at = 0
  BY <1>1, <1>2 DEF More, IterTypeOK
<1>6. stack = <<>> => it.slot_idx = NSlots
  <2> SUFFICES ASSUME stack = <<>> PROVE it.slot_idx = NSlots
    OBVIOUS
  <2>1. Len(stack) <= ChunkSize
    BY EmptyFacts, IteratorAssumption
  <2>2. ~(it.slot_idx < NSlots) /\ it.slot_idx \in 0 .. NSlots
    BY <1>1, <1>2, <2>1 DEF More, IterTypeOK
  <2> QED
    BY <2>2, SlotFacts
<1>7. IterTypeOK'
  <2>0. locked' \in BOOLEAN
    BY <1>1
  <2>1. it'.slot_idx \in 0 .. NSlots /\ it'.stack_idx \in Nat
    BY <1>2, <1>4 DEF IterTypeOK
  <2>2. /\ chain' \in [Slot -> Seq(Key)] /\ stack' \in Seq(Key) /\ at' \in Nat /\ present' \subseteq Key
        /\ turn' \in {"construct", "rewind", "valid", "current", "key", "next"}
        /\ script' \in {"foreach", "free"}
    BY <1>1, <1>2 DEF IterTypeOK
  <2>3. pc' \notin {"script", "dead"} => meth' \in Methods
    BY <1>1, <1>2, <1>3 DEF IterTypeOK, Walking
  <2>4. pc' \in {"script", "f_lock", "f_walk", "wake", "fetched", "t_lock", "t_walk", "answer", "dead"}
    BY <1>1
  <2> QED
    BY <1>4, <2>0, <2>1, <2>2, <2>3, <2>4 DEF IterTypeOK
<1>8. Chained' /\ Held' /\ CursorKept'
  BY <1>1, <1>2, <1>3 DEF Chained, Held, CursorKept
<1>9. \A k : Passed(k)' <=> Passed(k)
  <2>1. 1 .. at = {}
    BY <1>5
  <2> QED
    BY <1>1, <1>3, <1>4, <2>1 DEF Passed
<1>10. ASSUME script = "foreach" PROVE (Position /\ seen \in Seq(Key) /\ Once /\ Due)'
  <2>1. Position /\ seen \in Seq(Key) /\ Once /\ Due
    BY <1>10 DEF IterInv, ForeachInv
  <2>2. turn \in {"rewind", "valid"}
    BY <1>3, <2>1 DEF Position
  <2>3. Position'
    BY <1>1, <1>3, <1>4, <2>1, <2>2 DEF Position
  <2>4. Matches' = Matches /\ Yielded' = 0 /\ Yielded = 0
    BY <1>1, <1>3, <1>4, <2>2 DEF Matches, Linked, Yielded
  <2>5. \A k : InChunk(k)' <=> InChunk(k)
    BY <1>1, <2>4 DEF InChunk
  <2>6. Once'
    BY <1>1, <1>9, <2>1, <2>4 DEF Once
  <2>7. Due'
    BY <1>1, <1>4, <1>6, <1>9, <2>1, <2>4, <2>5 DEF Due
  <2> QED
    BY <1>1, <2>1, <2>3, <2>6, <2>7
<1> QED
  BY <1>1, <1>7, <1>8, <1>10 DEF IterInv, ForeachInv

\* A bailout ends the script, not the lock.
LEMMA FetchBailoutKeeps == ASSUME IterInv, FetchBailout PROVE IterInv'
<1>1. /\ Building /\ pc' = "dead" /\ locked' = FALSE
      /\ stack' = stack /\ at' = at /\ present' = present
      /\ chain' = chain /\ meth' = meth /\ turn' = turn /\ script' = script
      /\ seen' = seen /\ cursor' = cursor
  BY DEF FetchBailout, table, user, history
<1>2. IterTypeOK /\ Chained /\ Held /\ CursorKept
  BY DEF IterInv
<1>3. Walking /\ ~Walking' /\ Fetching /\ ~Fetching'
  BY <1>1 DEF Building, Walking, Fetching
<1>4. IsObject(it') /\ it'.slot_idx = it.slot_idx /\ it'.stack_idx = 0
  <2>1. it' = [it EXCEPT !.stack_idx = 0]
    BY DEF FetchBailout
  <2> QED
    BY <1>2, <2>1, ObjectFacts DEF IsObject
<1>5. IterTypeOK'
  <2>0. locked' \in BOOLEAN
    BY <1>1
  <2>1. it'.slot_idx \in 0 .. NSlots /\ it'.stack_idx \in Nat
    BY <1>2, <1>4 DEF IterTypeOK
  <2>2. /\ chain' \in [Slot -> Seq(Key)] /\ stack' \in Seq(Key) /\ at' \in Nat /\ present' \subseteq Key
        /\ turn' \in {"construct", "rewind", "valid", "current", "key", "next"}
        /\ script' \in {"foreach", "free"}
    BY <1>1, <1>2 DEF IterTypeOK
  <2>3. pc' \notin {"script", "dead"} => meth' \in Methods
    BY <1>1, <1>2, <1>3 DEF IterTypeOK, Walking
  <2>4. pc' \in {"script", "f_lock", "f_walk", "wake", "fetched", "t_lock", "t_walk", "answer", "dead"}
    BY <1>1
  <2> QED
    BY <1>4, <2>0, <2>1, <2>2, <2>3, <2>4 DEF IterTypeOK
<1>6. Chained' /\ Held' /\ CursorKept'
  BY <1>1, <1>2, <1>3 DEF Chained, Held, CursorKept
<1>7. ForeachInv'
  <2>1. Matches' = Matches
    BY <1>1 DEF Matches, Linked
  <2> QED
    BY <1>1, <1>3, <1>4, <2>1 DEF IterInv, ForeachInv, Position, Once, Due
<1> QED
  BY <1>5, <1>6, <1>7 DEF IterInv

-----------------------------------------------------------------------------
(* The method returns.                                                       *)

\* An item is a key only if it is in the chunk.
LEMMA ItemFacts ==
  ASSUME IterTypeOK
  PROVE  /\ Item \in Key => it.stack_idx < Len(stack) /\ Item = stack[it.stack_idx + 1]
         /\ pc = "answer" /\ it.stack_idx < Len(stack) =>
              Item = stack[it.stack_idx + 1] /\ Item \in Key /\ it.stack_idx + 1 \in DOMAIN stack
<1>1. "error" \notin Key /\ "beyond" \notin Key
  BY IteratorAssumption
<1>2. it.stack_idx \in Nat /\ stack \in Seq(Key) /\ Len(stack) \in Nat
  BY DEF IterTypeOK
<1>3. it.stack_idx < Len(stack) => it.stack_idx + 1 \in DOMAIN stack /\ stack[it.stack_idx + 1] \in Key
  BY <1>2
<1> QED
  BY <1>1, <1>3 DEF Item, Get

\* A loop after its method has returned.
LEMMA ReturnLoop == ASSUME IterInv, Return, script = "foreach"
                    PROVE (Position /\ seen \in Seq(Key) /\ Once /\ Due)'
<1>1. /\ pc \in {"answer", "fetched"} /\ pc' = "script" /\ turn' = After(meth, Result)
      /\ seen' = (IF meth = "current" THEN Append(seen, Item) ELSE seen)
      /\ chain' = chain /\ it' = it /\ stack' = stack /\ present' = present
  BY DEF Return, table, object
<1>2. IterTypeOK /\ Held /\ Chained
  BY DEF IterInv
<1>3. Position /\ seen \in Seq(Key) /\ Once /\ Due
  BY DEF IterInv, ForeachInv
<1>4. ~Walking /\ ~Walking' /\ ~Fetching' /\ (Fetching <=> pc = "fetched")
  BY <1>1 DEF Walking, Fetching
<1>5. meth \in Methods /\ (meth = turn \/ (meth = "totals" /\ turn = "next"))
  BY <1>1, <1>2, <1>3 DEF IterTypeOK, Position
<1>6. /\ Len(stack) \in Nat /\ it.stack_idx \in Nat /\ (stack # <<>> <=> Len(stack) > 0)
      /\ (stack = <<>> => Len(stack) = 0)
  BY <1>2 DEF IterTypeOK
<1>7. CASE meth = "rewind"
  <2>1. turn = "rewind" /\ pc = "fetched" /\ it.stack_idx = 0
    BY <1>1, <1>3, <1>4, <1>5, <1>7 DEF Position
  <2>2. turn' = "valid" /\ seen' = seen
    BY <1>1, <1>7 DEF After
  <2>3. Yielded' = Yielded
    BY <1>1, <1>4, <2>1, <2>2 DEF Yielded
  <2>4. Position'
    BY <1>1, <1>4, <1>6, <2>1, <2>2 DEF Position
  <2>5. Once' /\ Due'
    BY <1>1, <1>4, <2>2, <2>3, LoopFrame
  <2> QED
    BY <1>3, <2>2, <2>4, <2>5
<1>8. CASE meth = "valid"
  <2>1. turn = "valid" /\ seen' = seen
    BY <1>1, <1>5, <1>8
  <2>2. turn' = IF stack = <<>> THEN "rewind" ELSE "current"
    BY <1>1, <1>8 DEF After, Result
  <2>3. Yielded' = Yielded
    BY <1>1, <1>4, <2>1, <2>2 DEF Yielded
  <2>4. stack # <<>> => it.stack_idx < Len(stack)
    BY <1>1, <1>3, <1>6, <2>1 DEF Position
  <2>5. Position'
    BY <1>1, <1>4, <2>2, <2>4 DEF Position
  <2>6. ASSUME stack = <<>> PROVE present \subseteq Range(seen)
    <3>1. pc = "fetched"
      BY <1>1, <1>3, <1>6, <2>1, <2>6 DEF Position
    <3>2. present = {} \/ it.slot_idx = NSlots
      BY <1>3, <2>6, <3>1 DEF Due
    <3>3. \A k : ~InChunk(k)
      BY <2>6, EmptyFacts DEF InChunk
    <3>4. \A k \in present : k \in Matches /\ (k \in Range(seen) \/ ~Passed(k))
      BY <1>3, <3>1, <3>3 DEF Due
    <3>5. it.slot_idx = NSlots => \A k \in Matches : Passed(k)
      BY <1>2, MatchFacts, SlotFacts DEF Passed
    <3> QED
      BY <3>2, <3>4, <3>5
  <2>7. Once' /\ Due'
    BY <1>1, <1>4, <2>1, <2>2, <2>3, <2>6, LoopFrame
  <2> QED
    BY <1>3, <2>1, <2>5, <2>7
<1>9. CASE meth = "current"
  <2>1. turn = "current" /\ pc = "answer" /\ it.stack_idx < Len(stack)
    BY <1>1, <1>3, <1>4, <1>5, <1>9 DEF Position
  <2>2. PICK x : x = Item
    OBVIOUS
  <2>3. x = stack[it.stack_idx + 1] /\ x \in Key /\ it.stack_idx + 1 \in DOMAIN stack
    BY <1>2, <2>1, <2>2, ItemFacts
  <2>4. turn' = "key" /\ seen' = Append(seen, x)
    BY <1>1, <1>9, <2>2, <2>3 DEF After, Result
  <2>5. Yielded = it.stack_idx /\ Yielded' = it.stack_idx + 1
    BY <1>1, <1>4, <2>1, <2>4 DEF Yielded
  <2>6. Position'
    BY <1>1, <1>4, <2>1, <2>4 DEF Position
  <2>7. /\ IsInjective(seen) /\ Range(seen) \subseteq Matches /\ \A k \in Range(seen) : Passed(k)
        /\ IsInjective(stack) /\ \A i \in DOMAIN stack : stack[i] \in Matches /\ Passed(stack[i])
        /\ \A i \in DOMAIN stack : i > it.stack_idx => stack[i] \notin Range(seen)
    BY <1>3, <2>1, <2>5 DEF Once
  <2>8. x \notin Range(seen) /\ x \in Matches /\ Passed(x)
    <3>1. it.stack_idx + 1 > it.stack_idx
      BY <1>6
    <3> QED
      BY <2>3, <2>7, <3>1
  <2>9. seen' \in Seq(Key) /\ Range(seen') = Range(seen) \cup {x} /\ IsInjective(seen')
    BY <1>3, <2>3, <2>4, <2>7, <2>8, AppendFacts
  <2>10. Matches' = Matches /\ \A k : Passed(k)' <=> Passed(k)
    BY <1>1, <1>4 DEF Matches, Linked, Passed
  <2>11. \A i \in DOMAIN stack : i > it.stack_idx + 1 => i > it.stack_idx /\ stack[i] # x
    <3> SUFFICES ASSUME NEW i \in DOMAIN stack, i > it.stack_idx + 1
                 PROVE i > it.stack_idx /\ stack[i] # x
      OBVIOUS
    <3>1. i \in Nat
      BY <1>2 DEF IterTypeOK
    <3>2. i > it.stack_idx /\ i # it.stack_idx + 1
      BY <1>6, <3>1
    <3> QED
      BY <2>3, <2>7, <3>2 DEF IsInjective
  <2>12. Once'
    <3>1. \A i \in DOMAIN stack : i > it.stack_idx + 1 => stack[i] \notin Range(seen')
      BY <2>7, <2>9, <2>11
    <3>2. Range(seen') \subseteq Matches /\ \A k \in Range(seen') : Passed(k)'
      BY <2>7, <2>8, <2>9, <2>10
    <3>3. (\A i \in DOMAIN stack : stack[i] \in Matches /\ Passed(stack[i]))'
      BY <1>1, <2>7, <2>10
    <3> QED
      BY <1>1, <2>5, <2>7, <2>9, <2>10, <3>1, <3>2, <3>3 DEF Once
  <2>13. \A k : InChunk(k) => InChunk(k)' \/ k = x
    <3> SUFFICES ASSUME NEW k, NEW i \in DOMAIN stack, i > it.stack_idx, stack[i] = k, k # x
                 PROVE InChunk(k)'
      BY <2>5 DEF InChunk
    <3>1. i \in Nat /\ i # it.stack_idx + 1
      BY <1>2, <2>3 DEF IterTypeOK
    <3>2. i > it.stack_idx + 1
      BY <1>6, <3>1
    <3> QED
      BY <1>1, <2>5, <3>2 DEF InChunk
  <2>14. Due'
    BY <1>1, <1>3, <2>1, <2>4, <2>9, <2>10, <2>13 DEF Due
  <2> QED
    BY <2>6, <2>9, <2>12, <2>14
<1>10. CASE meth = "key" \/ meth = "totals"
  <2>1. turn \in {"key", "next"} /\ pc = "answer" /\ it.stack_idx < Len(stack)
    BY <1>1, <1>2, <1>3, <1>4, <1>5, <1>10 DEF Position, IterTypeOK
  <2>2. turn' = "next" /\ seen' = seen
    BY <1>1, <1>2, <1>5, <1>10, <2>1 DEF After, IterTypeOK
  <2>3. Yielded' = Yielded
    BY <1>1, <1>4, <2>1, <2>2 DEF Yielded
  <2>4. Position'
    BY <1>1, <1>4, <2>1, <2>2 DEF Position
  <2>5. Once' /\ Due'
    BY <1>1, <1>4, <2>1, <2>2, <2>3, LoopFrame
  <2> QED
    BY <1>3, <2>2, <2>4, <2>5
<1> QED
  BY <1>5, <1>7, <1>8, <1>9, <1>10 DEF Methods

\* A method returns, in any script.
LEMMA ReturnKeeps == ASSUME IterInv, Return PROVE IterInv'
<1>1. /\ pc \in {"answer", "fetched"} /\ pc' = "script" /\ turn' = After(meth, Result) /\ at' = 0
      /\ cursor' = (IF meth \in {"current", "key"} THEN Item ELSE cursor)
      /\ chain' = chain /\ it' = it /\ stack' = stack /\ present' = present
      /\ locked' = locked /\ script' = script
  BY DEF Return, table, object
<1>2. IterTypeOK /\ Chained /\ Held /\ CursorKept
  BY DEF IterInv
<1>3. turn' \in {"construct", "rewind", "valid", "current", "key", "next"}
  BY <1>1, <1>2 DEF After, IterTypeOK
<1>4. IterTypeOK'
  BY <1>1, <1>2, <1>3 DEF IterTypeOK
<1>5. ~Walking' /\ ~Fetching'
  BY <1>1 DEF Walking, Fetching
<1>6. Chained' /\ Held'
  BY <1>1, <1>2, <1>5 DEF Chained, Held
<1>7. CursorKept'
  <2>1. CASE cursor' = Item
    <3>1. Item \in Key => it.stack_idx < Len(stack) /\ Item = stack[it.stack_idx + 1]
      BY <1>2, ItemFacts
    <3> QED
      BY <1>1, <1>5, <2>1, <3>1 DEF CursorKept
  <2>2. CASE cursor' = cursor
    BY <1>1, <1>2, <1>5, <2>2 DEF CursorKept
  <2> QED
    BY <1>1, <2>1, <2>2
<1>8. ForeachInv'
  BY <1>1, ReturnLoop DEF ForeachInv
<1> QED
  BY <1>4, <1>6, <1>7, <1>8 DEF IterInv

-----------------------------------------------------------------------------
(* Theorems.                                                                 *)

\* The invariant holds before the object exists.
LEMMA InitIter == Init => IterInv
<1> SUFFICES ASSUME Init PROVE IterInv
  OBVIOUS
<1>1. /\ chain = [s \in Slot |-> <<>>] /\ locked = FALSE /\ it = Created /\ stack = <<>>
      /\ pc = "script" /\ at = 0 /\ turn = "construct" /\ script \in Scripts
      /\ seen = <<>> /\ present = {} /\ cursor = None
  BY DEF Init
<1>2. IsObject(it) /\ it.slot_idx = 0 /\ it.stack_idx = 0
  BY <1>1, NewObject
<1>3. 0 \in 0 .. NSlots /\ <<>> \in Seq(Key) /\ script \in {"foreach", "free"}
  BY <1>1, SlotFacts, EmptyFacts, IteratorAssumption
<1>4. ~Walking /\ ~Fetching
  BY <1>1 DEF Walking, Fetching
<1>5. IterTypeOK
  <2>0. locked \in BOOLEAN
    BY <1>1
  <2>1. chain \in [Slot -> Seq(Key)]
    BY <1>1, <1>3
  <2>2. it.slot_idx \in 0 .. NSlots /\ it.stack_idx \in Nat /\ stack \in Seq(Key)
    BY <1>1, <1>2, <1>3
  <2>3. pc = "script" /\ at \in Nat /\ turn = "construct" /\ present \subseteq Key
    BY <1>1
  <2> QED
    BY <1>2, <1>3, <2>0, <2>1, <2>2, <2>3 DEF IterTypeOK
<1>6. Chained
  BY <1>1, EmptyFacts DEF Chained
<1>7. Held
  BY <1>1, <1>4 DEF Held
<1>8. CursorKept
  BY <1>1, IteratorAssumption DEF CursorKept
<1>9. ForeachInv
  BY <1>1, <1>3, <1>4, EmptyFacts DEF ForeachInv, Position, Once, Due
<1> QED
  BY <1>5, <1>6, <1>7, <1>8, <1>9 DEF IterInv

\* Every step of the script and of the other workers keeps the invariant.
THEOREM IterInvariance == Spec => []IterInv
<1>1. IterInv /\ [Next]_vars => IterInv'
  <2> SUFFICES ASSUME IterInv, [Next]_vars PROVE IterInv'
    OBVIOUS
  <2>1. CASE \E k \in Key : Insert(k)
    BY <2>1, InsertKeeps
  <2>2. CASE \E k \in Key : Hit(k)
    BY <2>2, UntouchedKeeps DEF Hit, object, user, history
  <2>3. CASE \E m \in Methods \cup {"next"} : Uninitialized(m)
    BY <2>3, UntouchedKeeps DEF Uninitialized, table, object, history
  <2>4. CASE Construct \/ Rewind \/ Totals \/ Free
    BY <2>4, ConstructKeeps, RewindKeeps, TotalsKeep, FreeKeeps
  <2>5. CASE Loop
    BY <2>5, NextItemKeeps, AskKeeps, FetchLockKeeps, FetchLockFailsKeeps, FetchEntryKeeps, FetchSlotKeeps,
       FetchEndKeeps, UserCodeKeeps, TotalsKeep, ReturnKeeps DEF Loop, Fetch
  <2>6. CASE FetchBailout
    BY <2>6, FetchBailoutKeeps
  <2>7. CASE vars' = vars
    BY <2>7, UntouchedKeeps DEF vars, table, object, user, history
  <2> QED
    BY <2>1, <2>2, <2>3, <2>4, <2>5, <2>6, <2>7 DEF Next, Done
<1> QED
  BY <1>1, InitIter, PTL DEF Spec

\* No path out of a method keeps the read lock, a bailout included.
THEOREM LockIsReleased == Spec => []LockReleased
<1>1. IterInv => LockReleased
  BY DEF IterInv, Held, LockReleased
<1> QED
  BY <1>1, IterInvariance, PTL

\* current and key answer one item until the script moves on, whatever is
\* inserted or asked in between.
THEOREM CurrentItemStays == Spec => []CurrentStays
<1>1. IterInv => CurrentStays
  <2> SUFFICES ASSUME IterInv, pc \in {"answer", "fetched"}, cursor \in Key PROVE Item = cursor
    BY DEF CurrentStays
  <2>1. ~Fetching /\ it.stack_idx < Len(stack) /\ stack[it.stack_idx + 1] = cursor
    BY DEF IterInv, CursorKept
  <2>2. pc = "answer"
    BY <2>1 DEF Fetching
  <2> QED
    BY <2>1, <2>2, ItemFacts DEF IterInv
<1> QED
  BY <1>1, IterInvariance, PTL

\* A loop yields no entry twice and only entries that match, whatever is
\* inserted between its chunks.
THEOREM LoopYieldsOnce == Spec => []YieldedOnce
<1>1. IterInv => YieldedOnce
  BY DEF IterInv, ForeachInv, Once, YieldedOnce
<1> QED
  BY <1>1, IterInvariance, PTL

\* A loop that ends without a failed fetch has yielded every matching entry
\* that was in the table when it was rewound.
THEOREM LoopYieldsAll == Spec => []LoopComplete
<1>1. IterInv => LoopComplete
  BY DEF IterInv, ForeachInv, Due, LoopComplete
<1> QED
  BY <1>1, IterInvariance, PTL

-----------------------------------------------------------------------------
(* Sums (module Sums).                                                       *)

\* The units of a finite set of natural numbers are finite.
LEMMA UnitsFinite ==
  ASSUME NEW S, IsFiniteSet(S), NEW f, \A x \in S : f[x] \in Nat
  PROVE  IsFiniteSet(Units(f, S)) /\ Total(f, S) \in Nat
<1> DEFINE g == [x \in S |-> {x} \X (1 .. f[x])]
           T == {{x} \X (1 .. f[x]) : x \in S}
<1>1. g \in Surjection(S, T)
  BY DEF Surjection
<1>2. IsFiniteSet(T)
  BY <1>1, FS_Surjection
<1>3. ASSUME NEW x \in S PROVE IsFiniteSet({x} \X (1 .. f[x]))
  <2>1. f[x] \in Nat /\ 1 \in Int
    OBVIOUS
  <2>2. IsFiniteSet({x})
    BY FS_Singleton
  <2>3. IsFiniteSet(1 .. f[x])
    BY <2>1, FS_Interval
  <2> QED
    BY <2>2, <2>3, FS_Product
<1>4. \A t \in T : IsFiniteSet(t)
  BY <1>3
<1>5. IsFiniteSet(UNION T)
  BY <1>2, <1>4, FS_UNION
<1> QED
  BY <1>5, FS_CardinalityType DEF Units, Total

\* The sum over the empty set and over one element.
LEMMA TotalEmpty ==
  ASSUME NEW f
  PROVE  Total(f, {}) = 0
  BY FS_EmptySet DEF Total, Units

LEMMA TotalOne ==
  ASSUME NEW f, NEW x, f[x] \in Nat
  PROVE  Total(f, {x}) = f[x]
<1>1. Units(f, {x}) = {x} \X (1 .. f[x])
  BY DEF Units
<1>2. IsFiniteSet({x}) /\ Cardinality({x}) = 1
  BY FS_Singleton
<1>3. IsFiniteSet(1 .. f[x]) /\ Cardinality(1 .. f[x]) = f[x]
  BY FS_Interval
<1>4. Cardinality({x} \X (1 .. f[x])) = Cardinality({x}) * Cardinality(1 .. f[x])
  BY <1>2, <1>3, FS_Product
<1>5. Total(f, {x}) = Cardinality({x} \X (1 .. f[x]))
  BY <1>1, Zenon DEF Total
<1>6. Total(f, {x}) = 1 * f[x]
  BY <1>2, <1>3, <1>4, <1>5, Zenon
<1> QED
  BY <1>6

\* The sum over two disjoint sets.
LEMMA TotalUnion ==
  ASSUME NEW S, IsFiniteSet(S), NEW T, IsFiniteSet(T), S \cap T = {},
         NEW f, \A x \in S \cup T : f[x] \in Nat
  PROVE  Total(f, S \cup T) = Total(f, S) + Total(f, T)
<1>1. Units(f, S \cup T) = Units(f, S) \cup Units(f, T)
  BY DEF Units
<1>2. Units(f, S) \cap Units(f, T) = {}
  <2> SUFFICES ASSUME NEW u \in Units(f, S), u \in Units(f, T) PROVE FALSE
    OBVIOUS
  <2>1. PICK x \in S : u \in {x} \X (1 .. f[x])
    BY DEF Units
  <2>2. PICK y \in T : u \in {y} \X (1 .. f[y])
    BY DEF Units
  <2>3. u[1] = x /\ u[1] = y
    BY <2>1, <2>2
  <2> QED
    BY <2>3
<1>3. /\ IsFiniteSet(Units(f, S)) /\ Total(f, S) \in Nat
      /\ IsFiniteSet(Units(f, T)) /\ Total(f, T) \in Nat
  BY UnitsFinite
<1>4. Cardinality({}) = 0
  BY FS_EmptySet
<1>5. Cardinality(Units(f, S) \cup Units(f, T)) =
        Cardinality(Units(f, S)) + Cardinality(Units(f, T)) - Cardinality(Units(f, S) \cap Units(f, T))
  BY <1>3, FS_Union
<1>6. Total(f, S \cup T) = Cardinality(Units(f, S) \cup Units(f, T))
  BY <1>1, Zenon DEF Total
<1>7. Cardinality(Units(f, S) \cap Units(f, T)) = 0
  BY <1>2, <1>4, Zenon
<1>8. Total(f, S \cup T) = Total(f, S) + Total(f, T) - 0
  BY <1>5, <1>6, <1>7, Zenon DEF Total
<1> QED
  BY <1>3, <1>8

\* A sum grows with its terms and with the set.
LEMMA TotalMonotone ==
  ASSUME NEW T, IsFiniteSet(T), NEW S \in SUBSET T, NEW f, NEW g,
         \A x \in T : g[x] \in Nat, \A x \in S : f[x] \in Nat /\ f[x] <= g[x]
  PROVE  Total(f, S) <= Total(g, T)
<1>1. Units(f, S) \subseteq Units(g, T)
  <2> SUFFICES ASSUME NEW u \in Units(f, S) PROVE u \in Units(g, T)
    OBVIOUS
  <2>1. PICK x \in S : u \in {x} \X (1 .. f[x])
    BY DEF Units
  <2>2. \A i \in 1 .. f[x] : i \in 1 .. g[x]
    OBVIOUS
  <2>3. u \in {x} \X (1 .. g[x])
    BY <2>1, <2>2
  <2> QED
    BY <2>3 DEF Units
<1>2. IsFiniteSet(Units(g, T))
  BY UnitsFinite
<1> QED
  BY <1>1, <1>2, FS_Subset DEF Total

\* Sums of equal terms are equal.
LEMMA TotalEqual ==
  ASSUME NEW S, NEW f, NEW g, \A x \in S : f[x] = g[x]
  PROVE  Total(f, S) = Total(g, S)
  BY DEF Total, Units

-----------------------------------------------------------------------------
(* The totals.                                                               *)

\* Matching entries of the first n slots.
Upto(n) == {k \in Matches : SlotOf[k] < n}

\* Hits counted while the totals are added up may be missed, but nothing is
\* added up twice: the totals are 0 until a walk starts, and then those of the
\* slots it has passed.
TotalsInv ==
  /\ nhits \in [Key -> Nat]
  /\ it.count \in Nat /\ it.hits \in Nat
  /\ pc \in {"t_lock", "t_walk"} => ~it.totals_flag
  /\ pc = "t_lock" => at = 0
  /\ ~it.totals_flag /\ pc # "t_walk" => it.count = 0 /\ it.hits = 0
  /\ pc = "t_walk" =>
       at \in 0 .. NSlots /\ it.count = Cardinality(Upto(at)) /\ it.hits <= Total(nhits, Upto(at))
  /\ TotalsBounded

\* A table holds finitely many entries.
LEMMA TableFinite ==
  ASSUME NEW c \in [Slot -> Seq(Key)]
  PROVE  IsFiniteSet(UNION {Range(c[s]) : s \in Slot})
<1> DEFINE T == {Range(c[s]) : s \in Slot}
           g == [s \in Slot |-> Range(c[s])]
<1>1. IsFiniteSet(Slot)
  BY FS_Interval, SlotFacts DEF Slot
<1>2. g \in Surjection(Slot, T)
  BY DEF Surjection
<1>3. IsFiniteSet(T)
  BY <1>1, <1>2, FS_Surjection
<1>4. ASSUME NEW s \in Slot PROVE IsFiniteSet(Range(c[s]))
  <2>1. c[s] \in Seq(Key)
    OBVIOUS
  <2>2. c[s] \in Surjection(1 .. Len(c[s]), Range(c[s]))
    BY <2>1 DEF Surjection, Range
  <2>3. Len(c[s]) \in Nat
    BY <2>1
  <2>4. IsFiniteSet(1 .. Len(c[s]))
    BY <2>3, FS_Interval
  <2> QED
    BY <2>2, <2>4, FS_Surjection
<1>5. \A t \in T : IsFiniteSet(t)
  BY <1>4
<1> QED
  BY <1>3, <1>5, FS_UNION

\* The matching entries are finitely many, before and after a step.
LEMMA MatchesFinite ==
  ASSUME IterTypeOK
  PROVE  IsFiniteSet(Matches) /\ Matches \subseteq Key
<1>1. IsFiniteSet(Linked)
  BY TableFinite DEF IterTypeOK, Linked
<1> QED
  BY <1>1, FS_Subset, IteratorAssumption DEF Matches

LEMMA MatchesFiniteNext ==
  ASSUME IterTypeOK'
  PROVE  IsFiniteSet(Matches') /\ Matches' \subseteq Key
<1>1. IsFiniteSet(Linked')
  BY TableFinite DEF IterTypeOK, Linked
<1> QED
  BY <1>1, FS_Subset, IteratorAssumption DEF Matches

\* The totals stay, and the table may have grown.
LEMMA TotalsStay ==
  ASSUME IterInv, IterInv', TotalsInv, nhits' \in [Key -> Nat], \A k \in Key : nhits[k] <= nhits'[k],
         Matches \subseteq Matches',
         it'.count = it.count, it'.hits = it.hits, it'.totals_flag = it.totals_flag,
         pc' = "t_walk" => pc = "t_walk" /\ at' = at /\ Matches' = Matches,
         pc = "t_walk" => pc' = "t_walk",
         pc' = "t_lock" => ~it.totals_flag /\ at' = 0
  PROVE  TotalsInv'
<1>1. IterTypeOK /\ IterTypeOK' /\ Chained /\ Chained'
  BY DEF IterInv
<1>2. IsFiniteSet(Matches') /\ IsFiniteSet(Matches) /\ IsFiniteSet(Upto(at)) /\ Matches \subseteq Key /\ Matches' \subseteq Key
  BY <1>1, MatchesFinite, MatchesFiniteNext, FS_Subset DEF Upto
<1>3. Cardinality(Matches) <= Cardinality(Matches') /\ Cardinality(Matches) \in Nat /\ Cardinality(Matches') \in Nat
  BY <1>2, FS_Subset, FS_CardinalityType
<1>4. nhits \in [Key -> Nat]
  BY DEF TotalsInv
<1>5. Total(nhits, Matches) <= Total(nhits', Matches')
  BY <1>2, <1>4, TotalMonotone
<1>6. Total(nhits, Matches) \in Nat /\ Total(nhits', Matches') \in Nat
  BY <1>2, <1>4, UnitsFinite
<1>7. it.count <= Cardinality(Matches) /\ it.hits <= Total(nhits, Matches) /\ it.count \in Nat /\ it.hits \in Nat
  BY DEF TotalsInv, TotalsBounded
<1>8. TotalsBounded'
  BY <1>3, <1>5, <1>6, <1>7 DEF TotalsBounded
<1>9. ASSUME pc' = "t_walk"
      PROVE  (at \in 0 .. NSlots /\ it.count = Cardinality(Upto(at)) /\ it.hits <= Total(nhits, Upto(at)))'
  <2>1. at' = at /\ at \in 0 .. NSlots /\ it.count = Cardinality(Upto(at)) /\ it.hits <= Total(nhits, Upto(at))
    BY <1>9 DEF TotalsInv
  <2>2. Upto(at)' = Upto(at)
    BY <1>9, <2>1 DEF Upto
  <2>3. \A k \in Upto(at) : k \in Key
    BY <1>2 DEF Upto
  <2>4. Total(nhits, Upto(at)) <= Total(nhits', Upto(at))
    BY <1>2, <1>4, <2>3, TotalMonotone
  <2>5. Total(nhits, Upto(at)) \in Nat /\ Total(nhits', Upto(at)) \in Nat
    BY <1>2, <1>4, <2>3, UnitsFinite
  <2>6. it'.hits <= Total(nhits', Upto(at))
    BY <1>7, <2>1, <2>4, <2>5
  <2> QED
    BY <2>1, <2>2, <2>6
<1>10. pc' \in {"t_lock", "t_walk"} => ~it'.totals_flag
  BY DEF TotalsInv
<1>11. ~it'.totals_flag /\ pc' # "t_walk" => it'.count = 0 /\ it'.hits = 0
  BY DEF TotalsInv
<1> QED
  BY <1>7, <1>8, <1>9, <1>10, <1>11 DEF TotalsInv

\* A new object has no totals.
LEMMA TotalsNew ==
  ASSUME IterInv', nhits' \in [Key -> Nat], it' \in {Created, Initialized}, pc' \notin {"t_lock", "t_walk"}
  PROVE  TotalsInv'
<1>1. it'.count = 0 /\ it'.hits = 0
  BY DEF Created, Initialized
<1>2. IterTypeOK' /\ Chained'
  BY DEF IterInv
<1>3. IsFiniteSet(Matches') /\ Matches' \subseteq Key
  BY <1>2, MatchesFiniteNext
<1>4. Cardinality(Matches') \in Nat /\ Total(nhits', Matches') \in Nat
  BY <1>3, FS_CardinalityType, UnitsFinite
<1>5. TotalsBounded'
  BY <1>1, <1>4 DEF TotalsBounded
<1> QED
  BY <1>1, <1>5 DEF TotalsInv

\* The walk starts, with nothing passed.
LEMMA TotalsLockTotals == ASSUME IterInv, IterInv', TotalsInv, TotalsLock PROVE TotalsInv'
<1>1. pc = "t_lock" /\ pc' = "t_walk" /\ it' = it /\ at' = at /\ nhits' = nhits /\ chain' = chain
  BY DEF TotalsLock, table, object
<1>2. /\ ~it.totals_flag /\ it.count = 0 /\ it.hits = 0 /\ nhits \in [Key -> Nat] /\ TotalsBounded
  BY <1>1 DEF TotalsInv
<1>3. at = 0
  BY <1>1 DEF TotalsInv
<1>4. Matches' = Matches
  BY <1>1 DEF Matches, Linked
<1>5. Matches \subseteq Key /\ \A k \in Matches : SlotOf[k] \in Nat
  BY SlotFacts, MatchFacts DEF IterInv
<1>6. Upto(0)' = {}
  BY <1>4, <1>5 DEF Upto
<1>7. Cardinality(Upto(0)') = 0 /\ Total(nhits', Upto(0)') = 0
  BY <1>6, FS_EmptySet, TotalEmpty
<1>8. 0 \in 0 .. NSlots
  BY SlotFacts
<1>9. TotalsBounded'
  BY <1>1, <1>2, <1>4 DEF TotalsBounded
<1> QED
  BY <1>1, <1>2, <1>3, <1>7, <1>8, <1>9 DEF TotalsInv

\* One slot: its matching entries are added to those passed.
LEMMA TotalsSlotTotals == ASSUME IterInv, IterInv', TotalsInv, TotalsSlot PROVE TotalsInv'
<1> DEFINE found == Range(chain[at]) \cap Match
<1>1. /\ pc = "t_walk" /\ pc' = "t_walk" /\ at < NSlots /\ at' = at + 1 /\ nhits' = nhits /\ chain' = chain
      /\ it' = [it EXCEPT !.count = @ + Cardinality(found), !.hits = @ + Total(nhits, found)]
  BY DEF TotalsSlot, table
<1>2. /\ ~it.totals_flag /\ nhits \in [Key -> Nat] /\ it.count \in Nat /\ it.hits \in Nat
      /\ at \in 0 .. NSlots /\ it.count = Cardinality(Upto(at)) /\ it.hits <= Total(nhits, Upto(at))
  BY <1>1 DEF TotalsInv
<1>3. IterTypeOK /\ Chained
  BY DEF IterInv
<1>4. /\ it'.count = it.count + Cardinality(found) /\ it'.hits = it.hits + Total(nhits, found)
      /\ it'.totals_flag = it.totals_flag
  BY <1>1, <1>3, ObjectFacts
<1>5. Matches' = Matches
  BY <1>1 DEF Matches, Linked
<1>6. at \in Slot /\ at + 1 \in 0 .. NSlots
  BY <1>1, <1>2, SlotFacts
<1>7. found = {k \in Matches : SlotOf[k] = at}
  <2>1. ASSUME NEW k \in found PROVE k \in Matches /\ SlotOf[k] = at
    <3>1. PICK i \in DOMAIN chain[at] : chain[at][i] = k
      BY DEF Range
    <3> QED
      BY <1>3, <1>6, <3>1, MatchFacts DEF Chained
  <2>2. ASSUME NEW k \in Matches, SlotOf[k] = at PROVE k \in found
    BY <1>3, <2>2, MatchFacts DEF Range
  <2> QED
    BY <2>1, <2>2
<1>8. Matches \subseteq Key /\ \A k \in Matches : SlotOf[k] \in Nat
  BY <1>3, SlotFacts, MatchFacts
<1>9. Upto(at)' = Upto(at) \cup found /\ Upto(at) \cap found = {}
  BY <1>1, <1>2, <1>5, <1>7, <1>8 DEF Upto
<1>10. IsFiniteSet(Upto(at)) /\ IsFiniteSet(found) /\ Upto(at) \subseteq Matches /\ found \subseteq Matches /\ IsFiniteSet(Matches)
  BY <1>3, <1>7, MatchesFinite, FS_Subset DEF Upto
<1> HIDE DEF found
<1>11. /\ Cardinality(Upto(at)) \in Nat /\ Cardinality(found) \in Nat
       /\ Cardinality(Upto(at) \cup found) = Cardinality(Upto(at)) + Cardinality(found)
  <2>1. Cardinality(Upto(at)) \in Nat /\ Cardinality(found) \in Nat
    BY <1>10, FS_CardinalityType
  <2>2. Cardinality(Upto(at) \cup found) =
          Cardinality(Upto(at)) + Cardinality(found) - Cardinality(Upto(at) \cap found)
    BY <1>10, FS_Union
  <2>3. Cardinality(Upto(at) \cap found) = 0
    BY <1>9, FS_EmptySet
  <2> QED
    BY <2>1, <2>2, <2>3
<1>12. \A k \in Matches : nhits[k] \in Nat
  BY <1>2, <1>8
<1>13. Total(nhits, Upto(at) \cup found) = Total(nhits, Upto(at)) + Total(nhits, found)
  BY <1>9, <1>10, <1>12, TotalUnion
<1>14. Total(nhits, Upto(at)) \in Nat /\ Total(nhits, found) \in Nat
  BY <1>10, <1>12, UnitsFinite
<1>15. it'.count \in Nat /\ it'.hits \in Nat /\ ~it'.totals_flag
  BY <1>2, <1>4, <1>11, <1>14
<1>16. it'.count = Cardinality(Upto(at) \cup found) /\ it'.hits <= Total(nhits, Upto(at) \cup found)
  BY <1>2, <1>4, <1>11, <1>13, <1>14
<1>17. Upto(at)' \subseteq Matches
  BY <1>9, <1>10
<1>18. it'.count <= Cardinality(Matches)
  <2>1. Cardinality(Upto(at) \cup found) <= Cardinality(Matches)
    BY <1>9, <1>10, <1>17, FS_Subset
  <2> QED
    BY <1>16, <2>1
<1>19. it'.hits <= Total(nhits, Matches)
  <2>1. Total(nhits, Upto(at) \cup found) <= Total(nhits, Matches)
    BY <1>9, <1>10, <1>12, <1>17, TotalMonotone
  <2>2. Total(nhits, Upto(at) \cup found) \in Nat /\ Total(nhits, Matches) \in Nat
    BY <1>10, <1>12, <1>13, <1>14, UnitsFinite
  <2> QED
    BY <1>15, <1>16, <2>1, <2>2
<1>20. TotalsBounded'
  BY <1>1, <1>5, <1>18, <1>19 DEF TotalsBounded
<1> QED
  BY <1>1, <1>2, <1>6, <1>9, <1>15, <1>16, <1>20 DEF TotalsInv

\* The walk has passed every slot.
LEMMA TotalsEndTotals == ASSUME IterInv, IterInv', TotalsInv, TotalsEnd PROVE TotalsInv'
<1>1. /\ pc = "t_walk" /\ pc' = "answer" /\ nhits' = nhits /\ chain' = chain
      /\ it' = [it EXCEPT !.totals_flag = TRUE]
  BY DEF TotalsEnd, table
<1>2. it'.count = it.count /\ it'.hits = it.hits /\ it'.totals_flag = TRUE
  BY <1>1, ObjectFacts DEF IterInv
<1>3. Matches' = Matches
  BY <1>1 DEF Matches, Linked
<1>4. TotalsBounded'
  BY <1>1, <1>2, <1>3 DEF TotalsInv, TotalsBounded
<1> QED
  BY <1>1, <1>2, <1>4 DEF TotalsInv

\* Totals count no entry and no hit twice, however often and between whatever
\* calls they are asked for, and whatever is inserted or fetched meanwhile.
THEOREM TotalsNeverExceed == Spec => []TotalsBounded
<1>1. Init => TotalsInv
  <2> SUFFICES ASSUME Init PROVE TotalsInv
    OBVIOUS
  <2>1. IterTypeOK /\ Chained
    BY InitIter DEF IterInv
  <2>2. it.count = 0 /\ it.hits = 0 /\ pc = "script" /\ nhits \in [Key -> Nat]
    BY DEF Init, Created
  <2>3. IsFiniteSet(Matches) /\ Matches \subseteq Key
    BY <2>1, MatchesFinite, MatchFacts
  <2>4. Cardinality(Matches) \in Nat /\ Total(nhits, Matches) \in Nat
    BY <2>2, <2>3, FS_CardinalityType, UnitsFinite
  <2> QED
    BY <2>2, <2>4 DEF TotalsInv, TotalsBounded
<1>2. IterInv /\ IterInv' /\ TotalsInv /\ [Next]_vars => TotalsInv'
  <2> SUFFICES ASSUME IterInv, IterInv', TotalsInv, [Next]_vars PROVE TotalsInv'
    OBVIOUS
  <2>0. nhits \in [Key -> Nat] /\ (\A k \in Key : nhits[k] <= nhits[k]) /\ IterTypeOK
    BY DEF TotalsInv, IterInv
  <2>1. ASSUME chain' = chain PROVE Matches' = Matches
    BY <2>1 DEF Matches, Linked
  <2>2. ASSUME NEW k \in Key, Insert(k) PROVE TotalsInv'
    <3>1. ~locked /\ nhits' = nhits /\ it' = it /\ pc' = pc /\ at' = at
          /\ chain' = [chain EXCEPT ![SlotOf[k]] = Append(@, k)]
      BY <2>2 DEF Insert, object
    <3>2. pc # "t_walk"
      BY <3>1 DEF IterInv, Held
    <3>3. Matches \subseteq Matches'
      <4> SUFFICES ASSUME NEW x \in Matches PROVE x \in Matches'
        OBVIOUS
      <4>1. PICK s \in Slot : \E i \in DOMAIN chain[s] : chain[s][i] = x
        BY MatchFacts DEF IterInv
      <4>2. chain \in [Slot -> Seq(Key)] /\ x \in Match
        BY MatchFacts DEF IterInv, IterTypeOK
      <4>3. \E i \in DOMAIN chain'[s] : chain'[s][i] = x
        <5>1. CASE s = SlotOf[k]
          <6>1. chain'[s] = Append(chain[s], k) /\ chain[s] \in Seq(Key)
            BY <3>1, <4>2, <5>1
          <6> QED
            BY <4>1, <6>1, AppendFacts
        <5>2. CASE s # SlotOf[k]
          BY <3>1, <4>1, <4>2, <5>2
        <5> QED
          BY <5>1, <5>2
      <4>4. x \in Linked'
        BY <4>3 DEF Linked, Range
      <4> QED
        BY <4>2, <4>4 DEF Matches
    <3>4. pc' = "t_lock" => ~it.totals_flag /\ at' = 0
      BY <3>1 DEF TotalsInv
    <3> QED
      BY <2>0, <3>1, <3>2, <3>3, <3>4, TotalsStay
  <2>3. ASSUME NEW k \in Key, Hit(k) PROVE TotalsInv'
    <3>1. nhits' = [nhits EXCEPT ![k] = @ + 1] /\ chain' = chain /\ it' = it /\ pc' = pc /\ at' = at
      BY <2>3 DEF Hit, object
    <3>2. nhits' \in [Key -> Nat] /\ \A x \in Key : nhits[x] <= nhits'[x]
      BY <2>0, <3>1
    <3>3. pc' = "t_lock" => ~it.totals_flag /\ at' = 0
      BY <3>1 DEF TotalsInv
    <3> QED
      BY <2>1, <3>1, <3>2, <3>3, TotalsStay
  <2>4. ASSUME nhits' = nhits, chain' = chain,
               it'.count = it.count, it'.hits = it.hits, it'.totals_flag = it.totals_flag,
               pc' \notin {"t_lock", "t_walk"}, pc # "t_walk"
        PROVE  TotalsInv'
    BY <2>0, <2>1, <2>4, TotalsStay
  <2>5. ASSUME NEW m \in Methods \cup {"next"}, Uninitialized(m) PROVE TotalsInv'
    BY <2>4, <2>5 DEF Uninitialized, table, object, May
  <2>6. CASE Construct
    <3>1. pc = "script" /\ pc' = pc /\ nhits' = nhits /\ chain' = chain /\ (it' = Initialized \/ it' = it)
      BY <2>6 DEF Construct, May, table, object
    <3> QED
      BY <2>0, <2>4, <3>1, TotalsNew
  <2>7. CASE Free
    <3>1. pc' = "script" /\ nhits' = nhits /\ it' = Created
      BY <2>7 DEF Free, table
    <3> QED
      BY <2>0, <3>1, TotalsNew
  <2>8. CASE Rewind
    <3>1. /\ pc = "script" /\ pc' = "f_lock" /\ nhits' = nhits /\ chain' = chain
          /\ it' = [it EXCEPT !.slot_idx = 0, !.stack_idx = 0]
      BY <2>8 DEF Rewind, May, Enter, table
    <3>2. it'.count = it.count /\ it'.hits = it.hits /\ it'.totals_flag = it.totals_flag
      BY <2>0, <3>1, ObjectFacts
    <3> QED
      BY <2>4, <3>1, <3>2
  <2>9. CASE Totals
    <3>1. /\ pc = "script" /\ pc' = (IF ~it.totals_flag THEN "t_lock" ELSE "answer")
          /\ nhits' = nhits /\ chain' = chain /\ it' = it /\ at' = 0
      BY <2>9 DEF Totals, TotalsDue, May, Enter, table, object
    <3> QED
      BY <2>0, <2>1, <3>1, TotalsStay
  <2>10. CASE NextItem
    <3>1. /\ pc = "script" /\ pc' = pc /\ nhits' = nhits /\ chain' = chain
          /\ it' = it \/ it' = [it EXCEPT !.stack_idx = it.stack_idx + 1]
      BY <2>10 DEF NextItem, May, table
    <3>2. it'.count = it.count /\ it'.hits = it.hits /\ it'.totals_flag = it.totals_flag
      BY <2>0, <3>1, ObjectFacts
    <3> QED
      BY <2>4, <3>1, <3>2
  <2>11. ASSUME NEW m \in {"valid", "current", "key"}, Ask(m) PROVE TotalsInv'
    <3>1. pc = "script" /\ pc' \in {"f_lock", "answer"} /\ nhits' = nhits /\ chain' = chain /\ it' = it
      BY <2>11 DEF Ask, May, Enter, table, object
    <3> QED
      BY <2>4, <3>1
  <2>12. CASE FetchLock \/ FetchLockFails \/ FetchEntry \/ UserCode
    <3>1. /\ pc \in {"f_lock", "f_walk", "wake"} /\ pc' \in {"f_walk", "fetched", "wake"}
          /\ nhits' = nhits /\ chain' = chain /\ it' = it
      BY <2>12 DEF FetchLock, FetchLockFails, FetchEntry, UserCode, table, object
    <3> QED
      BY <2>4, <3>1
  <2>13. CASE FetchSlot \/ FetchEnd \/ FetchBailout
    <3>1. /\ pc \in {"f_walk", "wake"} /\ pc' \in {"f_walk", "fetched", "dead"} /\ nhits' = nhits /\ chain' = chain
          /\ it' = [it EXCEPT !.slot_idx = it.slot_idx + 1] \/ it' = [it EXCEPT !.stack_idx = 0]
      BY <2>13 DEF FetchSlot, FetchEnd, FetchBailout, Building, table
    <3>2. it'.count = it.count /\ it'.hits = it.hits /\ it'.totals_flag = it.totals_flag
      BY <2>0, <3>1, ObjectFacts
    <3> QED
      BY <2>4, <3>1, <3>2
  <2>14. CASE TotalsLockFails
    BY <2>4, <2>14 DEF TotalsLockFails, table, object
  <2>15. CASE Return
    BY <2>4, <2>15 DEF Return, table, object
  <2>16. CASE vars' = vars
    <3>1. nhits' = nhits /\ chain' = chain /\ it' = it /\ pc' = pc /\ at' = at
      BY <2>16 DEF vars, table, object
    <3>2. pc' = "t_lock" => ~it.totals_flag /\ at' = 0
      BY <3>1 DEF TotalsInv
    <3> QED
      BY <2>0, <2>1, <3>1, <3>2, TotalsStay
  <2> QED
    BY <2>2, <2>3, <2>5, <2>6, <2>7, <2>8, <2>9, <2>10, <2>11, <2>12, <2>13, <2>14, <2>15, <2>16,
       TotalsLockTotals, TotalsSlotTotals, TotalsEndTotals DEF Next, Loop, Fetch, AddUp, Done
<1>3. TotalsInv => TotalsBounded
  BY DEF TotalsInv
<1> QED
  BY <1>1, <1>2, <1>3, IterInvariance, PTL DEF Spec

=============================================================================
