---------------------------- MODULE PersistProofs ----------------------------
(* Proofs about Persist, for every graph of values and every size of it.      *)
EXTENDS Persist, FiniteSetTheorems, TLAPS

-----------------------------------------------------------------------------
(* What is known while a value is measured and copied.  g is the graph of the *)
(* nodes that were there before, which no step changes.                       *)

Frames   == Seq([ht : Nat, i : Nat])
Contexts ==
  [memo : BOOLEAN, use_serialization : BOOLEAN, size : Nat, counted : SUBSET HashKeys,
   ok : BOOLEAN, unmemoized : BOOLEAN, cur : Nat, allocated : [HashKeys -> Nat],
   frames : Frames]

Old(m) == [n \in Node |-> m[n]]
SizeOf(g) ==
  [n \in Node |-> IF g[n].kind = "array" THEN HtSize + HtUsedSize(Len(g[n].buckets)) ELSE StrSize]

\* The input, as PersistAssumption has it.
InputOK(g) ==
  /\ Graph(g) /\ Shareable(g, shm)
  /\ entry = [key |-> entry.key, val |-> entry.val]
  /\ entry.key \in Node /\ g[entry.key].kind = "string"
  /\ entry.val \in Node \cup {Scalar}
  /\ entry.val \in Node => g[entry.val].kind # "reference"

\* Nodes that are counted, and nodes that are copied and where.
Visited(c)  == {n \in Node : HashKey(n) \in c.counted}
Place(c, n) == c.allocated[HashKey(n)]
Copied(c)   == {n \in Node : Place(c, n) # Scalar}

\* z needs no copy, or has its turn behind it.
Met(S, z) == z \in Node => z \in shm \/ z \in S
BothMet(S, b) == b.val = Undef \/ (b.val # Indirect /\ Met(S, b.key) /\ Met(S, b.val))

\* A running loop has bucket i of the array a before it.
Ahead(c, a, i) == \E j \in DOMAIN c.frames : c.frames[j].ht = a /\ c.frames[j].i <= i

\* The size is that of the counted nodes, and all of them belong to the value.
Measured(g, c) ==
  /\ c \in Contexts /\ c.memo /\ ~c.use_serialization /\ c.ok /\ c.unmemoized
  /\ Visited(c) \cap shm = {}
  /\ \A n \in Visited(c) : g[n].kind \in {"string", "array"}
  /\ c.size = EntrySize + Total(SizeOf(g), Visited(c))
  /\ \A C \in SUBSET Node :
       entry.val \in C /\ Closed(g, C) => Visited(c) \subseteq C \cup {entry.key}

\* What counted arrays hold is counted too, or some loop is still to come to it.
Calculating(g, c) ==
  /\ Measured(g, c)
  /\ \A n \in Visited(c) : \A i \in DOMAIN g[n].buckets :
       BothMet(Visited(c), g[n].buckets[i]) \/ Ahead(c, n, i)
  /\ \A j \in DOMAIN c.frames :
       c.frames[j].ht \in Visited(c) /\ g[c.frames[j].ht].kind = "array" /\ c.frames[j].i >= 1
  /\ c.cur = 0 /\ c.allocated = [h \in HashKeys |-> Scalar]

\* The entry is counted.
EntryMet(c) == Met(Visited(c), entry.key) /\ Met(Visited(c), entry.val)

\* Where a pointer leads once it is copied.
Image(c, z) == IF z \in Node \ shm THEN Place(c, z) ELSE z
BucketCopied(c, b, d) ==
  \/ b.val = Undef /\ d = b
  \/ /\ b.val # Undef /\ Met(Copied(c), b.key) /\ Met(Copied(c), b.val)
     /\ d = [key |-> Image(c, b.key), val |-> Image(c, b.val)]

\* The counted nodes are all there is to copy.
Complete(g, c) ==
  \A n \in Visited(c) : \A i \in DOMAIN g[n].buckets : BothMet(Visited(c), g[n].buckets[i])

\* Copies lie one behind the other in the block.
Placed(g, c, m) ==
  /\ Copied(c) \subseteq Visited(c)
  /\ c.cur = EntrySize + Total(SizeOf(g), Copied(c))
  /\ DOMAIN m = Node \cup {Place(c, n) : n \in Copied(c)}
  /\ \A n \in Copied(c) : Base < Place(c, n) /\ Place(c, n) < Base + c.cur
  /\ \A n, x \in Copied(c) : Place(c, n) = Place(c, x) => n = x

\* A copy has the kind, characters and buckets of its node; each bucket is
\* copied, or some loop is still to come to it.
Faithful(g, c, m) ==
  \A n \in Copied(c) :
    /\ m[Place(c, n)] \in Cells
    /\ m[Place(c, n)].kind = g[n].kind /\ m[Place(c, n)].text = g[n].text
    /\ DOMAIN m[Place(c, n)].buckets = DOMAIN g[n].buckets
    /\ \A i \in DOMAIN g[n].buckets :
         BucketCopied(c, g[n].buckets[i], m[Place(c, n)].buckets[i]) \/ Ahead(c, Place(c, n), i)

\* A loop has before it buckets that are still as they were; no two loops run
\* over one array.
Looping(g, c, m) ==
  /\ \A j \in DOMAIN c.frames : \E n \in Copied(c) :
       /\ c.frames[j].ht = Place(c, n) /\ c.frames[j].i >= 1
       /\ \A i \in DOMAIN g[n].buckets :
            i >= c.frames[j].i => m[Place(c, n)].buckets[i] = g[n].buckets[i]
  /\ \A j, k \in DOMAIN c.frames : c.frames[j].ht = c.frames[k].ht => j = k

Copying(g, c, m) ==
  Measured(g, c) /\ Complete(g, c) /\ Placed(g, c, m) /\ Faithful(g, c, m) /\ Looping(g, c, m)

\* The entry is copied as well.
EntryCopied(c, s) ==
  /\ Met(Copied(c), entry.key) /\ Met(Copied(c), entry.val)
  /\ s = [key |-> Image(c, entry.key), val |-> Image(c, entry.val), isptr |-> FALSE]

\* A value that is not walked: measured and copied without loops.
StringSize(s) == IF s \in shm THEN 0 ELSE StrSize
ValueSize(c) ==
  IF entry.val = Scalar THEN 0
  ELSE IF c.use_serialization THEN StrSize + SerializedSize ELSE StringSize(entry.val)
PlainMeasured(g, c) ==
  /\ c.ok /\ c.frames = <<>> /\ c.size = EntrySize + StringSize(entry.key) + ValueSize(c)
  /\ c.allocated = [h \in HashKeys |-> Scalar]
  /\ \/ entry.val = Scalar \/ c.use_serialization \/ entry.val \in shm
     \/ g[entry.val].kind = "string"

\* The block holds strings only.
Strings(c, m) ==
  /\ Node \subseteq DOMAIN m
  /\ \A a \in DOMAIN m \ Node :
       /\ a \in Nat /\ Base < a /\ a < Base + c.cur
       /\ m[a].kind = "string" /\ m[a].buckets = <<>>

\* A copied string stands for string s.
StringCopied(g, m, s, z) ==
  \/ s \in shm /\ z = s
  \/ s \notin shm /\ z \in DOMAIN m \ Node /\ m[z].text = g[s].text
PlainCopied(g, c, m, s) ==
  /\ c.cur = c.size /\ Strings(c, m)
  /\ StringCopied(g, m, entry.key, s.key)
  /\ s.isptr = (c.use_serialization /\ entry.val \in Node)
  /\ \/ entry.val = Scalar /\ s.val = Scalar
     \/ /\ entry.val \in Node /\ c.use_serialization
        /\ s.val \in DOMAIN m \ Node /\ m[s.val].text = -entry.val
     \/ /\ entry.val \in Node /\ ~c.use_serialization /\ g[entry.val].kind = "string"
        /\ StringCopied(g, m, entry.val, s.val)
     \/ /\ entry.val \in shm /\ ~c.use_serialization /\ s.val = entry.val

Before == {"start", "calc", "recalc", "refused", "block", "nomemory"}
After  == {"copy", "stored", "fetched"}

\* The inductive invariant, in parts: the input is what it was; what the
\* context says of the value; what is measured; what is copied.
ValidInput ==
  /\ phase \in Before \cup After
  /\ InputOK(Old(mem)) /\ (phase \in Before => mem = Old(mem))
ValidContext ==
  /\ ctxt \in Contexts /\ ctxt.unmemoized
  /\ ctxt.memo => entry.val \in Node /\ Old(mem)[entry.val].kind = "array"
  /\ ctxt.use_serialization \/ phase = "recalc" =>
       entry.val \in Node /\ Old(mem)[entry.val].kind \in {"array", "object"}
  /\ phase \in {"block", "stored", "fetched"} => ctxt.frames = <<>>
ValidSize ==
  phase \in {"calc", "block"} =>
    /\ ctxt.cur = 0
    /\ IF ctxt.memo THEN Calculating(Old(mem), ctxt) /\ EntryMet(ctxt)
       ELSE PlainMeasured(Old(mem), ctxt)
ValidCopy ==
  phase \in After =>
    IF ctxt.memo THEN Copying(Old(mem), ctxt, mem) /\ EntryCopied(ctxt, stored)
    ELSE PlainMeasured(Old(mem), ctxt) /\ PlainCopied(Old(mem), ctxt, mem, stored)
Fetched ==
  phase = "fetched" => dst \in IF stored.isptr THEN {entry.val, Scalar} ELSE {stored.val}

IndInv ==
  ValidInput /\ ValidContext /\ ValidSize /\ ValidCopy /\ Fetched /\ RefusedForCause

-----------------------------------------------------------------------------
(* Addresses, sums and sets of nodes.                                        *)

\* Nodes lie before the block and have a hash key.
LEMMA NodeRange ==
  ASSUME NEW n \in Node
  PROVE  n \in Nat /\ 0 < n /\ n < Base /\ HashKey(n) \in HashKeys
  BY PersistAssumption DEF HashKeys

LEMMA NodeFinite == ASSUME NEW S \in SUBSET Node PROVE IsFiniteSet(S)
<1>1. IsFiniteSet(1 .. Base - 1)
  BY PersistAssumption, FS_Interval
<1>2. S \subseteq 1 .. Base - 1
  BY PersistAssumption
<1> QED
  BY <1>1, <1>2, FS_Subset

\* A rotation loses no bits: nodes have different hash keys.
LEMMA HashInjective ==
  ASSUME NEW n \in Node, NEW x \in Node, HashKey(n) = HashKey(x)
  PROVE  n = x
<1> DEFINE q == n \div 8
           r == n % 8
           s == x \div 8
           t == x % 8
<1>1. /\ n = 8 * q + r /\ x = 8 * s + t
      /\ q \in Nat /\ s \in Nat /\ r \in 0 .. 7 /\ t \in 0 .. 7
  <2>1. n \in Nat /\ x \in Nat
    BY NodeRange
  <2> QED
    BY <2>1
<1>2. q < Spread /\ s < Spread /\ Spread \in Nat
  BY <1>1, NodeRange, PersistAssumption
<1>3. q + r * Spread = s + t * Spread
  BY DEF HashKey
<1> HIDE DEF q, r, s, t
<1>4. r = t
  <2>1. r \in {0, 1, 2, 3, 4, 5, 6, 7} /\ t \in {0, 1, 2, 3, 4, 5, 6, 7}
    BY <1>1
  <2> QED
    BY <1>1, <1>2, <1>3, <2>1
<1>5. q = s
  <2>1. r * Spread \in Nat
    BY <1>1, <1>2
  <2> QED
    BY <1>1, <1>3, <1>4, <2>1
<1> QED
  BY <1>1, <1>4, <1>5

\* Sums (module Sums): the units of a finite set of natural numbers are finite.
LEMMA UnitsFinite ==
  ASSUME NEW S, IsFiniteSet(S), NEW f, \A x \in S : f[x] \in Nat
  PROVE  IsFiniteSet(Units(f, S)) /\ Total(f, S) \in Nat
<1> DEFINE g == [x \in S |-> {x} \X (1 .. f[x])]
           T == {{x} \X (1 .. f[x]) : x \in S}
<1>1. g \in Surjection(S, T)
  BY DEF Surjection
<1>2. IsFiniteSet(T)
  BY <1>1, FS_Surjection
<1>3. ASSUME NEW x \in S PROVE IsFiniteSet({x} \X (1 .. f[x]))
  <2>1. f[x] \in Nat /\ 1 \in Int
    OBVIOUS
  <2>2. IsFiniteSet({x})
    BY FS_Singleton
  <2>3. IsFiniteSet(1 .. f[x])
    BY <2>1, FS_Interval
  <2> QED
    BY <2>2, <2>3, FS_Product
<1>4. \A t \in T : IsFiniteSet(t)
  BY <1>3
<1>5. IsFiniteSet(UNION T)
  BY <1>2, <1>4, FS_UNION
<1> QED
  BY <1>5, FS_CardinalityType DEF Units, Total

\* The sum over nothing and over one more element.
LEMMA TotalEmpty ==
  ASSUME NEW f
  PROVE  Total(f, {}) = 0
  BY FS_EmptySet DEF Total, Units

LEMMA TotalAdd ==
  ASSUME NEW S, IsFiniteSet(S), NEW f, \A y \in S : f[y] \in Nat,
         NEW x, x \notin S, f[x] \in Nat
  PROVE  Total(f, S \cup {x}) = Total(f, S) + f[x]
<1> DEFINE U == Units(f, S)
           V == {x} \X (1 .. f[x])
<1>1. Units(f, S \cup {x}) = U \cup V
  BY DEF Units
<1>2. U \cap V = {}
  <2> SUFFICES ASSUME NEW u \in U, u \in V PROVE FALSE
    OBVIOUS
  <2>1. PICK y \in S : u \in {y} \X (1 .. f[y])
    BY DEF Units
  <2>2. u[1] = x /\ u[1] = y
    BY <2>1
  <2> QED
    BY <2>2
<1>3. IsFiniteSet(U) /\ Cardinality(U) \in Nat
  BY UnitsFinite DEF Total
<1>4. IsFiniteSet({x}) /\ Cardinality({x}) = 1
  BY FS_Singleton
<1>5. IsFiniteSet(1 .. f[x]) /\ Cardinality(1 .. f[x]) = f[x]
  BY FS_Interval
<1>6. IsFiniteSet(V) /\ Cardinality(V) = Cardinality({x}) * Cardinality(1 .. f[x])
  BY <1>4, <1>5, FS_Product
<1>7. Cardinality(V) = 1 * f[x]
  BY <1>4, <1>5, <1>6, Zenon
<1>8. Cardinality(U \cup V) = Cardinality(U) + Cardinality(V) - Cardinality(U \cap V)
  BY <1>3, <1>6, FS_Union
<1>9. Cardinality(U \cap V) = 0
  BY <1>2, FS_EmptySet, Zenon
<1>10. Total(f, S \cup {x}) = Cardinality(U \cup V)
  BY <1>1, Zenon DEF Total
<1>11. Total(f, S) = Cardinality(U)
  BY DEF Total
<1> HIDE DEF U, V
<1> QED
  BY <1>3, <1>7, <1>8, <1>9, <1>10, <1>11

\* A sum grows with the set.
LEMMA TotalSubset ==
  ASSUME NEW T, IsFiniteSet(T), NEW S \in SUBSET T, NEW f, \A x \in T : f[x] \in Nat
  PROVE  Total(f, S) <= Total(f, T)
<1>1. Units(f, S) \subseteq Units(f, T)
  BY DEF Units
<1>2. IsFiniteSet(Units(f, T))
  BY UnitsFinite
<1> QED
  BY <1>1, <1>2, FS_Subset DEF Total
-----------------------------------------------------------------------------
(* Contexts.                                                                 *)

\* A context with what measuring and copying change.
With(c, size, counted, cur, allocated, frames) ==
  [memo |-> c.memo, use_serialization |-> c.use_serialization, size |-> size,
   counted |-> counted, ok |-> c.ok, unmemoized |-> c.unmemoized, cur |-> cur,
   allocated |-> allocated, frames |-> frames]

LEMMA WithType ==
  ASSUME NEW c \in Contexts, NEW size \in Nat, NEW counted \in SUBSET HashKeys, NEW cur \in Nat,
         NEW allocated \in [HashKeys -> Nat], NEW frames \in Frames
  PROVE  With(c, size, counted, cur, allocated, frames) \in Contexts
  BY DEF With, Contexts

\* The types of the fields.
LEMMA Fields ==
  ASSUME NEW c \in Contexts
  PROVE  /\ c.size \in Nat /\ c.counted \in SUBSET HashKeys /\ c.cur \in Nat
         /\ c.allocated \in [HashKeys -> Nat] /\ c.frames \in Frames
         /\ {c.memo, c.use_serialization, c.ok, c.unmemoized} \subseteq BOOLEAN
  BY DEF Contexts

LEMMA FramesIs ==
  ASSUME NEW c \in Contexts, NEW fs
  PROVE  [c EXCEPT !.frames = fs] = With(c, c.size, c.counted, c.cur, c.allocated, fs)
  BY DEF With, Contexts

LEMMA AddSizeIs ==
  ASSUME NEW c \in Contexts, NEW k
  PROVE  AddSize(c, k) = With(c, c.size + k, c.counted, c.cur, c.allocated, c.frames)
  BY DEF AddSize, With, Contexts

LEMMA MemoizeIs ==
  ASSUME NEW c \in Contexts, c.memo, NEW n
  PROVE  Memoize(c, n) = With(c, c.size, c.counted \cup {HashKey(n)}, c.cur, c.allocated, c.frames)
  BY DEF Memoize, With, Contexts

LEMMA EnterIs ==
  ASSUME NEW c \in Contexts, NEW ht
  PROVE  Enter(c, ht) = With(c, c.size, c.counted, c.cur, c.allocated,
                             Append(c.frames, [ht |-> ht, i |-> 1]))
  BY FramesIs DEF Enter

LEMMA LeaveIs ==
  ASSUME NEW c \in Contexts
  PROVE  Leave(c) = With(c, c.size, c.counted, c.cur, c.allocated,
                         SubSeq(c.frames, 1, Len(c.frames) - 1))
  BY FramesIs DEF Leave

LEMMA AdvanceIs ==
  ASSUME NEW c \in Contexts, NEW l
  PROVE  Advance(c, l) = With(c, c.size, c.counted, c.cur, c.allocated,
                              [c.frames EXCEPT ![l].i = @ + 1])
  BY FramesIs DEF Advance

LEMMA AddAllocatedIs ==
  ASSUME NEW c \in Contexts, c.memo, NEW old, NEW new
  PROVE  AddAlreadyAllocated(c, old, new) =
           With(c, c.size, c.counted, c.cur, [c.allocated EXCEPT ![HashKey(old)] = new], c.frames)
  BY DEF AddAlreadyAllocated, With, Contexts

-----------------------------------------------------------------------------
(* Measuring.                                                                *)

\* Sizes are positive: the graph is one of strings and arrays.
LEMMA SizePositive ==
  ASSUME NEW g, Graph(g), NEW n \in Node
  PROVE  SizeOf(g)[n] \in Nat /\ SizeOf(g)[n] > 0
<1>1. g[n] \in Cells
  BY DEF Graph
<1>2. Len(g[n].buckets) \in Nat
  BY <1>1 DEF Cells
<1> QED
  BY <1>2 DEF SizeOf, HtSize, HtUsedSize, StrSize

\* Remembering a node adds it, and no other.
LEMMA VisitedGrows ==
  ASSUME NEW c, NEW d, NEW n \in Node, d.counted = c.counted \cup {HashKey(n)}
  PROVE  Visited(d) = Visited(c) \cup {n}
  BY HashInjective DEF Visited

\* Every closed set with the value has z too, or z is the key of the entry.
Belongs(g, z) ==
  z \in Node => \A C \in SUBSET Node : entry.val \in C /\ Closed(g, C) => z \in C \cup {entry.key}

\* d has counted node n, which c had not, and has entered its loop if it has one.
Counts(g, c, d, n) ==
  /\ d \in Contexts
  /\ d.memo = c.memo /\ d.use_serialization = c.use_serialization
  /\ d.ok = c.ok /\ d.unmemoized = c.unmemoized
  /\ d.cur = c.cur /\ d.allocated = c.allocated
  /\ d.counted = c.counted \cup {HashKey(n)} /\ d.size = c.size + SizeOf(g)[n]
  /\ \/ d.frames = c.frames /\ g[n].buckets = <<>>
     \/ d.frames = Append(c.frames, [ht |-> n, i |-> 1]) /\ g[n].kind = "array"

LEMMA CountsKeeps ==
  ASSUME NEW g, InputOK(g), NEW c, Calculating(g, c), NEW d, NEW n \in Node,
         n \notin shm, n \notin Visited(c), g[n].kind \in {"string", "array"},
         Belongs(g, n), Counts(g, c, d, n)
  PROVE  Calculating(g, d) /\ Visited(d) = Visited(c) \cup {n}
<1>1. Visited(d) = Visited(c) \cup {n}
  <2>1. d.counted = c.counted \cup {HashKey(n)}
    BY DEF Counts
  <2> QED
    BY <2>1, VisitedGrows
<1>2. c \in Contexts /\ d \in Contexts /\ Visited(c) \subseteq Node
  BY DEF Calculating, Measured, Counts, Visited
<1>3. Total(SizeOf(g), Visited(d)) = Total(SizeOf(g), Visited(c)) + SizeOf(g)[n]
  <2>1. IsFiniteSet(Visited(c))
    BY <1>2, NodeFinite
  <2>2. Graph(g)
    BY DEF InputOK
  <2>3. \A x \in Node : SizeOf(g)[x] \in Nat
    BY <2>2, SizePositive
  <2> QED
    BY <1>1, <1>2, <2>1, <2>3, TotalAdd
<1>4. c.size = EntrySize + Total(SizeOf(g), Visited(c))
  BY DEF Calculating, Measured
<1>5. Total(SizeOf(g), Visited(c)) \in Nat /\ SizeOf(g)[n] \in Nat
  BY <1>2, NodeFinite, SizePositive, UnitsFinite DEF InputOK
<1>6. d.size = EntrySize + Total(SizeOf(g), Visited(d))
  BY <1>3, <1>4, <1>5 DEF Counts, EntrySize
<1>7. \A C \in SUBSET Node :
        entry.val \in C /\ Closed(g, C) => Visited(d) \subseteq C \cup {entry.key}
  BY <1>1 DEF Belongs, Calculating, Measured
<1>8. Measured(g, d)
  BY <1>1, <1>2, <1>6, <1>7 DEF Calculating, Measured, Counts
<1>a. c.frames \in Frames
  BY <1>2 DEF Contexts
<1>9. /\ \A j \in DOMAIN c.frames : j \in DOMAIN d.frames /\ d.frames[j] = c.frames[j]
      /\ \A j \in DOMAIN d.frames : 
           j \in DOMAIN c.frames \/ (d.frames[j] = [ht |-> n, i |-> 1] /\ g[n].kind = "array")
      /\ g[n].buckets = <<>> \/ \E j \in DOMAIN d.frames : d.frames[j] = [ht |-> n, i |-> 1]
  <2>1. CASE d.frames = c.frames /\ g[n].buckets = <<>>
    BY <2>1
  <2>2. CASE d.frames = Append(c.frames, [ht |-> n, i |-> 1]) /\ g[n].kind = "array"
    <3>1. /\ DOMAIN c.frames = 1 .. Len(c.frames) /\ Len(c.frames) \in Nat
          /\ DOMAIN d.frames = 1 .. Len(c.frames) + 1
          /\ \A j \in 1 .. Len(c.frames) : d.frames[j] = c.frames[j]
          /\ d.frames[Len(c.frames) + 1] = [ht |-> n, i |-> 1]
      <4>1. [ht |-> n, i |-> 1] \in [ht : Nat, i : Nat]
        BY NodeRange
      <4> QED
        BY <1>a, <2>2, <4>1 DEF Frames
    <3> QED
      BY <2>2, <3>1
  <2> QED
    BY <2>1, <2>2 DEF Counts
<1>10. \A x \in Visited(d) : \A i \in DOMAIN g[x].buckets :
         BothMet(Visited(d), g[x].buckets[i]) \/ Ahead(d, x, i)
  <2> SUFFICES ASSUME NEW x \in Visited(d), NEW i \in DOMAIN g[x].buckets
               PROVE BothMet(Visited(d), g[x].buckets[i]) \/ Ahead(d, x, i)
    OBVIOUS
  <2>1. CASE x = n
    <3>1. g[n] \in Cells
      BY DEF InputOK, Graph
    <3>2. i \in Nat /\ i >= 1
      BY <2>1, <3>1 DEF Cells
    <3>3. g[n].buckets # <<>>
      BY <2>1, <3>1 DEF Cells
    <3> QED
      BY <1>9, <2>1, <3>2, <3>3 DEF Ahead
  <2>2. CASE x \in Visited(c)
    <3>1. BothMet(Visited(c), g[x].buckets[i]) \/ Ahead(c, x, i)
      BY <2>2 DEF Calculating
    <3>2. Ahead(c, x, i) => Ahead(d, x, i)
      BY <1>9 DEF Ahead
    <3>3. BothMet(Visited(c), g[x].buckets[i]) => BothMet(Visited(d), g[x].buckets[i])
      BY <1>1 DEF BothMet, Met
    <3> QED
      BY <3>1, <3>2, <3>3
  <2> QED
    BY <1>1, <2>1, <2>2
<1>11. \A j \in DOMAIN d.frames :
         d.frames[j].ht \in Visited(d) /\ g[d.frames[j].ht].kind = "array" /\ d.frames[j].i >= 1
  BY <1>1, <1>9 DEF Calculating
<1> QED
  BY <1>1, <1>8, <1>10, <1>11 DEF Calculating, Counts

\* calc_str counts a string once.
LEMMA CalcStr ==
  ASSUME InputOK(mem), NEW c, Calculating(mem, c), NEW s \in Node, mem[s].kind = "string",
         Belongs(mem, s)
  PROVE  /\ Calculating(mem, calc_str(c, s)) /\ Met(Visited(calc_str(c, s)), s)
         /\ Visited(c) \subseteq Visited(calc_str(c, s))
         /\ calc_str(c, s).frames = c.frames
<1> DEFINE d == calc_str(c, s)
<1>1. c \in Contexts /\ c.memo
  BY DEF Calculating, Measured
<1>2. InSma(s) <=> s \in shm
  BY NodeRange, PersistAssumption DEF InSma
<1>3. CASE s \in shm \/ s \in Visited(c)
  <2>1. d = c
    BY <1>1, <1>2, <1>3 DEF calc_str, Known, Visited
  <2> QED
    BY <1>3, <2>1 DEF Met
<1>4. CASE s \notin shm /\ s \notin Visited(c)
  <2> DEFINE e == Memoize(c, s)
  <2>a. HashKey(s) \in HashKeys
    BY NodeRange
  <2>b. e = With(c, c.size, c.counted \cup {HashKey(s)}, c.cur, c.allocated, c.frames)
    BY <1>1, MemoizeIs
  <2>c. e \in Contexts
    BY <1>1, <2>a, <2>b, Fields, WithType
  <2>d. d = AddSize(e, StrSize)
    BY <1>1, <1>2, <1>4 DEF calc_str, Known, Visited
  <2>e. d = With(e, e.size + StrSize, e.counted, e.cur, e.allocated, e.frames)
    BY <2>c, <2>d, AddSizeIs
  <2>f. d = With(c, c.size + StrSize, c.counted \cup {HashKey(s)}, c.cur, c.allocated, c.frames)
    BY <2>b, <2>e DEF With
  <2>g. d \in Contexts
    <3>1. c.size + StrSize \in Nat /\ c.counted \cup {HashKey(s)} \in SUBSET HashKeys
      BY <1>1, <2>a, Fields DEF StrSize
    <3> QED
      BY <1>1, <2>f, <3>1, Fields, WithType
  <2>2. mem[s].buckets = <<>> /\ SizeOf(mem)[s] = StrSize
    BY DEF InputOK, Graph, SizeOf
  <2> HIDE DEF d
  <2>3. Counts(mem, c, d, s) /\ d.frames = c.frames
    BY <2>2, <2>f, <2>g DEF Counts, With
  <2>4. Calculating(mem, d) /\ Visited(d) = Visited(c) \cup {s}
    BY <1>4, <2>3, CountsKeeps
  <2> USE DEF d
  <2> QED
    BY <2>3, <2>4 DEF Met
<1> QED
  BY <1>3, <1>4
\* Elements of a sequence, and a sequence without its last.
LEMMA SeqElements ==
  ASSUME NEW X, NEW q \in Seq(X)
  PROVE  DOMAIN q = 1 .. Len(q) /\ Len(q) \in Nat /\ \A j \in DOMAIN q : q[j] \in X
  OBVIOUS

LEMMA SeqFront ==
  ASSUME NEW X, NEW q \in Seq(X), q # <<>>
  PROVE  /\ Len(q) > 0 /\ SubSeq(q, 1, Len(q) - 1) \in Seq(X)
         /\ DOMAIN SubSeq(q, 1, Len(q) - 1) = 1 .. Len(q) - 1
         /\ \A j \in 1 .. Len(q) - 1 : SubSeq(q, 1, Len(q) - 1)[j] = q[j]
<1>1. Len(q) \in Nat /\ Len(q) > 0 /\ DOMAIN q = 1 .. Len(q)
  OBVIOUS
<1>2. \A j \in 1 .. Len(q) : q[j] \in X
  BY <1>1
<1> DEFINE p == [j \in 1 .. Len(q) - 1 |-> q[j]]
<1>3. p \in Seq(X)
  <2>1. Len(q) - 1 \in Nat
    BY <1>1
  <2>2. p \in [1 .. Len(q) - 1 -> X]
    BY <1>1, <1>2
  <2> QED
    BY <2>1, <2>2
<1>4. SubSeq(q, 1, Len(q) - 1) = p
  BY <1>1, <1>2
<1> QED
  BY <1>1, <1>3, <1>4

\* The stack of loops.
LEMMA FramesEnter ==
  ASSUME NEW fs \in Frames, NEW a \in Nat
  PROVE  LET gs == Append(fs, [ht |-> a, i |-> 1]) IN
         /\ gs \in Frames /\ DOMAIN fs = 1 .. Len(fs) /\ Len(fs) \in Nat
         /\ DOMAIN gs = 1 .. Len(fs) + 1 /\ gs[Len(fs) + 1] = [ht |-> a, i |-> 1]
         /\ \A j \in 1 .. Len(fs) : gs[j] = fs[j]
<1>1. [ht |-> a, i |-> 1] \in [ht : Nat, i : Nat]
  OBVIOUS
<1> QED
  BY <1>1 DEF Frames

LEMMA FramesLeave ==
  ASSUME NEW fs \in Frames, fs # <<>>
  PROVE  LET gs == SubSeq(fs, 1, Len(fs) - 1) IN
         /\ gs \in Frames /\ DOMAIN fs = 1 .. Len(fs) /\ Len(fs) \in Nat /\ Len(fs) > 0
         /\ DOMAIN gs = 1 .. Len(fs) - 1
         /\ \A j \in 1 .. Len(fs) - 1 : gs[j] = fs[j]
  BY SeqElements, SeqFront DEF Frames

LEMMA FramesAdvance ==
  ASSUME NEW fs \in Frames, NEW l \in DOMAIN fs
  PROVE  LET gs == [fs EXCEPT ![l].i = @ + 1] IN
         /\ gs \in Frames /\ DOMAIN gs = DOMAIN fs /\ fs[l].ht \in Nat /\ fs[l].i \in Nat
         /\ gs[l] = [ht |-> fs[l].ht, i |-> fs[l].i + 1]
         /\ \A j \in DOMAIN fs : j # l => gs[j] = fs[j]
<1>1. /\ DOMAIN fs = 1 .. Len(fs) /\ Len(fs) \in Nat
      /\ \A j \in DOMAIN fs : fs[j] \in [ht : Nat, i : Nat]
  BY SeqElements DEF Frames
<1> DEFINE gs == [fs EXCEPT ![l].i = @ + 1]
<1>2. DOMAIN gs = DOMAIN fs
  OBVIOUS
<1>3. gs[l] = [ht |-> fs[l].ht, i |-> fs[l].i + 1]
  BY <1>1
<1>4. \A j \in DOMAIN fs : j # l => gs[j] = fs[j]
  OBVIOUS
<1>5. \A j \in 1 .. Len(fs) : gs[j] \in [ht : Nat, i : Nat]
  <2> SUFFICES ASSUME NEW j \in 1 .. Len(fs) PROVE gs[j] \in [ht : Nat, i : Nat]
    OBVIOUS
  <2>1. CASE j = l
    BY <1>1, <1>3, <2>1
  <2>2. CASE j # l
    BY <1>1, <1>4, <2>2
  <2> QED
    BY <2>1, <2>2
<1>6. gs \in [1 .. Len(fs) -> [ht : Nat, i : Nat]]
  BY <1>1, <1>5
<1>7. gs \in Frames
  BY <1>1, <1>6 DEF Frames
<1> QED
  BY <1>1, <1>2, <1>3, <1>4, <1>7

\* z is part of the value.
Reached(g, z) ==
  z \in Node => \A C \in SUBSET Node : entry.val \in C /\ Closed(g, C) => z \in C

\* The context after calc_ht or a string was counted.
LEMMA CalcNode ==
  ASSUME InputOK(mem), NEW c, Calculating(mem, c), NEW z \in Node, Reached(mem, z),
         z \notin shm, z \notin Visited(c), mem[z].kind \in {"string", "array"},
         NEW d, d = IF mem[z].kind = "string" THEN AddSize(Memoize(c, z), StrSize)
                                             ELSE calc_ht(Memoize(c, z), z)
  PROVE  /\ Calculating(mem, d) /\ Visited(d) = Visited(c) \cup {z}
         /\ d.frames = c.frames \/ d.frames = Append(c.frames, [ht |-> z, i |-> 1])
<1> DEFINE e == Memoize(c, z)
           n == Len(mem[z].buckets)
<1>1. c \in Contexts /\ c.memo /\ HashKey(z) \in HashKeys
  BY NodeRange DEF Calculating, Measured
<1>2. e = With(c, c.size, c.counted \cup {HashKey(z)}, c.cur, c.allocated, c.frames)
  BY <1>1, MemoizeIs
<1>3. e \in Contexts
  BY <1>1, <1>2, Fields, WithType
<1>4. mem[z] \in Cells /\ (mem[z].kind # "array" => mem[z].buckets = <<>>) /\ z \in Nat
  BY NodeRange DEF InputOK, Graph
<1>5. mem[z].buckets \in Seq(Buckets) /\ n \in Nat
  BY <1>4 DEF Cells
<1>6. \A k \in Nat :
        /\ AddSize(e, k) = With(c, c.size + k, c.counted \cup {HashKey(z)}, c.cur, c.allocated, c.frames)
        /\ AddSize(e, k) \in Contexts
  <2> SUFFICES ASSUME NEW k \in Nat
               PROVE /\ AddSize(e, k) = With(c, c.size + k, c.counted \cup {HashKey(z)}, c.cur, c.allocated, c.frames)
                     /\ AddSize(e, k) \in Contexts
    OBVIOUS
  <2>1. AddSize(e, k) = With(e, e.size + k, e.counted, e.cur, e.allocated, e.frames)
    BY <1>3, AddSizeIs
  <2>2. AddSize(e, k) = With(c, c.size + k, c.counted \cup {HashKey(z)}, c.cur, c.allocated, c.frames)
    BY <1>2, <2>1 DEF With
  <2>3. c.size + k \in Nat /\ c.counted \cup {HashKey(z)} \in SUBSET HashKeys
    BY <1>1, Fields
  <2> QED
    BY <1>1, <2>2, <2>3, Fields, WithType
<1> HIDE DEF e
<1>7. Belongs(mem, z)
  BY DEF Reached, Belongs
<1>8. ASSUME NEW k, k \in Nat, k = SizeOf(mem)[z], d = AddSize(e, k), mem[z].buckets = <<>>
      PROVE Counts(mem, c, d, z) /\ d.frames = c.frames
  <2>1. d \in Contexts /\ d = With(c, c.size + k, c.counted \cup {HashKey(z)}, c.cur, c.allocated, c.frames)
    BY <1>6, <1>8
  <2> QED
    BY <1>8, <2>1 DEF Counts, With
<1>9. CASE mem[z].kind = "string"
  <2>1. SizeOf(mem)[z] = StrSize /\ StrSize \in Nat
    BY <1>9 DEF SizeOf, StrSize
  <2>2. Counts(mem, c, d, z) /\ d.frames = c.frames
    BY <1>4, <1>8, <1>9, <2>1 DEF e
  <2> QED
    BY <1>7, <2>2, CountsKeeps
<1>10. CASE mem[z].kind = "array" /\ n = 0
  <2>1. SizeOf(mem)[z] = HtSize /\ HtSize \in Nat /\ mem[z].buckets = <<>>
    BY <1>5, <1>10 DEF SizeOf, HtSize, HtUsedSize
  <2>2. d = AddSize(e, HtSize)
    BY <1>10 DEF calc_ht, e
  <2>3. Counts(mem, c, d, z) /\ d.frames = c.frames
    BY <1>8, <2>1, <2>2
  <2> QED
    BY <1>7, <2>3, CountsKeeps
<1>11. CASE mem[z].kind = "array" /\ n # 0
  <2> DEFINE k == HtSize + HtUsedSize(n)
             b == AddSize(e, k)
  <2>1. SizeOf(mem)[z] = k /\ k \in Nat
    BY <1>5, <1>11 DEF SizeOf, HtSize, HtUsedSize
  <2>2. d = Enter(b, z)
    BY <1>11 DEF calc_ht, e
  <2>3. b \in Contexts /\ b = With(c, c.size + k, c.counted \cup {HashKey(z)}, c.cur, c.allocated, c.frames)
    BY <1>6, <2>1
  <2> HIDE DEF k, b
  <2>4. d = With(b, b.size, b.counted, b.cur, b.allocated, Append(b.frames, [ht |-> z, i |-> 1]))
    BY <2>2, <2>3, EnterIs
  <2>5. Append(b.frames, [ht |-> z, i |-> 1]) \in Frames
    BY <1>4, <2>3, Fields, FramesEnter
  <2>6. d \in Contexts
    BY <2>3, <2>4, <2>5, Fields, WithType
  <2>7. d = With(c, c.size + k, c.counted \cup {HashKey(z)}, c.cur, c.allocated,
                 Append(c.frames, [ht |-> z, i |-> 1]))
    BY <2>3, <2>4 DEF With
  <2>8. Counts(mem, c, d, z) /\ d.frames = Append(c.frames, [ht |-> z, i |-> 1])
    BY <1>11, <2>1, <2>6, <2>7 DEF Counts, With
  <2> QED
    BY <1>7, <2>8, CountsKeeps
<1> QED
  BY <1>9, <1>10, <1>11
\* What a failure leaves of a context.
LEMMA FailIs ==
  ASSUME NEW c \in Contexts
  PROVE  /\ Fail(c) \in Contexts /\ ~Fail(c).ok /\ Fail(c).use_serialization = c.use_serialization
         /\ Fail(c).frames = c.frames /\ Fail(c).unmemoized = c.unmemoized
  BY DEF Fail, Contexts

LEMMA FallBackIs ==
  ASSUME NEW c \in Contexts
  PROVE  /\ FallBack(c) \in Contexts /\ ~FallBack(c).ok /\ FallBack(c).use_serialization
         /\ FallBack(c).frames = c.frames /\ FallBack(c).unmemoized = c.unmemoized
<1> DEFINE d == [c EXCEPT !.use_serialization = TRUE]
<1>1. /\ d \in Contexts /\ d.use_serialization
      /\ d.frames = c.frames /\ d.unmemoized = c.unmemoized
  BY DEF Contexts
<1>2. FallBack(c) = Fail(d)
  BY DEF FallBack
<1> HIDE DEF d
<1> QED
  BY <1>1, <1>2, FailIs

\* What one zval does to a measurement: it is counted, or the measurement fails
\* for one of the causes.
CalcResult(c, d, z) ==
  /\ d \in Contexts /\ d.unmemoized
  /\ d.frames = c.frames \/ (z \in Node /\ d.frames = Append(c.frames, [ht |-> z, i |-> 1]))
  /\ d.ok => Calculating(mem, d) /\ Met(Visited(d), z) /\ Visited(c) \subseteq Visited(d)
  /\ ~d.ok => d.use_serialization \/ (z \in Node /\ mem[z].kind = "resource")

LEMMA CalcZval ==
  ASSUME InputOK(mem), NEW c, Calculating(mem, c), NEW z \in Node \cup {Scalar}, Reached(mem, z),
         NEW works
  PROVE  CalcResult(c, calc_zval(c, z, works), z)
<1> DEFINE d == calc_zval(c, z, works)
<1>1. c \in Contexts /\ c.memo /\ ~c.use_serialization /\ c.ok /\ c.unmemoized
  BY DEF Calculating, Measured
<1>2. CASE z = Scalar
  <2>1. d = c /\ Scalar \notin Node
    BY <1>2, NodeRange DEF calc_zval, IsNode, Scalar
  <2> QED
    BY <1>1, <1>2, <2>1 DEF CalcResult, Met
<1>3. ASSUME z \in Node PROVE CalcResult(c, d, z)
  <2>1. IsNode(z) /\ (InSma(z) <=> z \in shm) /\ (Known(c, z) <=> z \in Visited(c))
    BY <1>1, <1>3, NodeRange, PersistAssumption DEF IsNode, InSma, Known, Visited
  <2>2. CASE z \in shm \/ z \in Visited(c)
    <3>1. d = c
      BY <1>1, <2>1, <2>2 DEF calc_zval
    <3> QED
      BY <1>1, <2>2, <3>1 DEF CalcResult, Met
  <2>3. CASE z \notin shm /\ z \notin Visited(c)
    <3> DEFINE e == Memoize(c, z)
    <3>1. e = With(c, c.size, c.counted \cup {HashKey(z)}, c.cur, c.allocated, c.frames)
      BY <1>1, MemoizeIs
    <3>2. e \in Contexts
      BY <1>1, <1>3, <3>1, NodeRange, Fields, WithType
    <3>3. e.frames = c.frames /\ e.unmemoized
      BY <1>1, <3>1 DEF With
    <3>4. d = CASE mem[z].kind = "string" -> AddSize(e, StrSize)
                [] mem[z].kind = "array"  -> calc_ht(e, z)
                [] mem[z].kind \in {"reference", "object"} -> FallBack(e)
                [] mem[z].kind = "resource" -> Fail(e)
      BY <1>1, <2>1, <2>3 DEF calc_zval
    <3> HIDE DEF d, e
    <3>5. CASE mem[z].kind \in {"string", "array"}
      <4>1. d = IF mem[z].kind = "string" THEN AddSize(e, StrSize) ELSE calc_ht(e, z)
        BY <3>4, <3>5
      <4>2. /\ Calculating(mem, d) /\ Visited(d) = Visited(c) \cup {z}
            /\ d.frames = c.frames \/ d.frames = Append(c.frames, [ht |-> z, i |-> 1])
        BY <1>3, <2>3, <3>5, <4>1, CalcNode DEF e
      <4>3. d \in Contexts /\ d.unmemoized /\ d.ok
        BY <4>2 DEF Calculating, Measured
      <4> QED
        BY <1>3, <4>2, <4>3 DEF CalcResult, Met
    <3>6. CASE mem[z].kind \in {"reference", "object"}
      <4>1. d = FallBack(e)
        BY <3>4, <3>6
      <4> QED
        BY <3>2, <3>3, <4>1, FallBackIs DEF CalcResult
    <3>7. CASE mem[z].kind = "resource"
      <4>1. d = Fail(e)
        BY <3>4, <3>7
      <4> QED
        BY <1>3, <3>2, <3>3, <3>7, <4>1, FailIs DEF CalcResult
    <3>8. mem[z].kind \in Kinds
      BY <1>3 DEF InputOK, Graph, Cells
    <3> QED
      BY <3>5, <3>6, <3>7, <3>8 DEF Kinds, d
  <2> QED
    BY <2>2, <2>3
<1> QED
  BY <1>2, <1>3

\* A loop goes on when its bucket is done.
LEMMA CalcAdvance ==
  ASSUME InputOK(mem), NEW c, Calculating(mem, c), NEW l \in DOMAIN c.frames,
         c.frames[l].i \in DOMAIN mem[c.frames[l].ht].buckets =>
           BothMet(Visited(c), mem[c.frames[l].ht].buckets[c.frames[l].i])
  PROVE  Calculating(mem, Advance(c, l)) /\ Visited(Advance(c, l)) = Visited(c)
<1> DEFINE d == Advance(c, l)
           gs == [c.frames EXCEPT ![l].i = @ + 1]
<1>1. c \in Contexts
  BY DEF Calculating, Measured
<1>2. d = With(c, c.size, c.counted, c.cur, c.allocated, gs)
  BY <1>1, AdvanceIs
<1>3. c.frames \in Frames
  BY <1>1, Fields
<1>4. /\ gs \in Frames /\ DOMAIN gs = DOMAIN c.frames
      /\ c.frames[l].i \in Nat
      /\ gs[l] = [ht |-> c.frames[l].ht, i |-> c.frames[l].i + 1]
      /\ \A j \in DOMAIN c.frames : j # l => gs[j] = c.frames[j]
  BY <1>3, FramesAdvance
<1>5. d \in Contexts
  BY <1>1, <1>2, <1>4, Fields, WithType
<1> HIDE DEF d, gs
<1>6. /\ d.frames = gs /\ d.counted = c.counted /\ d.size = c.size /\ d.cur = c.cur
      /\ d.allocated = c.allocated /\ d.memo = c.memo /\ d.ok = c.ok
      /\ d.use_serialization = c.use_serialization /\ d.unmemoized = c.unmemoized
  BY <1>2 DEF With
<1>7. Visited(d) = Visited(c)
  BY <1>6 DEF Visited
<1>8. Measured(mem, d)
  BY <1>5, <1>6, <1>7 DEF Calculating, Measured
<1>9. ASSUME NEW n \in Visited(d), NEW i \in DOMAIN mem[n].buckets
      PROVE BothMet(Visited(d), mem[n].buckets[i]) \/ Ahead(d, n, i)
  <2>1. BothMet(Visited(c), mem[n].buckets[i]) \/ Ahead(c, n, i)
    BY <1>7, <1>9 DEF Calculating
  <2>2. ASSUME Ahead(c, n, i), ~Ahead(d, n, i) PROVE n = c.frames[l].ht /\ i = c.frames[l].i
    <3>1. PICK j \in DOMAIN c.frames : c.frames[j].ht = n /\ c.frames[j].i <= i
      BY <2>2 DEF Ahead
    <3>2. j = l
      BY <1>4, <1>6, <2>2, <3>1 DEF Ahead
    <3>3. ~(c.frames[l].i + 1 <= i)
      BY <1>4, <1>6, <2>2, <3>1, <3>2 DEF Ahead
    <3>4. i \in Nat
      <4>1. mem[n].buckets \in Seq(Buckets)
        BY <1>9 DEF InputOK, Graph, Cells, Visited
      <4> QED
        BY <1>9, <4>1
    <3> QED
      BY <1>4, <3>1, <3>2, <3>3, <3>4
  <2> QED
    BY <1>7, <1>9, <2>1, <2>2
<1>10. \A j \in DOMAIN d.frames :
         d.frames[j].ht \in Visited(d) /\ mem[d.frames[j].ht].kind = "array" /\ d.frames[j].i >= 1
  BY <1>4, <1>6, <1>7 DEF Calculating
<1>11. Calculating(mem, d)
  BY <1>6, <1>8, <1>9, <1>10 DEF Calculating
<1> QED
  BY <1>7, <1>11 DEF d

\* A loop that has come to its end leaves nothing behind.
LEMMA CalcLeave ==
  ASSUME InputOK(mem), NEW c, Calculating(mem, c), c.frames # <<>>, AtEnd(c)
  PROVE  Calculating(mem, Leave(c)) /\ Visited(Leave(c)) = Visited(c)
<1> DEFINE d == Leave(c)
           gs == SubSeq(c.frames, 1, Len(c.frames) - 1)
<1>1. c \in Contexts /\ c.frames \in Frames
  BY Fields DEF Calculating, Measured
<1>2. d = With(c, c.size, c.counted, c.cur, c.allocated, gs)
  BY <1>1, LeaveIs
<1>3. /\ gs \in Frames /\ Len(c.frames) \in Nat /\ Len(c.frames) > 0
      /\ DOMAIN c.frames = 1 .. Len(c.frames) /\ DOMAIN gs = 1 .. Len(c.frames) - 1
      /\ \A j \in 1 .. Len(c.frames) - 1 : gs[j] = c.frames[j]
  BY <1>1, FramesLeave
<1>5. d \in Contexts
  BY <1>1, <1>2, <1>3, Fields, WithType
<1> HIDE DEF d, gs
<1>6. /\ d.frames = gs /\ d.counted = c.counted /\ d.size = c.size /\ d.cur = c.cur
      /\ d.allocated = c.allocated /\ d.memo = c.memo /\ d.ok = c.ok
      /\ d.use_serialization = c.use_serialization /\ d.unmemoized = c.unmemoized
  BY <1>2 DEF With
<1>7. Visited(d) = Visited(c)
  BY <1>6 DEF Visited
<1>8. Measured(mem, d)
  BY <1>5, <1>6, <1>7 DEF Calculating, Measured
<1>9. ASSUME NEW n \in Visited(d), NEW i \in DOMAIN mem[n].buckets
      PROVE BothMet(Visited(d), mem[n].buckets[i]) \/ Ahead(d, n, i)
  <2>1. BothMet(Visited(c), mem[n].buckets[i]) \/ Ahead(c, n, i)
    BY <1>7, <1>9 DEF Calculating
  <2>2. mem[n].buckets \in Seq(Buckets)
    BY <1>9 DEF InputOK, Graph, Cells, Visited
  <2>3. i \in Nat /\ i <= Len(mem[n].buckets) /\ Len(mem[n].buckets) \in Nat
    BY <1>9, <2>2
  <2>4. ASSUME NEW j \in DOMAIN c.frames, c.frames[j].ht = n, c.frames[j].i <= i PROVE Ahead(d, n, i)
    <3>1. c.frames[j].i \in Nat
      BY <1>1, FramesAdvance
    <3>2. j # Len(c.frames)
      BY <2>3, <2>4, <3>1 DEF AtEnd, Top
    <3>3. j \in 1 .. Len(c.frames) - 1
      BY <1>3, <3>2
    <3> QED
      BY <1>3, <1>6, <2>4, <3>3 DEF Ahead
  <2> QED
    BY <1>7, <2>1, <2>4 DEF Ahead
<1>10. \A j \in DOMAIN d.frames :
         d.frames[j].ht \in Visited(d) /\ mem[d.frames[j].ht].kind = "array" /\ d.frames[j].i >= 1
  BY <1>3, <1>6, <1>7 DEF Calculating
<1>11. Calculating(mem, d)
  BY <1>6, <1>8, <1>9, <1>10 DEF Calculating
<1> QED
  BY <1>7, <1>11 DEF d
\* A bucket of the innermost loop: its key and value are counted, or measuring
\* fails, for a cause.
Resource == \E n \in Reach(mem, entry.val) : mem[n].kind = "resource"

BucketResult(c, d) ==
  /\ d \in Contexts /\ d.unmemoized
  /\ d.ok => Calculating(mem, d) /\ Visited(c) \subseteq Visited(d)
  /\ ~d.ok => d.use_serialization \/ Resource

LEMMA CalcBucketStep ==
  ASSUME InputOK(mem), NEW c, Calculating(mem, c), c.frames # <<>>, ~AtEnd(c), NEW works,
         NEW b, b = mem[c.frames[Top(c)].ht].buckets[c.frames[Top(c)].i]
  PROVE  BucketResult(c, Advance(calc_bucket(c, b, works), Top(c)))
<1> DEFINE d == Advance(calc_bucket(c, b, works), Top(c))
           l == Top(c)
           f == c.frames[l]
           e == calc_bucket(c, b, works)
<1> SUFFICES /\ d \in Contexts /\ d.unmemoized
             /\ d.ok => Calculating(mem, d) /\ Visited(c) \subseteq Visited(d)
             /\ ~d.ok => d.use_serialization \/ Resource
  BY DEF BucketResult
<1> HIDE DEF d
<1>1. c \in Contexts /\ c.frames \in Frames /\ c.unmemoized /\ c.ok
  BY Fields DEF Calculating, Measured
<1>2. l \in DOMAIN c.frames /\ l \in Nat /\ DOMAIN c.frames = 1 .. l
  BY <1>1, FramesLeave DEF Top
<1>3. f.ht \in Visited(c) /\ mem[f.ht].kind = "array" /\ f.i >= 1 /\ f.i \in Nat /\ f.ht \in Node
  BY <1>1, <1>2, FramesAdvance DEF Calculating, Visited
<1>4. mem[f.ht].buckets \in Seq(Buckets)
  BY <1>3 DEF InputOK, Graph, Cells
<1>5. f.i \in DOMAIN mem[f.ht].buckets
  BY <1>3, <1>4 DEF AtEnd
<1>6. \/ b.val = Undef
      \/ /\ b.val \in Node \cup {Scalar, Indirect}
         /\ b.key = NoKey \/ (b.key \in Node /\ mem[b.key].kind = "string")
  BY <1>3, <1>5 DEF InputOK, Graph
<1>7. f.ht # entry.key
  BY <1>3 DEF InputOK
<1>8. b.val = Undef \/ (Reached(mem, b.key) /\ Reached(mem, b.val))
  <2> SUFFICES ASSUME b.val # Undef, NEW C \in SUBSET Node, entry.val \in C, Closed(mem, C)
               PROVE {b.key, b.val} \cap Node \subseteq C
    BY DEF Reached
  <2>1. f.ht \in C
    BY <1>3, <1>7 DEF Calculating, Measured
  <2> QED
    BY <1>5, <2>1 DEF Closed
<1>9. ASSUME NEW x \in Contexts, x.frames = c.frames \/ \E z \in Node : x.frames = Append(c.frames, [ht |-> z, i |-> 1])
      PROVE /\ l \in DOMAIN x.frames /\ x.frames[l] = f
            /\ Advance(x, l) \in Contexts /\ Advance(x, l).ok = x.ok
            /\ Advance(x, l).use_serialization = x.use_serialization /\ Advance(x, l).unmemoized = x.unmemoized
  <2>1. l \in DOMAIN x.frames /\ x.frames[l] = f
    <3>1. CASE x.frames = c.frames
      BY <1>2, <3>1
    <3>2. ASSUME NEW z \in Node, x.frames = Append(c.frames, [ht |-> z, i |-> 1])
          PROVE l \in DOMAIN x.frames /\ x.frames[l] = f
      <4>1. z \in Nat
        BY NodeRange
      <4>2. /\ DOMAIN c.frames = 1 .. Len(c.frames) /\ Len(c.frames) \in Nat
            /\ DOMAIN x.frames = 1 .. Len(c.frames) + 1
            /\ \A j \in 1 .. Len(c.frames) : x.frames[j] = c.frames[j]
        BY <1>1, <3>2, <4>1, FramesEnter
      <4> QED
        BY <1>2, <4>2
    <3> QED
      BY <1>9, <3>1, <3>2
  <2>2. Advance(x, l) = With(x, x.size, x.counted, x.cur, x.allocated, [x.frames EXCEPT ![l].i = @ + 1])
    BY AdvanceIs
  <2>3. [x.frames EXCEPT ![l].i = @ + 1] \in Frames
    BY <2>1, Fields, FramesAdvance
  <2>4. Advance(x, l) \in Contexts
    BY <2>2, <2>3, Fields, WithType
  <2> HIDE DEF l
  <2> QED
    BY <2>1, <2>2, <2>4 DEF With
<1>10. CASE b.val = Undef
  <2>1. e = c
    BY <1>10 DEF calc_bucket, Undef, Indirect
  <2>2. Calculating(mem, d) /\ Visited(d) = Visited(c)
    BY <1>2, <1>10, <2>1, CalcAdvance DEF BothMet, d
  <2> QED
    BY <2>2 DEF Calculating, Measured
<1>11. CASE b.val = Indirect
  <2>1. e = FallBack(c)
    BY <1>11 DEF calc_bucket, Undef, Indirect
  <2>2. e \in Contexts /\ ~e.ok /\ e.use_serialization /\ e.unmemoized /\ e.frames = c.frames
    BY <1>1, <2>1, FallBackIs
  <2> HIDE DEF e
  <2>3. d = Advance(e, l)
    BY DEF d, e
  <2> QED
    BY <1>9, <2>2, <2>3
<1>12. CASE b.val \in Node \cup {Scalar}
  <2> DEFINE k == IF b.key = NoKey THEN c ELSE calc_str(c, b.key)
  <2>1. Undef \notin Node /\ Indirect \notin Node /\ Scalar # Undef /\ Scalar # Indirect /\ NoKey \notin Node
    BY NodeRange DEF Undef, Indirect, Scalar, NoKey
  <2>2. e = calc_zval(k, b.val, works)
    BY <1>12, <2>1 DEF calc_bucket
  <2>3. /\ Calculating(mem, k) /\ Met(Visited(k), b.key)
        /\ Visited(c) \subseteq Visited(k) /\ k.frames = c.frames
    <3>1. CASE b.key = NoKey
      BY <2>1, <3>1 DEF Met
    <3>2. CASE b.key # NoKey
      <4>1. b.key \in Node /\ mem[b.key].kind = "string" /\ Belongs(mem, b.key)
        BY <1>6, <1>8, <1>12, <2>1, <3>2 DEF Reached, Belongs
      <4>2. k = calc_str(c, b.key)
        BY <3>2
      <4> QED
        BY <4>1, <4>2, CalcStr
    <3> QED
      BY <3>1, <3>2
  <2>4. Reached(mem, b.val)
    BY <1>8, <1>12, <2>1
  <2> HIDE DEF k, e
  <2>5. CalcResult(k, e, b.val)
    BY <1>12, <2>2, <2>3, <2>4, CalcZval
  <2>6. /\ e \in Contexts /\ e.unmemoized
        /\ e.frames = c.frames \/ \E z \in Node : e.frames = Append(c.frames, [ht |-> z, i |-> 1])
    BY <2>3, <2>5 DEF CalcResult
  <2>7. d = Advance(e, l)
    BY DEF d, e
  <2>8. ASSUME e.ok PROVE Calculating(mem, d) /\ Visited(c) \subseteq Visited(d)
    <3>1. /\ Calculating(mem, e) /\ Met(Visited(e), b.val) /\ Visited(k) \subseteq Visited(e)
      BY <2>5, <2>8 DEF CalcResult
    <3>2. BothMet(Visited(e), b)
      BY <1>12, <2>1, <2>3, <3>1 DEF BothMet, Met
    <3>3. l \in DOMAIN e.frames /\ e.frames[l] = f
      BY <1>9, <2>6
    <3> HIDE DEF l
    <3> QED
      BY <2>3, <2>7, <3>1, <3>2, <3>3, CalcAdvance DEF l
  <2>9. ASSUME ~e.ok PROVE e.use_serialization \/ Resource
    <3>1. e.use_serialization \/ (b.val \in Node /\ mem[b.val].kind = "resource")
      BY <2>5, <2>9 DEF CalcResult
    <3> QED
      BY <2>4, <3>1 DEF Resource, Reach, Reached
  <2> QED
    BY <1>9, <2>6, <2>7, <2>8, <2>9
<1> QED
  BY <1>6, <1>10, <1>11, <1>12

\* The measurement begins with the entry, its key and its value.
LEMMA CalcStart ==
  ASSUME InputOK(mem), NEW works, NEW d, d = persist_calc(Context(TRUE, FALSE), works)
  PROVE  /\ d \in Contexts /\ d.unmemoized
         /\ d.ok => Calculating(mem, d) /\ EntryMet(d)
         /\ ~d.ok => d.use_serialization \/ Resource
<1> DEFINE a == Context(TRUE, FALSE)
           e == AddSize(a, EntrySize)
           k == calc_str(e, entry.key)
<1>1. a \in Contexts
  BY DEF Context, Contexts, Frames, Scalar
<1>2. /\ a.memo /\ ~a.use_serialization /\ a.ok /\ a.unmemoized /\ a.counted = {} /\ a.size = 0
      /\ a.cur = 0 /\ a.allocated = [h \in HashKeys |-> Scalar] /\ a.frames = <<>>
  BY DEF Context
<1> HIDE DEF a
<1>3. e \in Contexts /\ e = With(a, a.size + EntrySize, a.counted, a.cur, a.allocated, a.frames)
  <2>1. a.size + EntrySize \in Nat
    BY <1>2 DEF EntrySize
  <2> QED
    BY <1>1, <2>1, AddSizeIs, Fields, WithType
<1>4. /\ e.memo /\ ~e.use_serialization /\ e.ok /\ e.unmemoized /\ e.counted = {} /\ e.size = EntrySize
      /\ e.cur = 0 /\ e.allocated = [h \in HashKeys |-> Scalar] /\ e.frames = <<>>
  BY <1>2, <1>3 DEF With, EntrySize
<1> HIDE DEF e
<1>5. Visited(e) = {}
  BY <1>4 DEF Visited
<1>6. Measured(mem, e)
  <2>1. Total(SizeOf(mem), Visited(e)) = 0
    BY <1>5, TotalEmpty
  <2> QED
    BY <1>3, <1>4, <1>5, <2>1 DEF Measured, EntrySize
<1>7. Calculating(mem, e)
  BY <1>4, <1>5, <1>6 DEF Calculating
<1>8. Calculating(mem, k) /\ Met(Visited(k), entry.key)
  BY <1>7, CalcStr DEF InputOK, Belongs
<1>9. Reached(mem, entry.val) /\ entry.val \in Node \cup {Scalar}
  BY DEF Reached, InputOK
<1> HIDE DEF k
<1>10. CalcResult(k, d, entry.val)
  <2>1. d = calc_zval(k, entry.val, works)
    BY DEF persist_calc, k, e, a
  <2> QED
    BY <1>8, <1>9, <2>1, CalcZval
<1>11. entry.val \in Node /\ mem[entry.val].kind = "resource" => Resource
  BY <1>9 DEF Resource, Reach, Reached
<1> QED
  BY <1>8, <1>10, <1>11 DEF CalcResult, EntryMet, Met

-----------------------------------------------------------------------------
(* Copying.                                                                  *)

\* Nodes lie before the block, copies in it.
LEMMA InSmaNode ==
  ASSUME NEW n \in Node
  PROVE  InSma(n) <=> n \in shm
  BY NodeRange, PersistAssumption DEF InSma

\* d and p are c and m with a copy of node n, whose loop is entered if it has one.
Gets(g, c, m, d, p, n) ==
  /\ d \in Contexts
  /\ d.memo = c.memo /\ d.use_serialization = c.use_serialization
  /\ d.ok = c.ok /\ d.unmemoized = c.unmemoized
  /\ d.counted = c.counted /\ d.size = c.size
  /\ d.cur = c.cur + SizeOf(g)[n]
  /\ d.allocated = [c.allocated EXCEPT ![HashKey(n)] = Base + c.cur]
  /\ DOMAIN p = DOMAIN m \cup {Base + c.cur}
  /\ p[Base + c.cur] = g[n]
  /\ \A x \in DOMAIN m : x # Base + c.cur => p[x] = m[x]
  /\ \/ d.frames = c.frames /\ g[n].buckets = <<>>
     \/ d.frames = Append(c.frames, [ht |-> Base + c.cur, i |-> 1])

\* What is copied stays copied, where it is.
Keeps(c, d) ==
  /\ Copied(c) \subseteq Copied(d)
  /\ \A x \in Copied(c) : Place(d, x) = Place(c, x)

LEMMA KeepsMet ==
  ASSUME NEW c, NEW d, Keeps(c, d), NEW z, Met(Copied(c), z)
  PROVE  Met(Copied(d), z) /\ Image(d, z) = Image(c, z)
  BY DEF Keeps, Met, Image

LEMMA KeepsBucket ==
  ASSUME NEW c, NEW d, Keeps(c, d), NEW b, NEW e, BucketCopied(c, b, e)
  PROVE  BucketCopied(d, b, e)
<1>1. CASE b.val = Undef /\ e = b
  BY <1>1 DEF BucketCopied
<1>2. CASE /\ b.val # Undef /\ Met(Copied(c), b.key) /\ Met(Copied(c), b.val)
           /\ e = [key |-> Image(c, b.key), val |-> Image(c, b.val)]
  BY <1>2, KeepsMet DEF BucketCopied
<1> QED
  BY <1>1, <1>2 DEF BucketCopied

\* Where the copies end.
LEMMA CurIs ==
  ASSUME NEW g, InputOK(g), NEW c, NEW m, Copying(g, c, m)
  PROVE  /\ c \in Contexts /\ c.cur \in Nat /\ c.cur >= 1
         /\ Copied(c) \subseteq Node /\ IsFiniteSet(Copied(c))
         /\ Total(SizeOf(g), Copied(c)) \in Nat
         /\ Base + c.cur \in Nat /\ Base + c.cur \notin DOMAIN m
         /\ \A n \in Copied(c) : Place(c, n) \in Nat
<1>1. c \in Contexts /\ Copied(c) \subseteq Node
  BY DEF Copying, Measured, Copied
<1>2. IsFiniteSet(Copied(c))
  BY <1>1, NodeFinite
<1>3. Total(SizeOf(g), Copied(c)) \in Nat
  BY <1>1, <1>2, SizePositive, UnitsFinite DEF InputOK
<1>4. c.cur \in Nat /\ c.cur >= 1
  BY <1>3 DEF Copying, Placed, EntrySize
<1>5. Base \in Nat
  BY PersistAssumption
<1>6. \A n \in Copied(c) : Place(c, n) \in Nat
  BY <1>1, Fields, NodeRange DEF Place
<1>7. Base + c.cur \notin DOMAIN m
  <2>1. DOMAIN m = Node \cup {Place(c, n) : n \in Copied(c)}
    BY DEF Copying, Placed
  <2>2. \A n \in Copied(c) : Place(c, n) < Base + c.cur
    BY DEF Copying, Placed
  <2>3. Base + c.cur \notin Node
    BY <1>4, <1>5, NodeRange
  <2> QED
    BY <1>4, <1>5, <1>6, <2>1, <2>2, <2>3
<1> QED
  BY <1>1, <1>2, <1>3, <1>4, <1>5, <1>6, <1>7

LEMMA CopyKeeps ==
  ASSUME NEW g, InputOK(g), NEW c, NEW m, Copying(g, c, m), Old(m) = g, NEW d, NEW p,
         NEW n \in Visited(c), n \notin Copied(c), Gets(g, c, m, d, p, n)
  PROVE  /\ Copying(g, d, p) /\ Old(p) = g /\ Keeps(c, d)
         /\ Copied(d) = Copied(c) \cup {n} /\ Place(d, n) = Base + c.cur
<1> DEFINE a == Base + c.cur
<1>1. /\ c \in Contexts /\ c.cur \in Nat /\ c.cur >= 1
      /\ Copied(c) \subseteq Node /\ IsFiniteSet(Copied(c))
      /\ Total(SizeOf(g), Copied(c)) \in Nat
      /\ a \in Nat /\ a \notin DOMAIN m /\ \A x \in Copied(c) : Place(c, x) \in Nat
  BY CurIs
<1>2. n \in Node /\ HashKey(n) \in HashKeys /\ Base \in Nat
  BY NodeRange, PersistAssumption DEF Visited
<1>3. \A x \in Node : Place(d, x) = IF x = n THEN a ELSE Place(c, x)
  <2>1. c.allocated \in [HashKeys -> Nat]
    BY <1>1, Fields
  <2>2. \A x \in Node : HashKey(x) \in HashKeys /\ (HashKey(x) = HashKey(n) <=> x = n)
    BY <1>2, NodeRange, HashInjective
  <2> HIDE DEF a
  <2>3. d.allocated = [c.allocated EXCEPT ![HashKey(n)] = a]
    BY DEF Gets, a
  <2> QED
    BY <1>2, <2>1, <2>2, <2>3 DEF Place
<1>4. Copied(d) = Copied(c) \cup {n} /\ Place(d, n) = a
  <2>1. a # Scalar
    BY <1>1, <1>2 DEF Scalar
  <2> QED
    BY <1>2, <1>3, <2>1 DEF Copied
<1>5. Keeps(c, d)
  BY <1>1, <1>3, <1>4 DEF Keeps
<1>6. Visited(d) = Visited(c)
  BY DEF Visited, Gets
<1>7. /\ SizeOf(g)[n] \in Nat /\ SizeOf(g)[n] > 0
      /\ Total(SizeOf(g), Copied(d)) = Total(SizeOf(g), Copied(c)) + SizeOf(g)[n]
  <2>1. Graph(g)
    BY DEF InputOK
  <2>2. \A x \in Node : SizeOf(g)[x] \in Nat /\ SizeOf(g)[x] > 0
    BY <2>1, SizePositive
  <2> QED
    BY <1>1, <1>2, <1>4, <2>2, TotalAdd
<1>8. Node \subseteq DOMAIN m /\ DOMAIN m = Node \cup {Place(c, x) : x \in Copied(c)}
  BY DEF Copying, Placed
<1>9. \A x \in DOMAIN m : p[x] = m[x]
  BY <1>1 DEF Gets
<1>10. Old(p) = g
  BY <1>8, <1>9 DEF Old
<1>11. Measured(g, d) /\ Complete(g, d)
  BY <1>6 DEF Copying, Measured, Complete, Gets
<1>12. Placed(g, d, p)
  <2>1. Copied(d) \subseteq Visited(d)
    BY <1>4, <1>6 DEF Copying, Placed
  <2>2. d.cur = EntrySize + Total(SizeOf(g), Copied(d)) /\ d.cur = c.cur + SizeOf(g)[n]
    BY <1>1, <1>7 DEF Copying, Placed, Gets, EntrySize
  <2>3. DOMAIN p = Node \cup {Place(d, x) : x \in Copied(d)}
    <3>1. {Place(d, x) : x \in Copied(d)} = {Place(c, x) : x \in Copied(c)} \cup {a}
      BY <1>4, <1>5 DEF Keeps
    <3>2. DOMAIN p = DOMAIN m \cup {a}
      BY DEF Gets
    <3> QED
      BY <1>8, <3>1, <3>2
  <2>4. \A x \in Copied(c) : Base < Place(c, x) /\ Place(c, x) < a
    BY DEF Copying, Placed
  <2>5. \A x \in Copied(d) : Base < Place(d, x) /\ Place(d, x) < Base + d.cur
    <3> SUFFICES ASSUME NEW x \in Copied(d) PROVE Base < Place(d, x) /\ Place(d, x) < Base + d.cur
      OBVIOUS
    <3>1. CASE x = n
      BY <1>1, <1>2, <1>4, <1>7, <2>2, <3>1
    <3>2. CASE x \in Copied(c)
      <4>1. Place(d, x) = Place(c, x) /\ Place(c, x) \in Nat /\ Base < Place(c, x) /\ Place(c, x) < a
        BY <1>1, <1>5, <2>4, <3>2 DEF Keeps
      <4> QED
        BY <1>1, <1>2, <1>7, <2>2, <4>1
    <3> QED
      BY <1>4, <3>1, <3>2
  <2>6. \A x, y \in Copied(d) : Place(d, x) = Place(d, y) => x = y
    <3>1. \A x, y \in Copied(c) : Place(c, x) = Place(c, y) => x = y
      BY DEF Copying, Placed
    <3>2. \A x \in Copied(c) : Place(c, x) # a
      BY <1>1, <2>4
    <3> QED
      BY <1>4, <1>5, <3>1, <3>2 DEF Keeps
  <2> QED
    BY <2>1, <2>2, <2>3, <2>5, <2>6 DEF Placed
<1>13. c.frames \in Frames
  BY <1>1, Fields
<1>14. /\ \A j \in DOMAIN c.frames : j \in DOMAIN d.frames /\ d.frames[j] = c.frames[j]
       /\ \A j \in DOMAIN d.frames :
            j \in DOMAIN c.frames \/ (j = Len(c.frames) + 1 /\ d.frames[j] = [ht |-> a, i |-> 1])
       /\ g[n].buckets = <<>> \/ \E j \in DOMAIN d.frames : d.frames[j] = [ht |-> a, i |-> 1]
  <2>1. CASE d.frames = c.frames /\ g[n].buckets = <<>>
    BY <2>1
  <2>2. CASE d.frames = Append(c.frames, [ht |-> a, i |-> 1])
    <3> HIDE DEF a
    <3>1. /\ DOMAIN c.frames = 1 .. Len(c.frames) /\ Len(c.frames) \in Nat
          /\ DOMAIN d.frames = 1 .. Len(c.frames) + 1
          /\ d.frames[Len(c.frames) + 1] = [ht |-> a, i |-> 1]
          /\ \A j \in 1 .. Len(c.frames) : d.frames[j] = c.frames[j]
      BY <1>1, <1>13, <2>2, FramesEnter
    <3> QED
      BY <3>1
  <2> QED
    BY <2>1, <2>2 DEF Gets
<1>15. \A x \in Copied(c) : Place(d, x) = Place(c, x) /\ p[Place(d, x)] = m[Place(c, x)] /\ Place(c, x) # a
  <2>1. \A x \in Copied(c) : Place(d, x) = Place(c, x) /\ Place(c, x) \in DOMAIN m
    BY <1>5, <1>8 DEF Keeps
  <2> QED
    BY <1>1, <1>9, <2>1
<1>16. p[Place(d, n)] = g[n] /\ g[n] \in Cells /\ g[n].buckets \in Seq(Buckets)
  BY <1>2, <1>4 DEF Gets, InputOK, Graph, Cells
<1> HIDE DEF a
<1>17. Faithful(g, d, p)
  <2> SUFFICES ASSUME NEW x \in Copied(d)
      PROVE /\ p[Place(d, x)] \in Cells
            /\ p[Place(d, x)].kind = g[x].kind /\ p[Place(d, x)].text = g[x].text
            /\ DOMAIN p[Place(d, x)].buckets = DOMAIN g[x].buckets
            /\ \A i \in DOMAIN g[x].buckets :
                 BucketCopied(d, g[x].buckets[i], p[Place(d, x)].buckets[i]) \/ Ahead(d, Place(d, x), i)
    BY DEF Faithful
  <2>1. CASE x = n
    <3>1. ASSUME NEW i \in DOMAIN g[n].buckets PROVE Ahead(d, a, i)
      <4>1. i \in Nat /\ 1 <= i /\ g[n].buckets # <<>>
        BY <1>16, <3>1
      <4>2. PICK j \in DOMAIN d.frames : d.frames[j] = [ht |-> a, i |-> 1]
        BY <1>14, <4>1
      <4> QED
        BY <4>1, <4>2 DEF Ahead
    <3> QED
      BY <1>4, <1>16, <2>1, <3>1
  <2>2. CASE x \in Copied(c)
    <3>1. /\ m[Place(c, x)] \in Cells
          /\ m[Place(c, x)].kind = g[x].kind /\ m[Place(c, x)].text = g[x].text
          /\ DOMAIN m[Place(c, x)].buckets = DOMAIN g[x].buckets
          /\ \A i \in DOMAIN g[x].buckets :
               BucketCopied(c, g[x].buckets[i], m[Place(c, x)].buckets[i]) \/ Ahead(c, Place(c, x), i)
      BY <2>2 DEF Copying, Faithful
    <3>2. \A i : Ahead(c, Place(c, x), i) => Ahead(d, Place(c, x), i)
      BY <1>14 DEF Ahead
    <3> QED
      BY <1>5, <1>15, <2>2, <3>1, <3>2, KeepsBucket
  <2> QED
    BY <1>4, <2>1, <2>2
<1>18. Looping(g, d, p)
  <2>1. ASSUME NEW j \in DOMAIN d.frames
        PROVE \E x \in Copied(d) :
                /\ d.frames[j].ht = Place(d, x) /\ d.frames[j].i >= 1
                /\ \A i \in DOMAIN g[x].buckets :
                     i >= d.frames[j].i => p[Place(d, x)].buckets[i] = g[x].buckets[i]
    <3>1. CASE j \in DOMAIN c.frames
      <4>1. PICK x \in Copied(c) :
                /\ c.frames[j].ht = Place(c, x) /\ c.frames[j].i >= 1
                /\ \A i \in DOMAIN g[x].buckets :
                     i >= c.frames[j].i => m[Place(c, x)].buckets[i] = g[x].buckets[i]
        BY <3>1 DEF Copying, Looping
      <4>2. d.frames[j] = c.frames[j] /\ x \in Copied(d)
        BY <1>4, <1>14, <3>1
      <4> QED
        BY <1>15, <4>1, <4>2
    <3>2. CASE d.frames[j] = [ht |-> a, i |-> 1]
      BY <1>4, <1>16, <3>2
    <3> QED
      BY <1>14, <3>1, <3>2
  <2>2. ASSUME NEW j \in DOMAIN d.frames, NEW k \in DOMAIN d.frames, d.frames[j].ht = d.frames[k].ht
        PROVE j = k
    <3>1. \A l \in DOMAIN c.frames : d.frames[l].ht # a
      BY <1>14, <1>15 DEF Copying, Looping
    <3>2. \A u, v \in DOMAIN c.frames : c.frames[u].ht = c.frames[v].ht => u = v
      BY DEF Copying, Looping
    <3> QED
      BY <1>14, <2>2, <3>1, <3>2
  <2> QED
    BY <2>1, <2>2 DEF Looping
<1> QED
  BY <1>4, <1>5, <1>10, <1>11, <1>12, <1>17, <1>18 DEF Copying, a

LEMMA AddCurIs ==
  ASSUME NEW c \in Contexts, NEW k
  PROVE  [c EXCEPT !.cur = @ + k] = With(c, c.size, c.counted, c.cur + k, c.allocated, c.frames)
  BY DEF With, Contexts

\* persist_alloc and the note of where the copy is.
LEMMA AllocIs ==
  ASSUME NEW c \in Contexts, NEW m, NEW k, NEW node
  PROVE  LET r == Alloc(c, m, k, node) IN
         /\ r = [c |-> r.c, m |-> r.m, ptr |-> Base + c.cur]
         /\ DOMAIN r.m = DOMAIN m \cup {Base + c.cur} /\ r.m[Base + c.cur] = node
         /\ \A x \in DOMAIN m : x # Base + c.cur => r.m[x] = m[x]
         /\ r.c = With(c, c.size, c.counted, c.cur + k, c.allocated, c.frames)
<1> DEFINE a == Base + c.cur
           e == [c EXCEPT !.cur = @ + k]
           r == Alloc(c, m, k, node)
<1>1. r = [c |-> e, m |-> [x \in DOMAIN m \cup {a} |-> IF x = a THEN node ELSE m[x]], ptr |-> a]
  BY DEF Alloc
<1>2. e = With(c, c.size, c.counted, c.cur + k, c.allocated, c.frames)
  BY AddCurIs
<1> HIDE DEF e, a, r
<1>3. r.c = e /\ r.ptr = a
  BY <1>1
<1>4. /\ DOMAIN r.m = DOMAIN m \cup {a} /\ r.m[a] = node
      /\ \A x \in DOMAIN m : x # a => r.m[x] = m[x]
      /\ r = [c |-> r.c, m |-> r.m, ptr |-> a]
  BY <1>1
<1> QED
  BY <1>2, <1>3, <1>4 DEF a, r

LEMMA NoteIs ==
  ASSUME NEW c \in Contexts, c.memo, NEW k \in Nat, NEW z \in Node, NEW a \in Nat, NEW e,
         e = With(c, c.size, c.counted, c.cur + k, c.allocated, c.frames)
  PROVE  LET d == AddAlreadyAllocated(e, z, a) IN
         /\ d \in Contexts
         /\ d = With(c, c.size, c.counted, c.cur + k, [c.allocated EXCEPT ![HashKey(z)] = a], c.frames)
<1> DEFINE d == AddAlreadyAllocated(e, z, a)
<1>2. c.cur + k \in Nat /\ c.allocated \in [HashKeys -> Nat] /\ HashKey(z) \in HashKeys
  BY Fields, NodeRange
<1>5. e \in Contexts
  BY <1>2, Fields, WithType
<1>6. /\ e.memo /\ e.size = c.size /\ e.counted = c.counted /\ e.cur = c.cur + k
      /\ e.allocated = c.allocated /\ e.frames = c.frames
  BY DEF With
<1>8. d = With(e, e.size, e.counted, e.cur, [e.allocated EXCEPT ![HashKey(z)] = a], e.frames)
  BY <1>5, <1>6, AddAllocatedIs
<1> HIDE DEF d
<1>9. d = With(c, c.size, c.counted, c.cur + k, [c.allocated EXCEPT ![HashKey(z)] = a], c.frames)
  BY <1>6, <1>8 DEF With
<1>10. [c.allocated EXCEPT ![HashKey(z)] = a] \in [HashKeys -> Nat]
  BY <1>2
<1>11. d \in Contexts
  BY <1>2, <1>9, <1>10, Fields, WithType
<1> QED
  BY <1>9, <1>11 DEF d

\* z is copied now, or was, and r has where.
CopyResult(g, c, m, r, z) ==
  /\ r = [c |-> r.c, m |-> r.m, ptr |-> r.ptr]
  /\ Copying(g, r.c, r.m) /\ Old(r.m) = g /\ Keeps(c, r.c)
  /\ Visited(r.c) = Visited(c)
  /\ Met(Copied(r.c), z) /\ r.ptr = Image(r.c, z)
  /\ \/ r.c.frames = c.frames
     \/ z \in Node /\ g[z].kind = "array" /\ \E a \in Nat : r.c.frames = Append(c.frames, [ht |-> a, i |-> 1])

\* A node that needs a copy gets one.
LEMMA CopyNode ==
  ASSUME NEW g, InputOK(g), NEW c, NEW m, Copying(g, c, m), Old(m) = g,
         NEW z \in Visited(c), z \notin Copied(c),
         NEW r, NEW k, k = Alloc(c, m, StrSize, m[z]),
         r = IF g[z].kind = "string" THEN [k EXCEPT !.c = AddAlreadyAllocated(@, z, k.ptr)]
                                     ELSE copy_ht(c, m, z)
  PROVE  CopyResult(g, c, m, r, z)
<1> DEFINE a == Base + c.cur
           n == Len(g[z].buckets)
<1>1. /\ c \in Contexts /\ c.memo /\ a \in Nat /\ z \in Node /\ z \notin shm
      /\ g[z].kind \in {"string", "array"}
  <2>1. Measured(g, c)
    BY DEF Copying
  <2> QED
    BY <2>1, CurIs DEF Measured, Visited
<1>2. m[z] = g[z] /\ g[z] \in Cells /\ (g[z].kind # "array" => g[z].buckets = <<>>)
  BY <1>1 DEF Old, InputOK, Graph
<1>3. g[z].buckets \in Seq(Buckets) /\ n \in Nat
  BY <1>2 DEF Cells
<1>4. SUFFICES /\ Gets(g, c, m, r.c, r.m, z) /\ r.ptr = a /\ r = [c |-> r.c, m |-> r.m, ptr |-> r.ptr]
               /\ r.c.frames = c.frames \/ (g[z].kind = "array" /\ r.c.frames = Append(c.frames, [ht |-> a, i |-> 1]))
  <2>1. Gets(g, c, m, r.c, r.m, z) /\ r.ptr = a
    BY <1>4
  <2>2. /\ Copying(g, r.c, r.m) /\ Old(r.m) = g /\ Keeps(c, r.c)
        /\ Copied(r.c) = Copied(c) \cup {z} /\ Place(r.c, z) = a
    BY <2>1, CopyKeeps
  <2>3. Visited(r.c) = Visited(c)
    BY <2>1 DEF Gets, Visited
  <2>4. Met(Copied(r.c), z) /\ r.ptr = Image(r.c, z)
    BY <1>1, <2>1, <2>2 DEF Met, Image
  <2> QED
    BY <1>1, <1>4, <2>2, <2>3, <2>4 DEF CopyResult
<1>5. ASSUME NEW q \in Nat, q = SizeOf(g)[z], NEW t, t = Alloc(c, m, q, m[z]), NEW d,
             d = AddAlreadyAllocated(t.c, z, t.ptr)
      PROVE /\ t = [c |-> t.c, m |-> t.m, ptr |-> a]
            /\ DOMAIN t.m = DOMAIN m \cup {a} /\ t.m[a] = g[z]
            /\ \A x \in DOMAIN m : x # a => t.m[x] = m[x]
            /\ d \in Contexts
            /\ d = With(c, c.size, c.counted, c.cur + q, [c.allocated EXCEPT ![HashKey(z)] = a], c.frames)
  <2>1. t = Alloc(c, m, q, g[z])
    BY <1>2, <1>5
  <2>2. c \in Contexts /\ c.memo /\ z \in Node
    BY <1>1
  <2>3. /\ t = [c |-> t.c, m |-> t.m, ptr |-> Base + c.cur]
        /\ DOMAIN t.m = DOMAIN m \cup {Base + c.cur} /\ t.m[Base + c.cur] = g[z]
        /\ \A x \in DOMAIN m : x # Base + c.cur => t.m[x] = m[x]
        /\ t.c = With(c, c.size, c.counted, c.cur + q, c.allocated, c.frames)
    BY <2>1, <2>2, AllocIs
  <2> HIDE DEF a
  <2>4. t.ptr = a
    BY <2>3 DEF a
  <2>5. d = AddAlreadyAllocated(t.c, z, a)
    BY <1>5, <2>4
  <2>6. d \in Contexts /\ d = With(c, c.size, c.counted, c.cur + q, [c.allocated EXCEPT ![HashKey(z)] = a], c.frames)
    BY <1>1, <1>5, <2>2, <2>3, <2>5, NoteIs DEF a
  <2> QED
    BY <2>3, <2>6 DEF a
<1> HIDE DEF a
<1>6. ASSUME NEW q \in Nat, q = SizeOf(g)[z], NEW t, t = Alloc(c, m, q, m[z]), NEW d,
             d = AddAlreadyAllocated(t.c, z, t.ptr), r = [t EXCEPT !.c = d], n = 0
      PROVE /\ Gets(g, c, m, r.c, r.m, z) /\ r.ptr = a /\ r.c.frames = c.frames
            /\ r = [c |-> r.c, m |-> r.m, ptr |-> r.ptr]
  <2>1. /\ t = [c |-> t.c, m |-> t.m, ptr |-> a]
        /\ DOMAIN t.m = DOMAIN m \cup {a} /\ t.m[a] = g[z]
        /\ \A x \in DOMAIN m : x # a => t.m[x] = m[x]
        /\ d \in Contexts
        /\ d = With(c, c.size, c.counted, c.cur + q, [c.allocated EXCEPT ![HashKey(z)] = a], c.frames)
    BY <1>5, <1>6
  <2>2. r.c = d /\ r.m = t.m /\ r.ptr = a /\ r = [c |-> r.c, m |-> r.m, ptr |-> r.ptr]
    BY <1>6, <2>1
  <2>3. /\ d.memo = c.memo /\ d.use_serialization = c.use_serialization
        /\ d.ok = c.ok /\ d.unmemoized = c.unmemoized
        /\ d.counted = c.counted /\ d.size = c.size
        /\ d.cur = c.cur + q /\ d.allocated = [c.allocated EXCEPT ![HashKey(z)] = a]
        /\ d.frames = c.frames
    BY <2>1 DEF With
  <2>4. g[z].buckets = <<>>
    BY <1>3, <1>6
  <2> QED
    BY <1>6, <2>1, <2>2, <2>3, <2>4 DEF Gets, a
<1>7. CASE g[z].kind = "string"
  <2>1. StrSize = SizeOf(g)[z] /\ StrSize \in Nat /\ n = 0
    BY <1>1, <1>2, <1>7 DEF SizeOf, StrSize
  <2>2. r = [k EXCEPT !.c = AddAlreadyAllocated(k.c, z, k.ptr)]
    BY <1>7 DEF Alloc
  <2> QED
    BY <1>6, <2>1, <2>2
<1>8. CASE g[z].kind = "array"
  <2> DEFINE q == HtSize + HtUsedSize(n)
             t == Alloc(c, m, q, m[z])
             d == AddAlreadyAllocated(t.c, z, t.ptr)
  <2>1. q = SizeOf(g)[z] /\ q \in Nat
    BY <1>1, <1>3, <1>8 DEF SizeOf, HtSize, HtUsedSize
  <2>2. r = [t EXCEPT !.c = IF n = 0 THEN d ELSE Enter(d, t.ptr)]
    BY <1>2, <1>8 DEF copy_ht
  <2> HIDE DEF q, n
  <2>3. CASE n = 0
    BY <1>6, <2>1, <2>2, <2>3
  <2>4. CASE n # 0
    <3>1. /\ t = [c |-> t.c, m |-> t.m, ptr |-> a]
          /\ DOMAIN t.m = DOMAIN m \cup {a} /\ t.m[a] = g[z]
          /\ \A x \in DOMAIN m : x # a => t.m[x] = m[x]
          /\ d \in Contexts
          /\ d = With(c, c.size, c.counted, c.cur + q, [c.allocated EXCEPT ![HashKey(z)] = a], c.frames)
      BY <1>5, <2>1
    <3> DEFINE e == Enter(d, a)
    <3> HIDE DEF t, d
    <3>2. d.frames = c.frames
      BY <3>1 DEF With
    <3>3. e = With(d, d.size, d.counted, d.cur, d.allocated, Append(d.frames, [ht |-> a, i |-> 1]))
      BY <3>1, EnterIs
    <3>4. Append(d.frames, [ht |-> a, i |-> 1]) \in Frames
      BY <1>1, <3>1, Fields, FramesEnter DEF a
    <3>5. e \in Contexts
      BY <3>1, <3>3, <3>4, Fields, WithType
    <3>6. e = With(c, c.size, c.counted, c.cur + q, [c.allocated EXCEPT ![HashKey(z)] = a],
                   Append(c.frames, [ht |-> a, i |-> 1]))
      BY <3>1, <3>3 DEF With
    <3> HIDE DEF e
    <3>7. /\ e.memo = c.memo /\ e.use_serialization = c.use_serialization
          /\ e.ok = c.ok /\ e.unmemoized = c.unmemoized
          /\ e.counted = c.counted /\ e.size = c.size
          /\ e.cur = c.cur + q /\ e.allocated = [c.allocated EXCEPT ![HashKey(z)] = a]
          /\ e.frames = Append(c.frames, [ht |-> a, i |-> 1])
      BY <3>6 DEF With
    <3>8. r.c = e /\ r.m = t.m /\ r.ptr = a /\ r = [c |-> r.c, m |-> r.m, ptr |-> r.ptr]
      <4>1. t.ptr = a
        BY <3>1
      <4>2. r = [t EXCEPT !.c = e]
        BY <2>2, <2>4, <4>1 DEF e, d
      <4> QED
        BY <3>1, <4>2
    <3> QED
      BY <1>8, <2>1, <3>1, <3>5, <3>7, <3>8 DEF Gets, a
  <2> QED
    BY <2>3, <2>4
<1> QED
  BY <1>1, <1>7, <1>8

\* immutable_cache_persist_get_already_allocated finds what is met.
LEMMA AllocatedIs ==
  ASSUME NEW g, InputOK(g), NEW c, NEW m, Copying(g, c, m), NEW z \in Node
  PROVE  /\ GetAlreadyAllocated(c, z) = IF z \in shm THEN z ELSE Place(c, z)
         /\ GetAlreadyAllocated(c, z) # Scalar <=> Met(Copied(c), z)
         /\ Met(Copied(c), z) => GetAlreadyAllocated(c, z) = Image(c, z)
<1>1. c.memo /\ z # Scalar
  BY NodeRange DEF Copying, Measured, Scalar
<1>2. GetAlreadyAllocated(c, z) = IF z \in shm THEN z ELSE Place(c, z)
  BY <1>1, InSmaNode DEF GetAlreadyAllocated, Place
<1> QED
  BY <1>1, <1>2 DEF Met, Copied, Image

\* Nothing to copy.
LEMMA CopySame ==
  ASSUME NEW g, NEW c, NEW m, Copying(g, c, m), Old(m) = g, NEW z,
         Met(Copied(c), z), NEW r, r = Same(c, m, Image(c, z))
  PROVE  CopyResult(g, c, m, r, z)
<1>1. r.c = c /\ r.m = m /\ r.ptr = Image(c, z) /\ r = [c |-> r.c, m |-> r.m, ptr |-> r.ptr]
  BY DEF Same
<1> QED
  BY <1>1 DEF CopyResult, Keeps

LEMMA CopyZstr ==
  ASSUME NEW g, InputOK(g), NEW c, NEW m, Copying(g, c, m), Old(m) = g,
         NEW s \in Node, g[s].kind = "string", Met(Visited(c), s)
  PROVE  CopyResult(g, c, m, copy_zstr(c, m, s), s)
<1>1. CASE Met(Copied(c), s)
  <2>1. copy_zstr(c, m, s) = Same(c, m, Image(c, s))
    BY <1>1, AllocatedIs DEF copy_zstr
  <2> QED
    BY <1>1, <2>1, CopySame
<1>2. CASE ~Met(Copied(c), s)
  <2> DEFINE k == Alloc(c, m, StrSize, m[s])
  <2>1. copy_zstr(c, m, s) = [k EXCEPT !.c = AddAlreadyAllocated(@, s, k.ptr)]
    BY <1>2, AllocatedIs DEF copy_zstr
  <2>2. s \in Visited(c) /\ s \notin Copied(c)
    BY <1>2 DEF Met
  <2> HIDE DEF k
  <2> QED
    BY <2>1, <2>2, CopyNode DEF k
<1> QED
  BY <1>1, <1>2

LEMMA CopyZval ==
  ASSUME NEW g, InputOK(g), NEW c, NEW m, Copying(g, c, m), Old(m) = g,
         NEW z \in Node \cup {Scalar}, Met(Visited(c), z)
  PROVE  CopyResult(g, c, m, copy_zval(c, m, z), z)
<1>1. CASE z = Scalar
  <2>1. ~IsNode(z) /\ z \notin Node
    BY <1>1, NodeRange DEF IsNode, Scalar
  <2>2. copy_zval(c, m, z) = Same(c, m, Image(c, z)) /\ Met(Copied(c), z)
    BY <2>1 DEF copy_zval, Image, Met
  <2> QED
    BY <2>2, CopySame
<1>2. CASE z \in Node /\ Met(Copied(c), z)
  <2>1. copy_zval(c, m, z) = Same(c, m, Image(c, z))
    BY <1>2, AllocatedIs, NodeRange DEF copy_zval, IsNode
  <2> QED
    BY <1>2, <2>1, CopySame
<1>3. CASE z \in Node /\ ~Met(Copied(c), z)
  <2>1. z \in Visited(c) /\ z \notin Copied(c)
    BY <1>3 DEF Met
  <2>2. IsNode(z) /\ GetAlreadyAllocated(c, z) = Scalar /\ m[z] = g[z]
    BY <1>3, AllocatedIs, NodeRange DEF IsNode, Old
  <2>3. CASE g[z].kind = "string"
    <3>1. copy_zval(c, m, z) = copy_zstr(c, m, z)
      BY <2>2, <2>3 DEF copy_zval
    <3> QED
      BY <1>3, <2>3, <3>1, CopyZstr
  <2>4. CASE g[z].kind # "string"
    <3>1. copy_zval(c, m, z) = copy_ht(c, m, z)
      BY <2>2, <2>4 DEF copy_zval
    <3> QED
      BY <2>1, <2>4, <3>1, CopyNode
  <2> QED
    BY <2>3, <2>4
<1> QED
  BY <1>1, <1>2, <1>3

\* Contexts with the same maps know the same nodes.
LEMMA SameMaps ==
  ASSUME NEW c, NEW d, d.counted = c.counted, d.allocated = c.allocated
  PROVE  /\ Visited(d) = Visited(c) /\ Copied(d) = Copied(c)
         /\ (\A n : Place(d, n) = Place(c, n)) /\ (\A z : Image(d, z) = Image(c, z))
<1>1. Visited(d) = Visited(c) /\ \A n : Place(d, n) = Place(c, n)
  BY DEF Visited, Place
<1> QED
  BY <1>1 DEF Copied, Image

\* p is m with the bucket of loop l copied.
Fills(g, c, m, p, l, n) ==
  LET a == Place(c, n)
      i == c.frames[l].i
  IN  /\ n \in Copied(c) /\ c.frames[l].ht = a /\ i \in DOMAIN g[n].buckets
      /\ DOMAIN p = DOMAIN m /\ \A x \in DOMAIN m \ {a} : p[x] = m[x]
      /\ p[a] \in Cells /\ p[a].kind = m[a].kind /\ p[a].text = m[a].text
      /\ DOMAIN p[a].buckets = DOMAIN m[a].buckets
      /\ \A k \in DOMAIN g[n].buckets \ {i} : p[a].buckets[k] = m[a].buckets[k]
      /\ BucketCopied(c, g[n].buckets[i], p[a].buckets[i])

LEMMA CopyAdvance ==
  ASSUME NEW g, InputOK(g), NEW c, NEW m, Copying(g, c, m), Old(m) = g,
         NEW l \in DOMAIN c.frames, NEW n, NEW p, Fills(g, c, m, p, l, n)
  PROVE  /\ Copying(g, Advance(c, l), p) /\ Old(p) = g
         /\ Copied(Advance(c, l)) = Copied(c)
         /\ \A z : Image(Advance(c, l), z) = Image(c, z)
<1> DEFINE d == Advance(c, l)
           gs == [c.frames EXCEPT ![l].i = @ + 1]
           a == Place(c, n)
           i == c.frames[l].i
<1>1. c \in Contexts /\ c.frames \in Frames
  BY Fields DEF Copying, Measured
<1>2. d = With(c, c.size, c.counted, c.cur, c.allocated, gs)
  BY <1>1, AdvanceIs
<1>3. /\ gs \in Frames /\ DOMAIN gs = DOMAIN c.frames /\ i \in Nat
      /\ gs[l] = [ht |-> c.frames[l].ht, i |-> i + 1]
      /\ \A j \in DOMAIN c.frames : j # l => gs[j] = c.frames[j]
  BY <1>1, FramesAdvance
<1>4. d \in Contexts
  BY <1>1, <1>2, <1>3, Fields, WithType
<1> HIDE DEF d, gs
<1>5. /\ d.frames = gs /\ d.counted = c.counted /\ d.size = c.size /\ d.cur = c.cur
      /\ d.allocated = c.allocated /\ d.memo = c.memo /\ d.ok = c.ok
      /\ d.use_serialization = c.use_serialization /\ d.unmemoized = c.unmemoized
  BY <1>2 DEF With
<1>a. /\ Visited(d) = Visited(c) /\ Copied(d) = Copied(c)
      /\ (\A x : Place(d, x) = Place(c, x)) /\ (\A z : Image(d, z) = Image(c, z))
  BY <1>5, SameMaps
<1>6. /\ n \in Copied(c) /\ c.frames[l].ht = a /\ i \in DOMAIN g[n].buckets
      /\ DOMAIN p = DOMAIN m /\ (\A x \in DOMAIN m \ {a} : p[x] = m[x])
      /\ p[a] \in Cells /\ p[a].kind = m[a].kind /\ p[a].text = m[a].text
      /\ DOMAIN p[a].buckets = DOMAIN m[a].buckets
      /\ (\A k \in DOMAIN g[n].buckets \ {i} : p[a].buckets[k] = m[a].buckets[k])
      /\ BucketCopied(c, g[n].buckets[i], p[a].buckets[i])
  BY DEF Fills
<1>7. Measured(g, d) /\ Complete(g, d)
  BY <1>4, <1>5, <1>a DEF Copying, Measured, Complete
<1>8. Placed(g, d, p)
  BY <1>5, <1>a, <1>6 DEF Copying, Placed
<1>9. /\ DOMAIN m = Node \cup {Place(c, x) : x \in Copied(c)}
      /\ \A x \in Copied(c) : Base < Place(c, x) /\ Place(c, x) \in Nat
      /\ \A x \in Copied(c) : x # n => Place(c, x) # a
      /\ Copied(c) \subseteq Node
  BY <1>6, CurIs DEF Copying, Placed
<1>10. \A x \in Copied(c) : x # n => p[Place(c, x)] = m[Place(c, x)]
  BY <1>6, <1>9
<1>11. Old(p) = g
  <2>1. \A x \in Node : x # a
    BY <1>6, <1>9, NodeRange, PersistAssumption
  <2> QED
    BY <1>6, <1>9, <2>1 DEF Old
<1>12. \A j \in DOMAIN c.frames : c.frames[j].ht = a => j = l
  BY <1>6 DEF Copying, Looping
<1>13. \A x \in Copied(c) :
         /\ m[Place(c, x)] \in Cells
         /\ m[Place(c, x)].kind = g[x].kind /\ m[Place(c, x)].text = g[x].text
         /\ DOMAIN m[Place(c, x)].buckets = DOMAIN g[x].buckets
         /\ \A k \in DOMAIN g[x].buckets :
              BucketCopied(c, g[x].buckets[k], m[Place(c, x)].buckets[k]) \/ Ahead(c, Place(c, x), k)
  BY DEF Copying, Faithful
<1>14. \A b, e : BucketCopied(d, b, e) <=> BucketCopied(c, b, e)
  BY <1>5, <1>a DEF BucketCopied
<1>15. Faithful(g, d, p)
  <2> SUFFICES ASSUME NEW x \in Copied(c)
      PROVE /\ p[Place(c, x)] \in Cells
            /\ p[Place(c, x)].kind = g[x].kind /\ p[Place(c, x)].text = g[x].text
            /\ DOMAIN p[Place(c, x)].buckets = DOMAIN g[x].buckets
            /\ \A k \in DOMAIN g[x].buckets :
                 BucketCopied(c, g[x].buckets[k], p[Place(c, x)].buckets[k]) \/ Ahead(d, Place(c, x), k)
    BY <1>5, <1>a, <1>14 DEF Faithful
  <2>1. CASE x # n
    <3>1. \A k : Ahead(c, Place(c, x), k) => Ahead(d, Place(c, x), k)
      BY <1>3, <1>5, <1>a, <1>6, <1>9, <2>1 DEF Ahead
    <3> QED
      BY <1>10, <1>13, <2>1, <3>1
  <2>2. CASE x = n
    <3>1. ASSUME NEW k \in DOMAIN g[n].buckets, k # i, Ahead(c, a, k) PROVE Ahead(d, a, k)
      <4>1. i <= k
        BY <1>12, <3>1 DEF Ahead
      <4>2. g[n].buckets \in Seq(Buckets)
        BY <1>6, <1>9 DEF InputOK, Graph, Cells
      <4>3. k \in Nat
        BY <3>1, <4>2
      <4>4. i + 1 <= k
        BY <1>3, <3>1, <4>1, <4>3
      <4> QED
        BY <1>3, <1>5, <1>a, <1>6, <4>4 DEF Ahead
    <3> QED
      BY <1>6, <1>13, <2>2, <3>1
  <2> QED
    BY <2>1, <2>2
<1>16. Looping(g, d, p)
  <2>1. ASSUME NEW j \in DOMAIN c.frames
        PROVE \E x \in Copied(c) :
                /\ gs[j].ht = Place(c, x) /\ gs[j].i >= 1
                /\ \A k \in DOMAIN g[x].buckets :
                     k >= gs[j].i => p[Place(c, x)].buckets[k] = g[x].buckets[k]
    <3>1. PICK x \in Copied(c) :
                /\ c.frames[j].ht = Place(c, x) /\ c.frames[j].i >= 1
                /\ \A k \in DOMAIN g[x].buckets :
                     k >= c.frames[j].i => m[Place(c, x)].buckets[k] = g[x].buckets[k]
      BY DEF Copying, Looping
    <3>2. CASE j # l
      <4>1. x # n
        BY <1>12, <3>1, <3>2
      <4> QED
        BY <1>3, <1>10, <3>1, <3>2, <4>1
    <3>3. CASE j = l
      <4>1. x = n
        BY <1>6, <1>9, <3>1, <3>3
      <4>2. g[n].buckets \in Seq(Buckets)
        BY <1>6, <1>9 DEF InputOK, Graph, Cells
      <4>3. ASSUME NEW k \in DOMAIN g[n].buckets, k >= i + 1 PROVE p[a].buckets[k] = g[n].buckets[k]
        <5>1. k \in Nat
          BY <4>2, <4>3
        <5>2. k # i /\ k >= i
          BY <1>3, <4>3, <5>1
        <5> QED
          BY <1>6, <3>1, <3>3, <4>1, <4>3, <5>2
      <4>4. gs[j].ht = a /\ gs[j].i = i + 1 /\ gs[j].i >= 1
        BY <1>3, <1>6, <3>3
      <4> QED
        BY <1>6, <4>3, <4>4
    <3> QED
      BY <3>2, <3>3
  <2>2. \A j, k \in DOMAIN c.frames : gs[j].ht = gs[k].ht => j = k
    <3>1. \A j \in DOMAIN c.frames : gs[j].ht = c.frames[j].ht
      BY <1>3
    <3> QED
      BY <3>1 DEF Copying, Looping
  <2>3. DOMAIN d.frames = DOMAIN c.frames
    BY <1>3, <1>5
  <2> QED
    BY <1>5, <1>a, <2>1, <2>2, <2>3 DEF Looping
<1> QED
  BY <1>5, <1>a, <1>7, <1>8, <1>11, <1>15, <1>16 DEF Copying, d

\* A loop at its end has copied its buckets.
LEMMA CopyLeave ==
  ASSUME NEW g, InputOK(g), NEW c, Copying(g, c, mem), Old(mem) = g, c.frames # <<>>, AtEnd(c)
  PROVE  /\ Copying(g, Leave(c), mem)
         /\ Copied(Leave(c)) = Copied(c) /\ \A z : Image(Leave(c), z) = Image(c, z)
<1> DEFINE d == Leave(c)
           gs == SubSeq(c.frames, 1, Len(c.frames) - 1)
<1>1. c \in Contexts /\ c.frames \in Frames
  BY Fields DEF Copying, Measured
<1>2. d = With(c, c.size, c.counted, c.cur, c.allocated, gs)
  BY <1>1, LeaveIs
<1>3. /\ gs \in Frames /\ Len(c.frames) \in Nat /\ Len(c.frames) > 0
      /\ DOMAIN c.frames = 1 .. Len(c.frames) /\ DOMAIN gs = 1 .. Len(c.frames) - 1
      /\ \A j \in 1 .. Len(c.frames) - 1 : gs[j] = c.frames[j]
  BY <1>1, FramesLeave
<1>4. d \in Contexts
  BY <1>1, <1>2, <1>3, Fields, WithType
<1> HIDE DEF d, gs
<1>5. /\ d.frames = gs /\ d.counted = c.counted /\ d.size = c.size /\ d.cur = c.cur
      /\ d.allocated = c.allocated /\ d.memo = c.memo /\ d.ok = c.ok
      /\ d.use_serialization = c.use_serialization /\ d.unmemoized = c.unmemoized
  BY <1>2 DEF With
<1>a. /\ Visited(d) = Visited(c) /\ Copied(d) = Copied(c)
      /\ (\A x : Place(d, x) = Place(c, x)) /\ (\A z : Image(d, z) = Image(c, z))
  BY <1>5, SameMaps
<1>6. Measured(g, d) /\ Complete(g, d)
  BY <1>4, <1>5, <1>a DEF Copying, Measured, Complete
<1>7. Placed(g, d, mem)
  BY <1>5, <1>a DEF Copying, Placed
<1>8. \A b, e : BucketCopied(d, b, e) <=> BucketCopied(c, b, e)
  BY <1>5, <1>a DEF BucketCopied
<1>9. ASSUME NEW n \in Copied(c), NEW i \in DOMAIN g[n].buckets, Ahead(c, Place(c, n), i)
      PROVE Ahead(d, Place(c, n), i)
  <2>1. PICK j \in DOMAIN c.frames : c.frames[j].ht = Place(c, n) /\ c.frames[j].i <= i
    BY <1>9 DEF Ahead
  <2>2. mem[Place(c, n)] \in Cells /\ DOMAIN mem[Place(c, n)].buckets = DOMAIN g[n].buckets
    BY DEF Copying, Faithful
  <2>3. mem[Place(c, n)].buckets \in Seq(Buckets)
    BY <2>2 DEF Cells
  <2>4. i \in Nat /\ i <= Len(mem[Place(c, n)].buckets) /\ Len(mem[Place(c, n)].buckets) \in Nat
    BY <2>2, <2>3
  <2>5. c.frames[j].i \in Nat
    BY <1>1, FramesAdvance
  <2>6. j # Len(c.frames)
    BY <2>1, <2>4, <2>5 DEF AtEnd, Top
  <2>7. j \in 1 .. Len(c.frames) - 1
    BY <1>3, <2>6
  <2> QED
    BY <1>3, <1>5, <1>a, <2>1, <2>7 DEF Ahead
<1>10. Faithful(g, d, mem)
  BY <1>5, <1>a, <1>8, <1>9 DEF Copying, Faithful
<1>11. Looping(g, d, mem)
  <2>1. DOMAIN d.frames \subseteq DOMAIN c.frames /\ \A j \in DOMAIN d.frames : d.frames[j] = c.frames[j]
    BY <1>3, <1>5
  <2> QED
    BY <1>5, <1>a, <2>1 DEF Copying, Looping
<1> QED
  BY <1>5, <1>a, <1>6, <1>7, <1>10, <1>11 DEF Copying, d

\* With the last loop measuring is complete, and copying begins.
LEMMA CopyBegins ==
  ASSUME InputOK(mem), mem = Old(mem), NEW c, Calculating(mem, c), c.frames = <<>>,
         NEW d, d = [c EXCEPT !.cur = @ + EntrySize]
  PROVE  Copying(mem, d, mem) /\ Visited(d) = Visited(c)
<1>1. c \in Contexts /\ c.cur = 0 /\ c.allocated = [h \in HashKeys |-> Scalar]
  BY DEF Calculating, Measured
<1>2. d = With(c, c.size, c.counted, EntrySize, c.allocated, c.frames)
  <2>1. c.cur + EntrySize = EntrySize
    BY <1>1 DEF EntrySize
  <2> QED
    BY <1>1, <2>1, AddCurIs
<1>3. d \in Contexts
  BY <1>1, <1>2, Fields, WithType DEF EntrySize
<1>4. /\ d.frames = <<>> /\ d.counted = c.counted /\ d.size = c.size /\ d.cur = EntrySize
      /\ d.allocated = c.allocated /\ d.memo = c.memo /\ d.ok = c.ok
      /\ d.use_serialization = c.use_serialization /\ d.unmemoized = c.unmemoized
  BY <1>2 DEF With
<1>5. Visited(d) = Visited(c)
  BY <1>4 DEF Visited
<1>6. Copied(d) = {}
  BY <1>1, <1>4, NodeRange DEF Copied, Place
<1>7. Measured(mem, d)
  BY <1>3, <1>4, <1>5 DEF Calculating, Measured
<1>8. Complete(mem, d)
  BY <1>5 DEF Calculating, Complete, Ahead
<1>9. Placed(mem, d, mem)
  <2>1. Total(SizeOf(mem), Copied(d)) = 0
    BY <1>6, TotalEmpty
  <2>2. DOMAIN mem = Node
    BY DEF Old
  <2> QED
    BY <1>4, <1>6, <2>1, <2>2 DEF Placed, EntrySize
<1>10. Faithful(mem, d, mem) /\ Looping(mem, d, mem)
  BY <1>4, <1>6 DEF Faithful, Looping
<1> QED
  BY <1>5, <1>7, <1>8, <1>9, <1>10 DEF Copying

\* A bucket is written.
LEMMA CellType ==
  ASSUME NEW k \in Kinds, NEW bs \in Seq(Buckets), NEW t \in Int
  PROVE  [kind |-> k, buckets |-> bs, text |-> t] \in Cells
  BY DEF Cells

LEMMA CellWrite ==
  ASSUME NEW q \in Cells, NEW i \in DOMAIN q.buckets, NEW b \in Buckets,
         NEW p, p = [q EXCEPT !.buckets[i] = b]
  PROVE  /\ p \in Cells /\ p.kind = q.kind /\ p.text = q.text
         /\ DOMAIN p.buckets = DOMAIN q.buckets
         /\ p.buckets[i] = b /\ \A k \in DOMAIN q.buckets \ {i} : p.buckets[k] = q.buckets[k]
<1>1. q = [kind |-> q.kind, buckets |-> q.buckets, text |-> q.text]
      /\ q.kind \in Kinds /\ q.buckets \in Seq(Buckets) /\ q.text \in Int
  BY DEF Cells
<1> DEFINE bs == [q.buckets EXCEPT ![i] = b]
<1>2. p = [kind |-> q.kind, buckets |-> bs, text |-> q.text]
  BY <1>1
<1>3. /\ DOMAIN bs = DOMAIN q.buckets /\ bs[i] = b
      /\ \A k \in DOMAIN q.buckets \ {i} : bs[k] = q.buckets[k]
  BY <1>1
<1>4. bs \in Seq(Buckets)
  <2>1. /\ DOMAIN q.buckets = 1 .. Len(q.buckets) /\ Len(q.buckets) \in Nat
        /\ \A j \in DOMAIN q.buckets : q.buckets[j] \in Buckets
    BY <1>1, SeqElements
  <2>2. bs \in [1 .. Len(q.buckets) -> Buckets]
    BY <1>3, <2>1
  <2> QED
    BY <2>1, <2>2
<1> HIDE DEF bs
<1>5. p.kind = q.kind /\ p.buckets = bs /\ p.text = q.text
  BY <1>2
<1>6. p \in Cells
  BY <1>1, <1>2, <1>4, CellType
<1> QED
  BY <1>3, <1>5, <1>6

LEMMA CopyBucketStep ==
  ASSUME NEW g, InputOK(g), NEW c, Copying(g, c, mem), Old(mem) = g, c.frames # <<>>, ~AtEnd(c),
         NEW r, r = copy_bucket(c, mem, Top(c))
  PROVE  /\ Copying(g, Advance(r.c, Top(c)), r.m) /\ Old(r.m) = g
         /\ Keeps(c, Advance(r.c, Top(c)))
<1> DEFINE l == Top(c)
           f == c.frames[l]
<1>1. c \in Contexts /\ c.frames \in Frames
  BY Fields DEF Copying, Measured
<1>2. l \in DOMAIN c.frames /\ l \in Nat /\ DOMAIN c.frames = 1 .. l /\ l = Len(c.frames)
  BY <1>1, FramesLeave DEF Top
<1>3. PICK n \in Copied(c) :
         /\ f.ht = Place(c, n) /\ f.i >= 1
         /\ \A i \in DOMAIN g[n].buckets :
              i >= f.i => mem[Place(c, n)].buckets[i] = g[n].buckets[i]
  BY <1>2 DEF Copying, Looping
<1>4. n \in Visited(c) /\ n \in Node
  BY DEF Copying, Placed, Copied
<1>5. /\ mem[f.ht] \in Cells /\ mem[f.ht].kind = g[n].kind /\ mem[f.ht].text = g[n].text
      /\ DOMAIN mem[f.ht].buckets = DOMAIN g[n].buckets
  BY <1>3 DEF Copying, Faithful
<1>6. f.i \in DOMAIN g[n].buckets /\ f.i \in Nat
  <2>1. f.i \in Nat
    BY <1>1, <1>2, FramesAdvance
  <2>2. mem[f.ht].buckets \in Seq(Buckets)
    BY <1>5 DEF Cells
  <2> QED
    BY <1>3, <1>5, <2>1, <2>2 DEF AtEnd
<1> DEFINE b == g[n].buckets[f.i]
<1>7. mem[f.ht].buckets[f.i] = b
  BY <1>3, <1>6
<1>8. \/ b.val = Undef
      \/ /\ b.val \in Node \cup {Scalar, Indirect}
         /\ b.key = NoKey \/ (b.key \in Node /\ g[b.key].kind = "string")
  BY <1>4, <1>6 DEF InputOK, Graph
<1>9. BothMet(Visited(c), b)
  BY <1>4, <1>6 DEF Copying, Complete
<1> HIDE DEF l, f, b
<1>10. CASE b.val = Undef
  <2>1. r = Same(c, mem, f.ht)
    BY <1>7, <1>10 DEF copy_bucket, l, f
  <2>2. r.c = c /\ r.m = mem
    BY <2>1 DEF Same
  <2>3. Fills(g, c, mem, mem, l, n)
    BY <1>3, <1>5, <1>6, <1>7, <1>10 DEF Fills, BucketCopied, f, b
  <2>4. /\ Copying(g, Advance(c, l), mem) /\ Old(mem) = g /\ Copied(Advance(c, l)) = Copied(c)
        /\ \A z : Image(Advance(c, l), z) = Image(c, z)
    BY <1>2, <2>3, CopyAdvance
  <2>5. Keeps(c, Advance(c, l))
    <3>1. Advance(c, l).allocated = c.allocated
      BY <1>1, AdvanceIs DEF With
    <3> QED
      BY <2>4, <3>1 DEF Keeps, Place
  <2> QED
    BY <2>2, <2>4, <2>5 DEF l
<1>11. CASE b.val # Undef
  <2> DEFINE k == copy_key(c, mem, b.key)
             v == copy_zval(k.c, k.m, b.val)
             w == [key |-> k.ptr, val |-> v.ptr]
             p == [v.m EXCEPT ![f.ht].buckets[f.i] = w]
  <2>1. r = [v EXCEPT !.m = p]
    BY <1>7, <1>11 DEF copy_bucket, l, f
  <2>2. /\ b.val \in Node \cup {Scalar} /\ Met(Visited(c), b.key) /\ Met(Visited(c), b.val)
        /\ b.key = NoKey \/ (b.key \in Node /\ g[b.key].kind = "string")
    BY <1>8, <1>9, <1>11 DEF BothMet
  <2>3. NoKey \notin Node
    BY NodeRange DEF NoKey
  <2> HIDE DEF p, v, w
  <2>4. CopyResult(g, c, mem, k, b.key)
    <3>1. CASE b.key = NoKey
      <4>1. k = Same(c, mem, Image(c, b.key)) /\ Met(Copied(c), b.key)
        BY <2>3, <3>1 DEF copy_key, Image, Met
      <4> HIDE DEF k
      <4> QED
        BY <4>1, CopySame
    <3>2. CASE b.key # NoKey
      <4>1. k = copy_zstr(c, mem, b.key)
        BY <3>2 DEF copy_key
      <4> QED
        BY <2>2, <3>2, <4>1, CopyZstr
    <3> QED
      BY <3>1, <3>2
  <2> HIDE DEF k
  <2>5. /\ Copying(g, k.c, k.m) /\ Old(k.m) = g /\ Keeps(c, k.c) /\ Visited(k.c) = Visited(c)
        /\ Met(Copied(k.c), b.key) /\ k.ptr = Image(k.c, b.key) /\ k.c.frames = c.frames
    BY <2>2, <2>3, <2>4 DEF CopyResult
  <2>6. CopyResult(g, k.c, k.m, v, b.val)
    BY <2>2, <2>5, CopyZval DEF v
  <2>7. /\ v = [c |-> v.c, m |-> v.m, ptr |-> v.ptr]
        /\ Copying(g, v.c, v.m) /\ Old(v.m) = g /\ Keeps(k.c, v.c)
        /\ Met(Copied(v.c), b.val) /\ v.ptr = Image(v.c, b.val)
        /\ v.c.frames = c.frames \/ \E a \in Nat : v.c.frames = Append(c.frames, [ht |-> a, i |-> 1])
    BY <2>5, <2>6 DEF CopyResult
  <2>8. Met(Copied(v.c), b.key) /\ k.ptr = Image(v.c, b.key)
    BY <2>5, <2>7, KeepsMet
  <2>9. l \in DOMAIN v.c.frames /\ v.c.frames[l] = f
    <3>1. CASE v.c.frames = c.frames
      BY <1>2, <3>1 DEF f
    <3>2. ASSUME NEW a \in Nat, v.c.frames = Append(c.frames, [ht |-> a, i |-> 1])
          PROVE l \in DOMAIN v.c.frames /\ v.c.frames[l] = f
      <4>1. /\ DOMAIN v.c.frames = 1 .. Len(c.frames) + 1
            /\ \A j \in 1 .. Len(c.frames) : v.c.frames[j] = c.frames[j]
        BY <1>1, <3>2, FramesEnter
      <4> QED
        BY <1>2, <4>1 DEF f
    <3> QED
      BY <2>7, <3>1, <3>2
  <2>10. Keeps(c, v.c)
    BY <2>5, <2>7 DEF Keeps
  <2>11. n \in Copied(v.c) /\ f.ht = Place(v.c, n)
    BY <1>3, <2>10 DEF Keeps
  <2>12. /\ v.m[f.ht] \in Cells /\ DOMAIN v.m[f.ht].buckets = DOMAIN g[n].buckets
         /\ f.ht \in DOMAIN v.m
    BY <2>7, <2>11 DEF Copying, Faithful, Placed
  <2>13. w \in Buckets
    <3>1. b \in Buckets
      <4>1. g[n].buckets \in Seq(Buckets)
        BY <1>4 DEF InputOK, Graph, Cells
      <4> QED
        BY <1>6, <4>1 DEF b
    <3>2. \A z \in Int : Met(Copied(v.c), z) => Image(v.c, z) \in Int
      <4>1. \A x \in Copied(v.c) : Place(v.c, x) \in Nat
        BY <2>7, CurIs
      <4> QED
        BY <4>1 DEF Met, Image
    <3>3. b.key \in Int /\ b.val \in Int
      BY <3>1 DEF Buckets
    <3> QED
      BY <2>7, <2>8, <3>2, <3>3 DEF w, Buckets
  <2>14. BucketCopied(v.c, b, w)
    BY <1>11, <2>7, <2>8 DEF BucketCopied, w
  <2>15. /\ DOMAIN p = DOMAIN v.m /\ (\A x \in DOMAIN v.m \ {f.ht} : p[x] = v.m[x])
         /\ p[f.ht] = [v.m[f.ht] EXCEPT !.buckets[f.i] = w]
    BY <2>12 DEF p
  <2>16. /\ p[f.ht] \in Cells /\ p[f.ht].kind = v.m[f.ht].kind /\ p[f.ht].text = v.m[f.ht].text
         /\ DOMAIN p[f.ht].buckets = DOMAIN v.m[f.ht].buckets
         /\ p[f.ht].buckets[f.i] = w
         /\ \A j \in DOMAIN v.m[f.ht].buckets \ {f.i} : p[f.ht].buckets[j] = v.m[f.ht].buckets[j]
    BY <1>6, <2>12, <2>13, <2>15, CellWrite
  <2>17. Fills(g, v.c, v.m, p, l, n)
    BY <1>6, <2>9, <2>11, <2>12, <2>14, <2>15, <2>16 DEF Fills, b
  <2>18. /\ Copying(g, Advance(v.c, l), p) /\ Old(p) = g
         /\ Copied(Advance(v.c, l)) = Copied(v.c)
    BY <2>7, <2>9, <2>17, CopyAdvance
  <2>19. Keeps(c, Advance(v.c, l))
    <3>1. v.c \in Contexts
      BY <2>7 DEF Copying, Measured
    <3>2. Advance(v.c, l).allocated = v.c.allocated
      BY <3>1, AdvanceIs DEF With
    <3> QED
      BY <2>10, <2>18, <3>2 DEF Keeps, Place
  <2>20. r.c = v.c /\ r.m = p
    BY <2>1, <2>7
  <2> QED
    BY <2>18, <2>19, <2>20 DEF l
<1> QED
  BY <1>10, <1>11

\* Copies never run past the block.
LEMMA CopyFits ==
  ASSUME NEW g, InputOK(g), NEW c, NEW m, Copying(g, c, m)
  PROVE  c.cur <= c.size
<1>1. Visited(c) \subseteq Node /\ Copied(c) \subseteq Visited(c)
  BY DEF Visited, Copying, Placed
<1>2. IsFiniteSet(Visited(c)) /\ \A n \in Visited(c) : SizeOf(g)[n] \in Nat
  BY <1>1, NodeFinite, SizePositive DEF InputOK
<1>3. Total(SizeOf(g), Copied(c)) <= Total(SizeOf(g), Visited(c))
  BY <1>1, <1>2, TotalSubset
<1>4. Total(SizeOf(g), Copied(c)) \in Nat /\ Total(SizeOf(g), Visited(c)) \in Nat
  BY <1>2, CurIs, UnitsFinite
<1>5. c.cur = EntrySize + Total(SizeOf(g), Copied(c)) /\ c.size = EntrySize + Total(SizeOf(g), Visited(c))
  BY DEF Copying, Placed, Measured
<1> QED
  BY <1>3, <1>4, <1>5 DEF EntrySize

\* When no loop is left every bucket is copied, and the copies, closed as they
\* are, are all that was counted.
LEMMA CopyComplete ==
  ASSUME NEW g, InputOK(g), NEW c, NEW m, Copying(g, c, m), c.frames = <<>>,
         entry.val \in Node, Met(Copied(c), entry.key), Met(Copied(c), entry.val)
  PROVE  /\ c.cur = c.size
         /\ \A n \in Copied(c) : \A i \in DOMAIN g[n].buckets :
              BucketCopied(c, g[n].buckets[i], m[Place(c, n)].buckets[i])
<1>1. \A n \in Copied(c) : \A i \in DOMAIN g[n].buckets :
        BucketCopied(c, g[n].buckets[i], m[Place(c, n)].buckets[i])
  BY DEF Copying, Faithful, Ahead
<1> DEFINE C == Copied(c) \cup shm
<1>2. C \subseteq Node /\ entry.val \in C /\ entry.key \in C
  BY DEF Copied, InputOK, Shareable, Met
<1>3. Closed(g, C)
  <2> SUFFICES ASSUME NEW n \in C, NEW i \in DOMAIN g[n].buckets, g[n].buckets[i].val # Undef
               PROVE {g[n].buckets[i].key, g[n].buckets[i].val} \cap Node \subseteq C
    BY DEF Closed
  <2>1. CASE n \in shm
    BY <2>1 DEF InputOK, Shareable, Closed
  <2>2. CASE n \in Copied(c)
    BY <1>1, <2>2 DEF BucketCopied, Met
  <2> QED
    BY <2>1, <2>2
<1>4. Visited(c) \subseteq C
  BY <1>2, <1>3 DEF Copying, Measured
<1>5. Visited(c) = Copied(c)
  BY <1>4 DEF Copying, Measured, Placed
<1>6. c.cur = c.size
  BY <1>5 DEF Copying, Measured, Placed
<1> QED
  BY <1>1, <1>6

-----------------------------------------------------------------------------
(* Values that are not walked.                                               *)

\* Two contexts that differ in size and place only.
Otherwise(c, d) ==
  /\ d \in Contexts /\ d.memo = c.memo /\ d.use_serialization = c.use_serialization
  /\ d.ok = c.ok /\ d.unmemoized = c.unmemoized
  /\ d.allocated = c.allocated /\ d.frames = c.frames

LEMMA AddSizeKeeps ==
  ASSUME NEW c \in Contexts, NEW k \in Nat
  PROVE  /\ Otherwise(c, AddSize(c, k)) /\ AddSize(c, k).size = c.size + k
         /\ AddSize(c, k).cur = c.cur
<1> DEFINE d == AddSize(c, k)
<1>1. d = With(c, c.size + k, c.counted, c.cur, c.allocated, c.frames)
  BY AddSizeIs
<1>2. c.size + k \in Nat
  BY Fields
<1>3. d \in Contexts
  BY <1>1, <1>2, Fields, WithType
<1> HIDE DEF d
<1>4. /\ d.memo = c.memo /\ d.use_serialization = c.use_serialization
      /\ d.ok = c.ok /\ d.unmemoized = c.unmemoized
      /\ d.allocated = c.allocated /\ d.frames = c.frames
      /\ d.size = c.size + k /\ d.cur = c.cur
  BY <1>1 DEF With
<1>5. Otherwise(c, d) /\ d.size = c.size + k /\ d.cur = c.cur
  BY <1>3, <1>4 DEF Otherwise
<1> QED
  BY <1>5 DEF d

LEMMA PlainStr ==
  ASSUME NEW c \in Contexts, ~c.memo, NEW s \in Node
  PROVE  /\ Otherwise(c, calc_str(c, s)) /\ calc_str(c, s).size = c.size + StringSize(s)
         /\ calc_str(c, s).cur = c.cur
<1>1. CASE s \in shm
  <2>1. calc_str(c, s) = c /\ StringSize(s) = 0
    BY <1>1, InSmaNode DEF calc_str, StringSize
  <2> QED
    BY <2>1, Fields DEF Otherwise
<1>2. CASE s \notin shm
  <2>1. calc_str(c, s) = AddSize(c, StrSize) /\ StringSize(s) = StrSize
    BY <1>2, InSmaNode DEF calc_str, StringSize, Known, Memoize
  <2>2. StrSize \in Nat
    BY DEF StrSize
  <2> QED
    BY <2>1, <2>2, AddSizeKeeps
<1> QED
  BY <1>1, <1>2

\* Measuring without loops: persist_calc on a value that is serialized, or is
\* neither array nor object.
LEMMA PlainCalc ==
  ASSUME InputOK(mem), NEW ser \in BOOLEAN, NEW works,
         IF ser THEN entry.val \in Node
         ELSE entry.val = Scalar \/ mem[entry.val].kind \in {"string", "resource"},
         NEW d, d = persist_calc(Context(FALSE, ser), works)
  PROVE  /\ d \in Contexts /\ ~d.memo /\ d.unmemoized /\ d.use_serialization = ser /\ d.cur = 0
         /\ d.ok => PlainMeasured(mem, d)
         /\ ~d.ok => IF ser THEN ~works ELSE entry.val \in Node /\ mem[entry.val].kind = "resource"
<1> DEFINE a == Context(FALSE, ser)
           e == AddSize(a, EntrySize)
           k == calc_str(e, entry.key)
<1>1. a \in Contexts
  BY DEF Context, Contexts, Frames, Scalar
<1>2. /\ ~a.memo /\ a.use_serialization = ser /\ a.ok /\ a.unmemoized /\ a.size = 0
      /\ a.cur = 0 /\ a.allocated = [h \in HashKeys |-> Scalar] /\ a.frames = <<>>
  BY DEF Context
<1> HIDE DEF a
<1>3. Otherwise(a, e) /\ e.size = EntrySize /\ e.cur = 0
  <2>1. EntrySize \in Nat /\ a.size + EntrySize = EntrySize
    BY <1>2 DEF EntrySize
  <2> QED
    BY <1>1, <1>2, <2>1, AddSizeKeeps
<1> HIDE DEF e
<1>4. entry.key \in Node /\ entry.val \in Node \cup {Scalar}
  BY DEF InputOK
<1>5. Otherwise(e, k) /\ k.size = EntrySize + StringSize(entry.key) /\ k.cur = 0
  <2>1. e \in Contexts /\ ~e.memo
    BY <1>2, <1>3 DEF Otherwise
  <2> QED
    BY <1>3, <1>4, <2>1, PlainStr
<1> HIDE DEF k
<1>6. /\ k \in Contexts /\ ~k.memo /\ k.use_serialization = ser /\ k.ok /\ k.unmemoized
      /\ k.cur = 0 /\ k.allocated = [h \in HashKeys |-> Scalar] /\ k.frames = <<>>
  BY <1>2, <1>3, <1>5 DEF Otherwise
<1>7. d = calc_zval(k, entry.val, works)
  BY DEF persist_calc, k, e, a
<1>8. EntrySize + StringSize(entry.key) \in Nat
  BY DEF EntrySize, StringSize, StrSize
<1>9. ASSUME NEW t, t \in Nat, d = AddSize(k, t), ValueSize(d) = t,
             entry.val = Scalar \/ ser \/ entry.val \in shm \/ mem[entry.val].kind = "string"
      PROVE /\ d \in Contexts /\ ~d.memo /\ d.unmemoized /\ d.use_serialization = ser /\ d.cur = 0
            /\ d.ok /\ PlainMeasured(mem, d)
  <2>1. Otherwise(k, d) /\ d.size = k.size + t /\ d.cur = k.cur
    BY <1>6, <1>9, AddSizeKeeps
  <2>2. /\ d \in Contexts /\ ~d.memo /\ d.unmemoized /\ d.use_serialization = ser /\ d.cur = 0 /\ d.ok
        /\ d.frames = <<>> /\ d.allocated = [h \in HashKeys |-> Scalar]
    BY <1>6, <2>1 DEF Otherwise
  <2>3. d.size = EntrySize + StringSize(entry.key) + ValueSize(d)
    BY <1>5, <1>9, <2>1
  <2> QED
    BY <1>9, <2>2, <2>3 DEF PlainMeasured
<1>10. AddSize(k, 0) = k
  <2>1. k.size + 0 = k.size
    BY <1>6, Fields
  <2> QED
    BY <1>6, <2>1, AddSizeIs DEF With, Contexts
<1>11. CASE entry.val = Scalar
  <2>1. ~IsNode(entry.val) /\ entry.val \notin Node /\ 0 \in Nat
    BY <1>11, NodeRange DEF IsNode, Scalar
  <2>2. d = AddSize(k, 0) /\ ~ser
    BY <1>7, <1>10, <2>1 DEF calc_zval
  <2>3. ValueSize(d) = 0
    BY <1>11 DEF ValueSize
  <2>4. /\ d \in Contexts /\ ~d.memo /\ d.unmemoized /\ d.use_serialization = ser /\ d.cur = 0
        /\ d.ok /\ PlainMeasured(mem, d)
    BY <1>9, <1>11, <2>1, <2>2, <2>3
  <2> QED
    BY <2>4
<1>12. CASE entry.val \in Node /\ ser
  <2>0. IsNode(entry.val) /\ entry.val # Scalar
    BY <1>12, NodeRange DEF IsNode, Scalar
  <2>1. d = calc_serialize(k, works) /\ entry.val # Scalar
    BY <1>6, <1>7, <1>12, <2>0 DEF calc_zval
  <2>2. CASE works
    <3>1. [k EXCEPT !.unmemoized = @ /\ ~k.memo] = k
      BY <1>6 DEF Contexts
    <3>2. d = AddSize(k, StrSize + SerializedSize)
      BY <2>1, <2>2, <3>1 DEF calc_serialize
    <3>3. StrSize + SerializedSize \in Nat
      BY DEF StrSize, SerializedSize
    <3>4. d.use_serialization
      BY <1>6, <1>12, <3>2, <3>3, AddSizeKeeps DEF Otherwise
    <3>5. ValueSize(d) = StrSize + SerializedSize
      BY <2>1, <3>4 DEF ValueSize
    <3> QED
      BY <1>9, <1>12, <3>2, <3>3, <3>5
  <2>3. CASE ~works
    <3>1. d = [k EXCEPT !.ok = FALSE]
      BY <2>1, <2>3 DEF calc_serialize, Fail
    <3>2. /\ d \in Contexts /\ ~d.memo /\ d.unmemoized /\ d.use_serialization = ser /\ d.cur = 0 /\ ~d.ok
      BY <1>6, <3>1 DEF Contexts
    <3> QED
      BY <1>12, <2>3, <3>2
  <2> QED
    BY <2>2, <2>3
<1>13. CASE entry.val \in Node /\ ~ser
  <2>1. IsNode(entry.val) /\ (InSma(entry.val) <=> entry.val \in shm) /\ entry.val # Scalar
    BY <1>13, NodeRange, InSmaNode DEF IsNode, Scalar
  <2>2. Memoize(k, entry.val) = k /\ ~Known(k, entry.val)
    BY <1>6 DEF Memoize, Known
  <2>3. CASE entry.val \in shm
    <3>1. d = k
      BY <1>6, <1>7, <1>13, <2>1, <2>3 DEF calc_zval
    <3>2. ValueSize(d) = 0
      BY <1>6, <1>13, <2>1, <2>3, <3>1 DEF ValueSize, StringSize
    <3>3. 0 \in Nat /\ d = AddSize(k, 0)
      BY <1>10, <3>1
    <3>4. /\ d \in Contexts /\ ~d.memo /\ d.unmemoized /\ d.use_serialization = ser /\ d.cur = 0
          /\ d.ok /\ PlainMeasured(mem, d)
      BY <1>9, <2>3, <3>2, <3>3
    <3> QED
      BY <3>4
  <2>4. CASE entry.val \notin shm /\ mem[entry.val].kind = "string"
    <3>1. d = AddSize(k, StrSize)
      BY <1>6, <1>7, <1>13, <2>1, <2>2, <2>4 DEF calc_zval
    <3>2. StrSize \in Nat
      BY DEF StrSize
    <3>3. ~d.use_serialization
      BY <1>6, <1>13, <3>1, <3>2, AddSizeKeeps DEF Otherwise
    <3>4. ValueSize(d) = StrSize
      BY <2>1, <2>4, <3>3 DEF ValueSize, StringSize
    <3> QED
      BY <1>9, <2>4, <3>1, <3>2, <3>4
  <2>5. CASE entry.val \notin shm /\ mem[entry.val].kind = "resource"
    <3>1. d = Fail(k)
      BY <1>6, <1>7, <1>13, <2>1, <2>2, <2>5 DEF calc_zval
    <3>2. /\ d \in Contexts /\ ~d.memo /\ d.unmemoized /\ d.use_serialization = ser /\ d.cur = 0 /\ ~d.ok
      BY <1>6, <3>1 DEF Contexts, Fail
    <3> QED
      BY <1>13, <2>5, <3>2
  <2> QED
    BY <1>13, <2>1, <2>3, <2>4, <2>5
<1> QED
  BY <1>4, <1>11, <1>12, <1>13

\* d has taken k more of the block.
Takes(c, d, k) == Otherwise(c, d) /\ d.size = c.size /\ d.cur = c.cur + k

\* p has what m has.
Holds(p, m) == DOMAIN m \subseteq DOMAIN p /\ \A x \in DOMAIN m : p[x] = m[x]

LEMMA HoldsOld ==
  ASSUME NEW m, NEW p, Holds(p, m), Node \subseteq DOMAIN m
  PROVE  Old(p) = Old(m)
  BY DEF Holds, Old

LEMMA HoldsString ==
  ASSUME NEW g, NEW m, NEW p, Holds(p, m), NEW s, NEW z, StringCopied(g, m, s, z)
  PROVE  StringCopied(g, p, s, z)
  BY DEF Holds, StringCopied

LEMMA PlainAlloc ==
  ASSUME NEW c \in Contexts, NEW m, Strings(c, m), c.cur >= 1, NEW k \in Nat, k > 0,
         NEW node, node.kind = "string", node.buckets = <<>>
  PROVE  LET r == Alloc(c, m, k, node) IN
         /\ Takes(c, r.c, k) /\ Strings(r.c, r.m) /\ Holds(r.m, m)
         /\ r.ptr \in DOMAIN r.m \ Node /\ r.m[r.ptr] = node
         /\ r = [c |-> r.c, m |-> r.m, ptr |-> r.ptr]
<1> DEFINE a == Base + c.cur
           r == Alloc(c, m, k, node)
<1>1. c.cur \in Nat /\ Base \in Nat /\ c.cur + k \in Nat
  BY Fields, PersistAssumption
<1>2. /\ r = [c |-> r.c, m |-> r.m, ptr |-> a]
      /\ DOMAIN r.m = DOMAIN m \cup {a} /\ r.m[a] = node
      /\ \A x \in DOMAIN m : x # a => r.m[x] = m[x]
      /\ r.c = With(c, c.size, c.counted, c.cur + k, c.allocated, c.frames)
  BY AllocIs
<1> HIDE DEF r
<1>3. r.ptr = a
  BY <1>2
<1>4. r.c \in Contexts
  BY <1>1, <1>2, Fields, WithType
<1>5. Takes(c, r.c, k)
  <2>1. /\ r.c.memo = c.memo /\ r.c.use_serialization = c.use_serialization
        /\ r.c.ok = c.ok /\ r.c.unmemoized = c.unmemoized
        /\ r.c.allocated = c.allocated /\ r.c.frames = c.frames
        /\ r.c.size = c.size /\ r.c.cur = c.cur + k
    BY <1>2 DEF With
  <2> QED
    BY <1>4, <2>1 DEF Takes, Otherwise
<1>6. a \notin Node /\ a \notin DOMAIN m
  <2>1. a \notin Node
    BY <1>1, NodeRange
  <2>2. \A x \in DOMAIN m \ Node : x \in Nat /\ x < a
    BY DEF Strings
  <2> QED
    BY <1>1, <2>1, <2>2
<1>7. Holds(r.m, m)
  BY <1>2, <1>6 DEF Holds
<1>8. Strings(r.c, r.m)
  <2>1. r.c.cur = c.cur + k
    BY <1>5 DEF Takes
  <2>2. Node \subseteq DOMAIN r.m
    BY <1>2 DEF Strings
  <2>3. ASSUME NEW x \in DOMAIN r.m \ Node
        PROVE /\ x \in Nat /\ Base < x /\ x < Base + r.c.cur
              /\ r.m[x].kind = "string" /\ r.m[x].buckets = <<>>
    <3>1. CASE x = a
      BY <1>1, <1>2, <2>1, <3>1
    <3>2. CASE x \in DOMAIN m \ Node
      <4>1. /\ x \in Nat /\ Base < x /\ x < Base + c.cur
            /\ m[x].kind = "string" /\ m[x].buckets = <<>> /\ r.m[x] = m[x]
        BY <1>7, <3>2 DEF Strings, Holds
      <4> QED
        BY <1>1, <2>1, <4>1
    <3> QED
      BY <1>2, <2>3, <3>1, <3>2
  <2> QED
    BY <2>2, <2>3 DEF Strings
<1> QED
  BY <1>2, <1>3, <1>5, <1>6, <1>7, <1>8 DEF r

LEMMA PlainZstr ==
  ASSUME NEW g, InputOK(g), NEW c \in Contexts, ~c.memo, c.cur >= 1, NEW m, Strings(c, m), Old(m) = g,
         NEW s \in Node, g[s].kind = "string",
         NEW r, r = copy_zstr(c, m, s)
  PROVE  /\ Takes(c, r.c, StringSize(s)) /\ Strings(r.c, r.m) /\ Holds(r.m, m)
         /\ StringCopied(g, r.m, s, r.ptr)
<1>1. s # Scalar /\ (InSma(s) <=> s \in shm)
  BY NodeRange, InSmaNode DEF Scalar
<1>2. CASE s \in shm
  <2>1. r = Same(c, m, s)
    BY <1>1, <1>2 DEF copy_zstr, GetAlreadyAllocated
  <2>2. r.c = c /\ r.m = m /\ r.ptr = s
    BY <2>1 DEF Same
  <2>3. c.cur + StringSize(s) = c.cur
    BY <1>2, Fields DEF StringSize
  <2> QED
    BY <1>2, <2>2, <2>3 DEF Takes, Otherwise, Holds, StringCopied
<1>3. CASE s \notin shm
  <2> DEFINE t == Alloc(c, m, StrSize, m[s])
  <2>1. r = [t EXCEPT !.c = AddAlreadyAllocated(@, s, t.ptr)]
    BY <1>1, <1>3 DEF copy_zstr, GetAlreadyAllocated
  <2>2. m[s] = g[s] /\ m[s].kind = "string" /\ m[s].buckets = <<>> /\ StrSize \in Nat /\ StrSize > 0
    BY DEF Old, InputOK, Graph, StrSize
  <2>3. /\ Takes(c, t.c, StrSize) /\ Strings(t.c, t.m) /\ Holds(t.m, m)
        /\ t.ptr \in DOMAIN t.m \ Node /\ t.m[t.ptr] = m[s]
        /\ t = [c |-> t.c, m |-> t.m, ptr |-> t.ptr]
    BY <2>2, PlainAlloc
  <2> HIDE DEF t
  <2>4. ~t.c.memo
    BY <2>3 DEF Takes, Otherwise
  <2>5. r = [t EXCEPT !.c = t.c]
    BY <2>1, <2>3, <2>4 DEF AddAlreadyAllocated
  <2>6. r.c = t.c /\ r.m = t.m /\ r.ptr = t.ptr
    BY <2>3, <2>5
  <2>7. StringSize(s) = StrSize
    BY <1>3 DEF StringSize
  <2>8. StringCopied(g, r.m, s, r.ptr)
    BY <1>3, <2>2, <2>3, <2>6 DEF StringCopied
  <2> QED
    BY <2>3, <2>6, <2>7, <2>8
<1> QED
  BY <1>2, <1>3

\* The copy of a value that is not walked.
LEMMA PlainCopy ==
  ASSUME InputOK(mem), mem = Old(mem), NEW c \in Contexts, ~c.memo, c.cur = 0, PlainMeasured(mem, c),
         c.use_serialization => entry.val \in Node,
         NEW e, e = [c EXCEPT !.cur = @ + EntrySize],
         NEW k, k = copy_zstr(e, mem, entry.key),
         NEW ser, ser = (c.use_serialization /\ IsNode(entry.val)),
         NEW v, v = IF ser THEN copy_serialize(k.c, k.m, entry.val) ELSE copy_zval(k.c, k.m, entry.val),
         NEW s, s = [key |-> k.ptr, val |-> v.ptr, isptr |-> ser]
  PROVE  /\ Old(v.m) = mem /\ Otherwise(c, v.c)
         /\ PlainMeasured(mem, v.c) /\ PlainCopied(mem, v.c, v.m, s)
<1>1. Takes(c, e, EntrySize)
  <2>1. e = With(c, c.size, c.counted, c.cur + EntrySize, c.allocated, c.frames)
    BY AddCurIs
  <2>2. c.cur + EntrySize \in Nat
    BY DEF EntrySize
  <2>3. e \in Contexts
    BY <2>1, <2>2, Fields, WithType
  <2>4. /\ e.memo = c.memo /\ e.use_serialization = c.use_serialization
        /\ e.ok = c.ok /\ e.unmemoized = c.unmemoized
        /\ e.allocated = c.allocated /\ e.frames = c.frames
        /\ e.size = c.size /\ e.cur = c.cur + EntrySize
    BY <2>1 DEF With
  <2> QED
    BY <2>3, <2>4 DEF Takes, Otherwise
<1>2. e \in Contexts /\ ~e.memo /\ e.cur = EntrySize /\ e.cur >= 1
  BY <1>1 DEF Takes, Otherwise, EntrySize
<1>3. Strings(e, mem)
  BY DEF Strings, Old
<1>4. entry.key \in Node /\ mem[entry.key].kind = "string" /\ entry.val \in Node \cup {Scalar}
  BY DEF InputOK
<1>5. /\ Takes(e, k.c, StringSize(entry.key)) /\ Strings(k.c, k.m) /\ Holds(k.m, mem)
      /\ StringCopied(mem, k.m, entry.key, k.ptr)
  BY <1>2, <1>3, <1>4, PlainZstr
<1>6. StringSize(entry.key) \in Nat /\ Node \subseteq DOMAIN mem
  BY DEF StringSize, StrSize, Old
<1>7. /\ k.c \in Contexts /\ ~k.c.memo /\ k.c.cur = EntrySize + StringSize(entry.key) /\ k.c.cur >= 1
      /\ k.c.use_serialization = c.use_serialization /\ Old(k.m) = mem /\ Node \subseteq DOMAIN k.m
  <2>1. Old(k.m) = mem
    BY <1>5, <1>6, HoldsOld
  <2>2. k.c.cur = EntrySize + StringSize(entry.key)
    BY <1>2, <1>5 DEF Takes
  <2> QED
    BY <1>1, <1>2, <1>5, <1>6, <2>1, <2>2 DEF Takes, Otherwise, EntrySize, Strings
<1>8. IsNode(entry.val) <=> entry.val \in Node
  BY <1>4, NodeRange DEF IsNode, Scalar
<1>9. ser <=> c.use_serialization /\ entry.val \in Node
  BY <1>8
<1>10. s.key = k.ptr /\ s.val = v.ptr /\ s.isptr = ser
  OBVIOUS
<1> DEFINE Value ==
      \/ entry.val = Scalar /\ s.val = Scalar
      \/ /\ entry.val \in Node /\ c.use_serialization
         /\ s.val \in DOMAIN v.m \ Node /\ v.m[s.val].text = -entry.val
      \/ /\ entry.val \in Node /\ ~c.use_serialization /\ mem[entry.val].kind = "string"
         /\ StringCopied(mem, v.m, entry.val, s.val)
      \/ /\ entry.val \in shm /\ ~c.use_serialization /\ s.val = entry.val
<1>11. /\ Takes(k.c, v.c, ValueSize(c)) /\ Strings(v.c, v.m) /\ Holds(v.m, k.m) /\ Value
  <2>0. ASSUME NEW z, v = Same(k.c, k.m, z), ValueSize(c) = 0
        PROVE  Takes(k.c, v.c, ValueSize(c)) /\ Strings(v.c, v.m) /\ Holds(v.m, k.m) /\ v.ptr = z
    <3>1. v.c = k.c /\ v.m = k.m /\ v.ptr = z
      BY <2>0 DEF Same
    <3>2. k.c.cur + 0 = k.c.cur
      BY <1>7, Fields
    <3> QED
      BY <1>5, <1>7, <2>0, <3>1, <3>2 DEF Takes, Otherwise, Holds
  <2>1. CASE entry.val = Scalar
    <3>1. v = Same(k.c, k.m, Scalar) /\ ValueSize(c) = 0
      BY <1>8, <1>9, <2>1, NodeRange DEF copy_zval, IsNode, Scalar, ValueSize
    <3> QED
      BY <1>10, <2>0, <2>1, <3>1
  <2>2. CASE entry.val \in Node /\ c.use_serialization
    <3> DEFINE node == [kind |-> "string", buckets |-> <<>>, text |-> -entry.val]
    <3>1. v = Alloc(k.c, k.m, StrSize + SerializedSize, node)
      BY <1>9, <2>2 DEF copy_serialize
    <3>2. /\ node.kind = "string" /\ node.buckets = <<>> /\ node.text = -entry.val
          /\ StrSize + SerializedSize \in Nat /\ StrSize + SerializedSize > 0
      BY DEF StrSize, SerializedSize
    <3> HIDE DEF node
    <3>3. /\ Takes(k.c, v.c, StrSize + SerializedSize) /\ Strings(v.c, v.m) /\ Holds(v.m, k.m)
          /\ v.ptr \in DOMAIN v.m \ Node /\ v.m[v.ptr] = node
      BY <1>5, <1>7, <3>1, <3>2, PlainAlloc
    <3>4. ValueSize(c) = StrSize + SerializedSize
      BY <2>2, NodeRange DEF ValueSize, Scalar
    <3> QED
      BY <1>10, <2>2, <3>2, <3>3, <3>4
  <2>3. CASE entry.val \in Node /\ ~c.use_serialization
    <3>1. v = copy_zval(k.c, k.m, entry.val) /\ entry.val # Scalar /\ ValueSize(c) = StringSize(entry.val)
      BY <1>9, <2>3, NodeRange DEF ValueSize, Scalar
    <3>2. CASE entry.val \in shm
      <4>1. v = Same(k.c, k.m, entry.val) /\ ValueSize(c) = 0
        BY <1>8, <2>3, <3>1, <3>2, InSmaNode DEF copy_zval, GetAlreadyAllocated, StringSize
      <4> QED
        BY <1>10, <2>0, <2>3, <3>2, <4>1
    <3>3. CASE entry.val \notin shm
      <4>1. mem[entry.val].kind = "string"
        BY <2>3, <3>1, <3>3 DEF PlainMeasured
      <4>2. k.m[entry.val] = mem[entry.val]
        BY <1>5, <1>6, <2>3 DEF Holds
      <4>3. GetAlreadyAllocated(k.c, entry.val) = Scalar
        BY <1>7, <2>3, <3>3, InSmaNode DEF GetAlreadyAllocated
      <4>4. v = copy_zstr(k.c, k.m, entry.val)
        BY <1>8, <2>3, <3>1, <4>1, <4>2, <4>3 DEF copy_zval
      <4>5. /\ Takes(k.c, v.c, StringSize(entry.val)) /\ Strings(v.c, v.m) /\ Holds(v.m, k.m)
            /\ StringCopied(mem, v.m, entry.val, v.ptr)
        BY <1>5, <1>7, <2>3, <4>1, <4>4, PlainZstr
      <4> QED
        BY <1>10, <2>3, <3>1, <4>1, <4>5
    <3> QED
      BY <3>2, <3>3
  <2> QED
    BY <1>4, <2>1, <2>2, <2>3
<1>12. Old(v.m) = mem
  BY <1>7, <1>11, HoldsOld
<1>13. Otherwise(c, v.c) /\ v.c.size = c.size
  BY <1>1, <1>5, <1>11 DEF Takes, Otherwise
<1>14. v.c.cur = EntrySize + StringSize(entry.key) + ValueSize(c)
  BY <1>7, <1>11 DEF Takes
<1>15. ValueSize(v.c) = ValueSize(c)
  BY <1>13 DEF Otherwise, ValueSize
<1>16. PlainMeasured(mem, v.c)
  BY <1>13, <1>15 DEF Otherwise, PlainMeasured
<1>17. v.c.cur = v.c.size
  BY <1>14, <1>15, <1>16 DEF PlainMeasured
<1>18. StringCopied(mem, v.m, entry.key, s.key)
  BY <1>5, <1>10, <1>11, HoldsString
<1>19. s.isptr = (v.c.use_serialization /\ entry.val \in Node)
  BY <1>9, <1>10, <1>13 DEF Otherwise
<1>20. v.c.use_serialization = c.use_serialization
  BY <1>13 DEF Otherwise
<1>21. PlainCopied(mem, v.c, v.m, s)
  BY <1>11, <1>17, <1>18, <1>19, <1>20 DEF PlainCopied
<1> QED
  BY <1>12, <1>13, <1>16, <1>21

-----------------------------------------------------------------------------
(* The invariant is inductive.                                               *)

\* What is known of the graph and the context is known after a step too, when
\* the input is the same.
LEMMA SameInput ==
  ASSUME UNCHANGED <<shm, entry>>, Old(mem') = Old(mem), InputOK(Old(mem))
  PROVE  InputOK(Old(mem))'
<1>1. Old(mem)' = Old(mem)
  BY DEF Old
<1> QED
  BY <1>1 DEF InputOK, Graph, Shareable, Closed

LEMMA SameCalculating ==
  ASSUME UNCHANGED <<shm, entry>>, Old(mem') = Old(mem), Calculating(Old(mem), ctxt'), EntryMet(ctxt')
  PROVE  Calculating(Old(mem), ctxt)' /\ EntryMet(ctxt)'
<1>1. Old(mem)' = Old(mem)
  BY DEF Old
<1> QED
  BY <1>1 DEF Calculating, Measured, Closed, BothMet, Met, EntryMet

LEMMA SamePlain ==
  ASSUME UNCHANGED <<shm, entry>>, Old(mem') = Old(mem), PlainMeasured(Old(mem), ctxt')
  PROVE  PlainMeasured(Old(mem), ctxt)'
<1>1. Old(mem)' = Old(mem)
  BY DEF Old
<1> QED
  BY <1>1 DEF PlainMeasured, StringSize, ValueSize

LEMMA SameCopying ==
  ASSUME UNCHANGED <<shm, entry>>, Old(mem') = Old(mem), Copying(Old(mem), ctxt', mem'),
         EntryCopied(ctxt', stored')
  PROVE  Copying(Old(mem), ctxt, mem)' /\ EntryCopied(ctxt, stored)'
<1>1. Old(mem)' = Old(mem)
  BY DEF Old
<1>2. Measured(Old(mem), ctxt)'
  BY <1>1 DEF Copying, Measured, Closed
<1>3. Complete(Old(mem), ctxt)'
  BY <1>1 DEF Copying, Complete, BothMet, Met
<1>4. Placed(Old(mem), ctxt, mem)' /\ Looping(Old(mem), ctxt, mem)'
  BY <1>1 DEF Copying, Placed, Looping
<1>5. Faithful(Old(mem), ctxt, mem)'
  BY <1>1 DEF Copying, Faithful, BucketCopied, Met, Image, Ahead
<1>6. EntryCopied(ctxt, stored)'
  BY DEF EntryCopied, Met, Image
<1> QED
  BY <1>2, <1>3, <1>4, <1>5, <1>6 DEF Copying

LEMMA SamePlainCopied ==
  ASSUME UNCHANGED <<shm, entry>>, Old(mem') = Old(mem), PlainCopied(Old(mem), ctxt', mem', stored')
  PROVE  PlainCopied(Old(mem), ctxt, mem, stored)'
<1>1. Old(mem)' = Old(mem)
  BY DEF Old
<1> QED
  BY <1>1 DEF PlainCopied, Strings, StringCopied

\* A step while the value is measured.
LEMMA BeforeStep ==
  ASSUME IndInv, UNCHANGED <<mem, shm, entry>>, phase \in Before, phase' \in Before,
         ctxt' \in Contexts, ctxt'.unmemoized,
         ctxt'.memo => entry.val \in Node /\ mem[entry.val].kind = "array",
         ctxt'.use_serialization \/ phase' = "recalc" =>
           entry.val \in Node /\ mem[entry.val].kind \in {"array", "object"},
         phase' = "block" => ctxt'.frames = <<>>,
         phase' \in {"calc", "block"} =>
           /\ ctxt'.cur = 0
           /\ IF ctxt'.memo THEN Calculating(mem, ctxt') /\ EntryMet(ctxt')
              ELSE PlainMeasured(mem, ctxt'),
         phase' = "refused" => Resource \/ (SerializeFails /\ ctxt'.use_serialization /\ ~ctxt'.memo)
  PROVE  IndInv'
<1>1. mem = Old(mem) /\ InputOK(Old(mem))
  BY DEF IndInv, ValidInput
<1>2. Old(mem') = Old(mem) /\ Old(mem)' = Old(mem)
  BY DEF Old
<1>3. phase' \notin After
  BY DEF Before, After
<1>4. InputOK(Old(mem))'
  BY <1>1, <1>2, SameInput
<1>5. ValidInput'
  BY <1>1, <1>2, <1>4 DEF ValidInput
<1>6. ValidContext'
  BY <1>1, <1>2, <1>3 DEF ValidContext, After
<1>7. ValidSize'
  <2>1. Calculating(mem, ctxt') /\ EntryMet(ctxt') => Calculating(Old(mem), ctxt)' /\ EntryMet(ctxt)'
    BY <1>1, <1>2, SameCalculating
  <2>2. PlainMeasured(mem, ctxt') => PlainMeasured(Old(mem), ctxt)'
    BY <1>1, <1>2, SamePlain
  <2> QED
    BY <2>1, <2>2 DEF ValidSize
<1>8. ValidCopy' /\ Fetched'
  BY <1>3 DEF ValidCopy, Fetched, After
<1>9. RefusedForCause'
  BY DEF RefusedForCause, Resource, Reach, Closed
<1> QED
  BY <1>5, <1>6, <1>7, <1>8, <1>9 DEF IndInv

\* A step while it is copied and after.
LEMMA AfterStep ==
  ASSUME IndInv, UNCHANGED <<shm, entry>>, phase' \in After, Old(mem') = Old(mem),
         ctxt' \in Contexts, ctxt'.unmemoized, ctxt'.memo = ctxt.memo,
         ctxt'.use_serialization = ctxt.use_serialization,
         phase' # "copy" => ctxt'.frames = <<>>,
         IF ctxt.memo THEN Copying(Old(mem), ctxt', mem') /\ EntryCopied(ctxt', stored')
         ELSE PlainMeasured(Old(mem), ctxt') /\ PlainCopied(Old(mem), ctxt', mem', stored'),
         phase' = "fetched" => dst' \in IF stored'.isptr THEN {entry.val, Scalar} ELSE {stored'.val}
  PROVE  IndInv'
<1>1. Old(mem)' = Old(mem)
  BY DEF Old
<1>2. phase' \notin Before
  BY DEF Before, After
<1>3. InputOK(Old(mem))'
  BY SameInput DEF IndInv, ValidInput
<1>4. ValidInput'
  BY <1>2, <1>3 DEF ValidInput
<1>5. ValidContext'
  BY <1>1, <1>2 DEF IndInv, ValidContext, Before, After
<1>6. ValidSize' /\ RefusedForCause'
  BY <1>2 DEF ValidSize, RefusedForCause, Before
<1>7. ValidCopy'
  <2>1. CASE ctxt.memo
    BY <2>1, SameCopying DEF ValidCopy
  <2>2. CASE ~ctxt.memo
    BY <2>2, SamePlain, SamePlainCopied DEF ValidCopy
  <2> QED
    BY <2>1, <2>2
<1>8. Fetched'
  BY DEF Fetched
<1> QED
  BY <1>4, <1>5, <1>6, <1>7, <1>8 DEF IndInv

LEMMA InvInit == Init => IndInv
<1> SUFFICES ASSUME Init PROVE IndInv
  OBVIOUS
<1>1. PICK i \in Inputs : mem = i.mem /\ shm = i.shm /\ entry = [key |-> i.key, val |-> i.val]
  BY DEF Init
<1>2. /\ Graph(i.mem) /\ Shareable(i.mem, i.shm)
      /\ i.key \in Node /\ i.mem[i.key].kind = "string"
      /\ i.val \in Node \cup {Scalar}
      /\ i.val \in Node => i.mem[i.val].kind # "reference"
  BY PersistAssumption
<1>3. Old(mem) = mem
  <2>1. mem \in [Node -> Cells]
    BY <1>1, <1>2 DEF Graph
  <2> QED
    BY <2>1 DEF Old
<1>4. entry.key = i.key /\ entry.val = i.val
  BY <1>1
<1>5. InputOK(Old(mem))
  BY <1>1, <1>2, <1>3, <1>4 DEF InputOK
<1>6. phase = "start" /\ ctxt = Context(FALSE, FALSE)
  BY DEF Init
<1>7. ctxt \in Contexts /\ ctxt.unmemoized /\ ~ctxt.memo /\ ~ctxt.use_serialization
  BY <1>6 DEF Context, Contexts, Frames, Scalar
<1> QED
  BY <1>3, <1>5, <1>6, <1>7 DEF IndInv, ValidInput, ValidContext, ValidSize, ValidCopy, Fetched,
                                RefusedForCause, Before, After

\* What the first calc finds out.
LEMMA InvCalc == ASSUME IndInv, Calc PROVE IndInv'
<1>1. /\ phase = "start" /\ phase \in Before /\ UNCHANGED <<mem, shm, entry>> /\ phase' = AfterCalc(ctxt')
  BY DEF Calc, Before, input
<1>2. InputOK(mem) /\ mem = Old(mem)
  BY <1>1 DEF IndInv, ValidInput
<1>3. PICK works : works \in {TRUE, ~SerializeFails} /\ ctxt' = persist_calc(FirstContext, works)
  BY DEF Calc
<1>4. entry.val \in Node \cup {Scalar} /\ (entry.val \in Node => mem[entry.val].kind \in Kinds \ {"reference"})
  BY <1>2 DEF InputOK, Graph, Cells
<1>5. KindOf(entry.val) = IF entry.val \in Node THEN mem[entry.val].kind ELSE "scalar"
  BY <1>4, NodeRange DEF KindOf, IsNode, Scalar
<1>6. /\ phase' \in {"calc", "recalc", "refused"}
      /\ phase' = "calc" <=> ctxt'.ok
      /\ phase' = "recalc" <=> ~ctxt'.ok /\ ctxt'.use_serialization
  BY <1>1 DEF AfterCalc
<1>7. CASE ~serializer /\ KindOf(entry.val) = "array"
  <2>1. FirstContext = Context(TRUE, FALSE)
    BY <1>7 DEF FirstContext
  <2>2. /\ ctxt' \in Contexts /\ ctxt'.unmemoized
        /\ ctxt'.ok => Calculating(mem, ctxt') /\ EntryMet(ctxt')
        /\ ~ctxt'.ok => ctxt'.use_serialization \/ Resource
    BY <1>2, <1>3, <2>1, CalcStart
  <2>3. entry.val \in Node /\ mem[entry.val].kind = "array"
    BY <1>5, <1>7
  <2>4. ctxt'.ok => ctxt'.memo /\ ctxt'.cur = 0
    BY <2>2 DEF Calculating, Measured
  <2> QED
    BY <1>1, <1>6, <2>2, <2>3, <2>4, BeforeStep DEF Before
<1>8. CASE ~(~serializer /\ KindOf(entry.val) = "array")
  <2> DEFINE ser == KindOf(entry.val) = "object" \/ (serializer /\ KindOf(entry.val) = "array")
  <2>1. FirstContext = Context(FALSE, ser)
    BY <1>8 DEF FirstContext
  <2>2. ser => entry.val \in Node /\ mem[entry.val].kind \in {"array", "object"}
    BY <1>5
  <2>3. ~ser => entry.val = Scalar \/ mem[entry.val].kind \in {"string", "resource"}
    BY <1>4, <1>5, <1>8 DEF Kinds
  <2>4. ser \in BOOLEAN
    OBVIOUS
  <2> HIDE DEF ser
  <2>5. /\ ctxt' \in Contexts /\ ~ctxt'.memo /\ ctxt'.unmemoized /\ ctxt'.use_serialization = ser /\ ctxt'.cur = 0
        /\ ctxt'.ok => PlainMeasured(mem, ctxt')
        /\ ~ctxt'.ok => IF ser THEN ~works ELSE entry.val \in Node /\ mem[entry.val].kind = "resource"
    BY <1>2, <1>3, <2>1, <2>2, <2>3, <2>4, PlainCalc
  <2>6. entry.val \in Node /\ mem[entry.val].kind = "resource" => Resource
    BY DEF Resource, Reach
  <2> QED
    BY <1>1, <1>6, <2>2, <2>5, <2>6, BeforeStep DEF Before
<1> QED
  BY <1>7, <1>8

LEMMA InvCalcBucket == ASSUME IndInv, CalcBucket PROVE IndInv'
<1>1. /\ phase = "calc" /\ phase \in Before /\ UNCHANGED <<mem, shm, entry>> /\ phase' = AfterCalc(ctxt')
      /\ ctxt.frames # <<>> /\ ~AtEnd(ctxt)
  BY DEF CalcBucket, Before, input
<1>2. InputOK(mem) /\ mem = Old(mem)
  BY <1>1 DEF IndInv, ValidInput
<1>3. /\ ctxt.memo /\ Calculating(mem, ctxt) /\ EntryMet(ctxt)
      /\ entry.val \in Node /\ mem[entry.val].kind = "array"
  BY <1>1, <1>2 DEF IndInv, ValidSize, ValidContext, PlainMeasured
<1> DEFINE b == mem[ctxt.frames[Top(ctxt)].ht].buckets[ctxt.frames[Top(ctxt)].i]
<1>4. PICK works : ctxt' = Advance(calc_bucket(ctxt, b, works), Top(ctxt))
  BY DEF CalcBucket
<1>a. b = mem[ctxt.frames[Top(ctxt)].ht].buckets[ctxt.frames[Top(ctxt)].i]
  OBVIOUS
<1> HIDE DEF b
<1>5. /\ ctxt' \in Contexts /\ ctxt'.unmemoized
      /\ ctxt'.ok => Calculating(mem, ctxt') /\ Visited(ctxt) \subseteq Visited(ctxt')
      /\ ~ctxt'.ok => ctxt'.use_serialization \/ Resource
  <2>1. ctxt.frames # <<>> /\ ~AtEnd(ctxt) /\ InputOK(mem) /\ Calculating(mem, ctxt)
    BY <1>1, <1>2, <1>3
  <2> QED
    BY <1>4, <1>a, <2>1, CalcBucketStep DEF BucketResult
<1>6. /\ phase' \in {"calc", "recalc", "refused"}
      /\ phase' = "calc" <=> ctxt'.ok
      /\ phase' = "recalc" <=> ~ctxt'.ok /\ ctxt'.use_serialization
  BY <1>1 DEF AfterCalc
<1>7. ctxt'.ok => ctxt'.memo /\ ctxt'.cur = 0 /\ EntryMet(ctxt')
  BY <1>3, <1>5 DEF Calculating, Measured, EntryMet, Met
<1> QED
  BY <1>1, <1>3, <1>5, <1>6, <1>7, BeforeStep DEF Before

LEMMA InvCalcReturn == ASSUME IndInv, CalcReturn PROVE IndInv'
<1>1. /\ phase = "calc" /\ phase \in Before /\ UNCHANGED <<mem, shm, entry, phase>>
      /\ ctxt.frames # <<>> /\ AtEnd(ctxt) /\ ctxt' = Leave(ctxt)
  BY DEF CalcReturn, Before, input
<1>2. InputOK(mem) /\ mem = Old(mem)
  BY <1>1 DEF IndInv, ValidInput
<1>3. /\ ctxt.memo /\ Calculating(mem, ctxt) /\ EntryMet(ctxt)
      /\ entry.val \in Node /\ mem[entry.val].kind = "array"
  BY <1>1, <1>2 DEF IndInv, ValidSize, ValidContext, PlainMeasured
<1>4. Calculating(mem, ctxt') /\ EntryMet(ctxt')
  BY <1>1, <1>2, <1>3, CalcLeave DEF EntryMet
<1>5. ctxt' \in Contexts /\ ctxt'.unmemoized /\ ctxt'.memo /\ ~ctxt'.use_serialization /\ ctxt'.cur = 0
  BY <1>4 DEF Calculating, Measured
<1> QED
  BY <1>1, <1>3, <1>4, <1>5, BeforeStep

LEMMA InvRecalc == ASSUME IndInv, Recalc PROVE IndInv'
<1>1. /\ phase = "recalc" /\ phase \in Before /\ UNCHANGED <<mem, shm, entry>>
      /\ phase' = IF ctxt'.ok THEN "calc" ELSE "refused"
  BY DEF Recalc, Before, input
<1>2. InputOK(mem) /\ mem = Old(mem)
  BY <1>1 DEF IndInv, ValidInput
<1>3. entry.val \in Node /\ mem[entry.val].kind \in {"array", "object"}
  BY <1>1, <1>2 DEF IndInv, ValidContext
<1>4. PICK works : works \in {TRUE, ~SerializeFails} /\ ctxt' = persist_calc(Context(FALSE, TRUE), works)
  BY DEF Recalc
<1>5. /\ ctxt' \in Contexts /\ ~ctxt'.memo /\ ctxt'.unmemoized /\ ctxt'.use_serialization = TRUE /\ ctxt'.cur = 0
      /\ ctxt'.ok => PlainMeasured(mem, ctxt')
      /\ ~ctxt'.ok => ~works
  BY <1>2, <1>3, <1>4, PlainCalc
<1>6. ~works => SerializeFails
  BY <1>4, PersistAssumption
<1> QED
  BY <1>1, <1>3, <1>5, <1>6, BeforeStep DEF Before

LEMMA InvMalloc == ASSUME IndInv, Malloc PROVE IndInv'
<1>1. /\ phase = "calc" /\ phase \in Before /\ UNCHANGED <<mem, shm, entry, ctxt>> /\ ctxt.frames = <<>>
      /\ phase' \in {"block", "nomemory"} /\ phase' \in Before
  BY DEF Malloc, Before, input
<1>2. mem = Old(mem)
  BY <1>1 DEF IndInv, ValidInput
<1>3. /\ ctxt \in Contexts /\ ctxt.unmemoized /\ ctxt.cur = 0
      /\ ctxt.memo => entry.val \in Node /\ mem[entry.val].kind = "array"
      /\ ctxt.use_serialization => entry.val \in Node /\ mem[entry.val].kind \in {"array", "object"}
      /\ IF ctxt.memo THEN Calculating(mem, ctxt) /\ EntryMet(ctxt) ELSE PlainMeasured(mem, ctxt)
  BY <1>1, <1>2 DEF IndInv, ValidContext, ValidSize
<1> QED
  BY <1>1, <1>3, BeforeStep

LEMMA InvCopy == ASSUME IndInv, Copy PROVE IndInv' /\ Old(mem') = Old(mem)
<1> DEFINE e == [ctxt EXCEPT !.cur = @ + EntrySize]
           k == copy_zstr(e, mem, entry.key)
           ser == ctxt.use_serialization /\ IsNode(entry.val)
           v == IF ser THEN copy_serialize(k.c, k.m, entry.val) ELSE copy_zval(k.c, k.m, entry.val)
           s == [key |-> k.ptr, val |-> v.ptr, isptr |-> ser]
<1>1. /\ phase = "block" /\ phase' = "copy" /\ UNCHANGED <<shm, entry>>
      /\ ctxt' = v.c /\ mem' = v.m /\ stored' = s
  BY DEF Copy, input
<1>2. phase \in Before /\ phase \notin After /\ phase' \in After
  BY <1>1 DEF Before, After
<1>3. InputOK(mem) /\ mem = Old(mem)
  BY <1>2 DEF IndInv, ValidInput
<1>4. /\ ctxt \in Contexts /\ ctxt.frames = <<>> /\ ctxt.cur = 0 /\ ctxt.unmemoized
      /\ ctxt.memo => entry.val \in Node /\ mem[entry.val].kind = "array"
      /\ ctxt.use_serialization => entry.val \in Node
      /\ IF ctxt.memo THEN Calculating(mem, ctxt) /\ EntryMet(ctxt) ELSE PlainMeasured(mem, ctxt)
  BY <1>1, <1>3 DEF IndInv, ValidContext, ValidSize
<1>5. entry.key \in Node /\ mem[entry.key].kind = "string" /\ entry.val \in Node \cup {Scalar}
  BY <1>3 DEF InputOK
<1>6. CASE ctxt.memo
  <2>1. Calculating(mem, ctxt) /\ EntryMet(ctxt) /\ ~ctxt.use_serialization
    BY <1>4, <1>6 DEF Calculating, Measured
  <2>2. Copying(mem, e, mem) /\ Visited(e) = Visited(ctxt)
    BY <1>3, <1>4, <2>1, CopyBegins
  <2>3. ser = FALSE /\ v = copy_zval(k.c, k.m, entry.val)
    BY <2>1
  <2>4. s.key = k.ptr /\ s.val = v.ptr /\ s = [key |-> k.ptr, val |-> v.ptr, isptr |-> FALSE]
    BY <2>3
  <2> HIDE DEF e, v, ser, s
  <2>5. CopyResult(mem, e, mem, k, entry.key)
    BY <1>3, <1>5, <2>1, <2>2, CopyZstr DEF EntryMet
  <2> HIDE DEF k
  <2>6. /\ Copying(mem, k.c, k.m) /\ Old(k.m) = mem /\ Visited(k.c) = Visited(e)
        /\ Met(Copied(k.c), entry.key) /\ k.ptr = Image(k.c, entry.key)
    BY <2>5 DEF CopyResult
  <2>7. CopyResult(mem, k.c, k.m, v, entry.val)
    BY <1>3, <1>5, <2>1, <2>2, <2>3, <2>6, CopyZval DEF EntryMet
  <2>8. /\ Copying(mem, v.c, v.m) /\ Old(v.m) = mem /\ Keeps(k.c, v.c)
        /\ Met(Copied(v.c), entry.val) /\ v.ptr = Image(v.c, entry.val)
    BY <2>7 DEF CopyResult
  <2>9. Met(Copied(v.c), entry.key) /\ k.ptr = Image(v.c, entry.key)
    BY <2>6, <2>8, KeepsMet
  <2>10. EntryCopied(v.c, s)
    BY <2>4, <2>8, <2>9 DEF EntryCopied
  <2>11. v.c \in Contexts /\ v.c.unmemoized /\ v.c.memo /\ ~v.c.use_serialization
    BY <2>8 DEF Copying, Measured
  <2>12. Old(mem') = Old(mem) /\ ctxt'.memo = ctxt.memo /\ ctxt'.use_serialization = ctxt.use_serialization
    BY <1>1, <1>3, <1>4, <1>6, <2>1, <2>8, <2>11 DEF Contexts
  <2> QED
    BY <1>1, <1>2, <1>3, <1>6, <2>8, <2>10, <2>11, <2>12, AfterStep
<1>7. CASE ~ctxt.memo
  <2> HIDE DEF e, k, ser, v, s
  <2>1. /\ Old(v.m) = mem /\ Otherwise(ctxt, v.c)
        /\ PlainMeasured(mem, v.c) /\ PlainCopied(mem, v.c, v.m, s)
    BY <1>3, <1>4, <1>7, PlainCopy DEF e, k, ser, v, s
  <2>2. /\ v.c \in Contexts /\ v.c.unmemoized /\ v.c.memo = ctxt.memo
        /\ v.c.use_serialization = ctxt.use_serialization
    BY <1>4, <2>1 DEF Otherwise
  <2> QED
    BY <1>1, <1>2, <1>3, <1>7, <2>1, <2>2, AfterStep
<1> QED
  BY <1>6, <1>7

\* A step of the copy, of a value that has loops.
LEMMA InvLoop ==
  ASSUME IndInv, UNCHANGED <<shm, entry, phase, stored, dst>>, phase = "copy", ctxt.memo,
         Copying(Old(mem), ctxt', mem'), Old(mem') = Old(mem), Keeps(ctxt, ctxt')
  PROVE  IndInv'
<1>1. Copying(Old(mem), ctxt, mem) /\ EntryCopied(ctxt, stored)
  BY DEF IndInv, ValidCopy, After
<1>2. /\ ctxt' \in Contexts /\ ctxt'.unmemoized /\ ctxt'.memo /\ ~ctxt'.use_serialization
  BY DEF Copying, Measured
<1>3. ctxt'.memo = ctxt.memo /\ ctxt'.use_serialization = ctxt.use_serialization
  BY <1>1, <1>2 DEF Copying, Measured, Contexts
<1>4. EntryCopied(ctxt', stored')
  BY <1>1, KeepsMet DEF EntryCopied
<1>5. phase' \in After /\ phase' = "copy"
  BY DEF After
<1> QED
  BY <1>2, <1>3, <1>4, <1>5, AfterStep

LEMMA InvCopyBucket == ASSUME IndInv, CopyBucket PROVE IndInv' /\ Old(mem') = Old(mem)
<1> DEFINE r == copy_bucket(ctxt, mem, Top(ctxt))
<1>1. /\ phase = "copy" /\ ctxt.frames # <<>> /\ ~AtEnd(ctxt)
      /\ ctxt' = Advance(r.c, Top(ctxt)) /\ mem' = r.m
      /\ UNCHANGED <<shm, entry, phase, stored, dst>>
  BY DEF CopyBucket, input
<1>2. InputOK(Old(mem)) /\ ctxt.memo /\ Copying(Old(mem), ctxt, mem)
  BY <1>1 DEF IndInv, ValidInput, ValidCopy, PlainMeasured, After
<1> HIDE DEF r
<1>3. Copying(Old(mem), ctxt', mem') /\ Old(mem') = Old(mem) /\ Keeps(ctxt, ctxt')
  BY <1>1, <1>2, CopyBucketStep DEF r
<1> QED
  BY <1>1, <1>2, <1>3, InvLoop

LEMMA InvCopyReturn == ASSUME IndInv, CopyReturn PROVE IndInv'
<1>1. /\ phase = "copy" /\ ctxt.frames # <<>> /\ AtEnd(ctxt) /\ ctxt' = Leave(ctxt)
      /\ UNCHANGED <<mem, shm, entry, phase, stored, dst>>
  BY DEF CopyReturn, input
<1>2. InputOK(Old(mem)) /\ ctxt.memo /\ Copying(Old(mem), ctxt, mem) /\ ctxt \in Contexts
  BY <1>1 DEF IndInv, ValidInput, ValidContext, ValidCopy, PlainMeasured, After
<1>3. Copying(Old(mem), ctxt', mem)
  BY <1>1, <1>2, CopyLeave
<1>4. Keeps(ctxt, ctxt')
  <2>1. ctxt'.allocated = ctxt.allocated
    BY <1>1, <1>2, LeaveIs DEF With
  <2> QED
    BY <2>1 DEF Keeps, Copied, Place
<1>5. Old(mem') = Old(mem) /\ Copying(Old(mem), ctxt', mem')
  BY <1>1, <1>3
<1> QED
  BY <1>1, <1>2, <1>4, <1>5, InvLoop

\* The steps after the copy leave it alone.
LEMMA InvRest ==
  ASSUME IndInv, UNCHANGED <<mem, shm, entry, ctxt, stored>>, phase \in After, phase' \in After,
         ctxt.frames = <<>>,
         phase' = "fetched" => dst' \in IF stored.isptr THEN {entry.val, Scalar} ELSE {stored.val}
  PROVE  IndInv'
<1>1. /\ ctxt \in Contexts /\ ctxt.unmemoized
      /\ IF ctxt.memo THEN Copying(Old(mem), ctxt, mem) /\ EntryCopied(ctxt, stored)
         ELSE PlainMeasured(Old(mem), ctxt) /\ PlainCopied(Old(mem), ctxt, mem, stored)
  BY DEF IndInv, ValidContext, ValidCopy
<1>2. /\ ctxt' = ctxt /\ mem' = mem /\ stored' = stored /\ Old(mem') = Old(mem)
  OBVIOUS
<1>3. IF ctxt.memo THEN Copying(Old(mem), ctxt', mem') /\ EntryCopied(ctxt', stored')
      ELSE PlainMeasured(Old(mem), ctxt') /\ PlainCopied(Old(mem), ctxt', mem', stored')
  BY <1>1, <1>2
<1> QED
  BY <1>1, <1>2, <1>3, AfterStep

LEMMA InvCopyEnd == ASSUME IndInv, CopyEnd PROVE IndInv'
<1>1. /\ phase \in After /\ phase' \in After /\ phase' # "fetched" /\ ctxt.frames = <<>>
      /\ UNCHANGED <<mem, shm, entry, ctxt, stored>>
  BY DEF CopyEnd, input, After
<1> QED
  BY <1>1, InvRest

LEMMA InvUnpersist == ASSUME IndInv, Unpersist PROVE IndInv'
<1>1. /\ phase = "stored" /\ phase \in After /\ phase' \in After
      /\ UNCHANGED <<mem, shm, entry, ctxt, stored>>
  BY DEF Unpersist, input, After
<1>2. ctxt.frames = <<>>
  BY <1>1 DEF IndInv, ValidContext
<1>3. ASSUME stored.isptr PROVE -mem[stored.val].text = entry.val
  <2>1. PlainCopied(Old(mem), ctxt, mem, stored)
    BY <1>1, <1>3 DEF IndInv, ValidCopy, EntryCopied
  <2>2. ctxt.use_serialization /\ entry.val \in Node
    BY <1>3, <2>1 DEF PlainCopied
  <2>3. Scalar \notin Node /\ entry.val \in Nat
    BY <2>2, NodeRange DEF Scalar
  <2>4. mem[stored.val].text = -entry.val
    BY <2>1, <2>2, <2>3 DEF PlainCopied
  <2> QED
    BY <2>3, <2>4
<1>4. dst' \in IF stored.isptr THEN {entry.val, Scalar} ELSE {stored.val}
  BY <1>3 DEF Unpersist
<1> QED
  BY <1>1, <1>2, <1>4, InvRest

LEMMA InvStutter == ASSUME IndInv, UNCHANGED vars PROVE IndInv'
<1>1. CASE phase \in After /\ ctxt.frames = <<>>
  BY <1>1, InvRest DEF vars, IndInv, Fetched
<1>2. CASE phase \in After /\ ctxt.frames # <<>>
  <2>1. phase = "copy" /\ ctxt.memo /\ Copying(Old(mem), ctxt, mem)
    BY <1>2 DEF IndInv, ValidContext, ValidCopy, PlainMeasured, After
  <2>2. Keeps(ctxt, ctxt)
    BY DEF Keeps
  <2>3. /\ UNCHANGED <<shm, entry, phase, stored, dst>> /\ ctxt' = ctxt /\ mem' = mem
    BY DEF vars
  <2>4. Copying(Old(mem), ctxt', mem') /\ Old(mem') = Old(mem) /\ Keeps(ctxt, ctxt')
    BY <2>1, <2>2, <2>3
  <2> QED
    BY <2>1, <2>3, <2>4, InvLoop
<1>3. CASE phase \in Before
  <2>1. mem = Old(mem)
    BY <1>3 DEF IndInv, ValidInput
  <2>2. /\ ctxt \in Contexts /\ ctxt.unmemoized
        /\ ctxt.memo => entry.val \in Node /\ mem[entry.val].kind = "array"
        /\ ctxt.use_serialization \/ phase = "recalc" =>
             entry.val \in Node /\ mem[entry.val].kind \in {"array", "object"}
        /\ phase = "block" => ctxt.frames = <<>>
        /\ phase \in {"calc", "block"} =>
             /\ ctxt.cur = 0
             /\ IF ctxt.memo THEN Calculating(mem, ctxt) /\ EntryMet(ctxt) ELSE PlainMeasured(mem, ctxt)
        /\ phase = "refused" => Resource \/ (SerializeFails /\ ctxt.use_serialization /\ ~ctxt.memo)
    BY <2>1 DEF IndInv, ValidContext, ValidSize, RefusedForCause, Resource
  <2>3. ctxt' = ctxt /\ phase' = phase /\ UNCHANGED <<mem, shm, entry>>
    BY DEF vars
  <2> QED
    BY <1>3, <2>2, <2>3, BeforeStep
<1> QED
  BY <1>1, <1>2, <1>3 DEF IndInv, ValidInput

LEMMA InvStep == IndInv /\ [Next]_vars => IndInv'
  BY InvCalc, InvCalcBucket, InvCalcReturn, InvRecalc, InvMalloc, InvCopy, InvCopyBucket,
     InvCopyReturn, InvCopyEnd, InvUnpersist, InvStutter DEF Next, Done

LEMMA InvAlways == Spec => []IndInv
  BY InvInit, InvStep, PTL DEF Spec

-----------------------------------------------------------------------------
(* What follows from it.                                                     *)

\* While the copy runs, and when it is complete.
LEMMA FitHolds == ASSUME IndInv PROVE ExactFit
<1>1. InputOK(Old(mem)) /\ ctxt.unmemoized
  BY DEF IndInv, ValidInput, ValidContext
<1>2. ASSUME phase = "copy" PROVE ctxt.cur <= ctxt.size
  <2>1. CASE ctxt.memo
    BY <1>1, <1>2, <2>1, CopyFits DEF IndInv, ValidCopy, After
  <2>2. CASE ~ctxt.memo
    <3>1. ctxt.cur = ctxt.size /\ ctxt.size \in Nat
      BY <1>2, <2>2, Fields DEF IndInv, ValidContext, ValidCopy, After, PlainCopied
    <3> QED
      BY <3>1
  <2> QED
    BY <2>1, <2>2
<1>3. ASSUME Kept PROVE ctxt.cur = ctxt.size
  <2>1. phase \in After /\ ctxt.frames = <<>>
    BY <1>3 DEF IndInv, ValidContext, Kept, After
  <2>2. CASE ctxt.memo
    <3>1. Copying(Old(mem), ctxt, mem) /\ EntryCopied(ctxt, stored) /\ entry.val \in Node
      BY <2>1, <2>2 DEF IndInv, ValidContext, ValidCopy
    <3> QED
      BY <1>1, <2>1, <3>1, CopyComplete DEF EntryCopied
  <2>3. CASE ~ctxt.memo
    BY <2>1, <2>3 DEF IndInv, ValidCopy, PlainCopied
  <2> QED
    BY <2>2, <2>3
<1>4. ASSUME Kept, stored.isptr PROVE KindOf(entry.val) \in {"array", "object"}
  <2>1. phase \in After
    BY <1>4 DEF Kept, After
  <2>2. ctxt.use_serialization
    <3>1. CASE ctxt.memo
      <4>1. stored.isptr = FALSE
        BY <2>1, <3>1 DEF IndInv, ValidCopy, EntryCopied
      <4> QED
        BY <1>4, <4>1
    <3>2. CASE ~ctxt.memo
      <4>1. stored.isptr = (ctxt.use_serialization /\ entry.val \in Node)
        BY <2>1, <3>2 DEF IndInv, ValidCopy, PlainCopied
      <4> QED
        BY <1>4, <4>1
    <3> QED
      BY <3>1, <3>2
  <2>3. entry.val \in Node /\ Old(mem)[entry.val].kind \in {"array", "object"}
    BY <2>2 DEF IndInv, ValidContext
  <2> QED
    BY <2>3, NodeRange DEF KindOf, IsNode, Old
<1> QED
  BY <1>1, <1>2, <1>3, <1>4 DEF ExactFit

\* The assertions of immutable_cache_persist and _alloc never fail: the copy
\* stays inside the block that calc has measured and fills it to the last byte,
\* whatever nodes the value shares, and serialization starts from nothing.
THEOREM AssertionsHold == Spec => []ExactFit
  BY InvAlways, FitHolds, PTL

\* What a copied pointer is: a copy, something in shared memory, or no pointer.
LEMMA ImageShared ==
  ASSUME NEW g, InputOK(g), NEW c, NEW m, Copying(g, c, m), NEW z, Met(Copied(c), z),
         z \in Node \/ ~IsNode(z)
  PROVE  Shared(Image(c, z))
<1>1. \A n \in Copied(c) : Base < Place(c, n) /\ Place(c, n) \in Nat
  BY CurIs DEF Copying, Placed
<1>2. CASE z \in Node \ shm
  BY <1>1, <1>2, PersistAssumption DEF Met, Image, Shared, InSma
<1>3. CASE z \notin Node \ shm
  BY <1>3 DEF Image, Shared, InSma
<1> QED
  BY <1>2, <1>3

\* Keys and values of buckets are nodes or no pointers.
LEMMA BucketPointers ==
  ASSUME NEW g, Graph(g), NEW n \in Node, NEW i \in DOMAIN g[n].buckets, g[n].buckets[i].val # Undef
  PROVE  \A z \in {g[n].buckets[i].key, g[n].buckets[i].val} : z \in Node \/ ~IsNode(z)
<1>1. /\ g[n].buckets[i].val \in Node \cup {Scalar, Indirect}
      /\ g[n].buckets[i].key = NoKey \/ g[n].buckets[i].key \in Node
  BY DEF Graph
<1> QED
  BY <1>1 DEF IsNode, Scalar, Indirect, NoKey

LEMMA SelfContainedHolds == ASSUME IndInv PROVE SelfContained
<1> SUFFICES ASSUME Kept
             PROVE /\ Shared(stored.key) /\ Shared(stored.val)
                   /\ \A n \in DOMAIN mem : InSma(n) =>
                        /\ mem[n].kind \in {"string", "array"}
                        /\ \A i \in DOMAIN mem[n].buckets :
                             LET b == mem[n].buckets[i] IN
                             b.val # Undef => Shared(b.key) /\ Shared(b.val)
  BY DEF SelfContained
<1> DEFINE g == Old(mem)
<1>1. InputOK(g) /\ phase \in After /\ ctxt.frames = <<>> /\ ctxt \in Contexts
  BY DEF IndInv, ValidInput, ValidContext, Kept, After
<1>2. /\ Graph(g) /\ Shareable(g, shm) /\ shm \subseteq Node /\ entry.key \in Node
      /\ entry.val \in Node \cup {Scalar}
  BY <1>1 DEF InputOK, Shareable
<1>3. \A n \in Node : g[n] = mem[n]
  BY DEF Old
<1> HIDE DEF g
<1>4. ASSUME NEW n \in shm
      PROVE /\ mem[n].kind \in {"string", "array"}
            /\ \A i \in DOMAIN mem[n].buckets :
                 LET b == mem[n].buckets[i] IN b.val # Undef => Shared(b.key) /\ Shared(b.val)
  <2>1. n \in Node /\ mem[n] = g[n] /\ g[n].kind \in {"string", "array"}
    BY <1>2, <1>3 DEF Shareable
  <2>2. ASSUME NEW i \in DOMAIN g[n].buckets, g[n].buckets[i].val # Undef,
               NEW z \in {g[n].buckets[i].key, g[n].buckets[i].val}
        PROVE  Shared(z)
    <3>1. z \in Node \/ ~IsNode(z)
      BY <1>2, <2>1, <2>2, BucketPointers
    <3>2. z \in Node => z \in shm
      BY <1>2, <2>2 DEF Shareable, Closed
    <3> QED
      BY <3>1, <3>2 DEF Shared, InSma
  <2> QED
    BY <2>1, <2>2
<1>5. \A n \in Node : InSma(n) => n \in shm
  BY InSmaNode
<1>6. CASE ctxt.memo
  <2>1. Copying(g, ctxt, mem) /\ EntryCopied(ctxt, stored) /\ entry.val \in Node
    BY <1>1, <1>6 DEF IndInv, ValidContext, ValidCopy, g
  <2>2. /\ stored.key = Image(ctxt, entry.key) /\ stored.val = Image(ctxt, entry.val)
        /\ Met(Copied(ctxt), entry.key) /\ Met(Copied(ctxt), entry.val)
    BY <2>1 DEF EntryCopied
  <2>3. Shared(stored.key) /\ Shared(stored.val)
    BY <1>1, <1>2, <2>1, <2>2, ImageShared
  <2>4. \A n \in Copied(ctxt) : \A i \in DOMAIN g[n].buckets :
          BucketCopied(ctxt, g[n].buckets[i], mem[Place(ctxt, n)].buckets[i])
    BY <1>1, <2>1, <2>2, CopyComplete
  <2>5. ASSUME NEW x \in Copied(ctxt)
        PROVE /\ mem[Place(ctxt, x)].kind \in {"string", "array"}
              /\ \A i \in DOMAIN mem[Place(ctxt, x)].buckets :
                   LET b == mem[Place(ctxt, x)].buckets[i] IN b.val # Undef => Shared(b.key) /\ Shared(b.val)
    <3>1. x \in Node /\ x \in Visited(ctxt)
      BY <2>1 DEF Copied, Copying, Placed
    <3>2. /\ mem[Place(ctxt, x)].kind = g[x].kind
          /\ DOMAIN mem[Place(ctxt, x)].buckets = DOMAIN g[x].buckets
      BY <2>1 DEF Copying, Faithful
    <3>3. g[x].kind \in {"string", "array"}
      BY <2>1, <3>1 DEF Copying, Measured
    <3>4. ASSUME NEW i \in DOMAIN g[x].buckets, mem[Place(ctxt, x)].buckets[i].val # Undef
          PROVE /\ Shared(mem[Place(ctxt, x)].buckets[i].key)
                /\ Shared(mem[Place(ctxt, x)].buckets[i].val)
      <4> DEFINE b == g[x].buckets[i]
                 d == mem[Place(ctxt, x)].buckets[i]
      <4>1. BucketCopied(ctxt, b, d)
        BY <2>4, <3>4
      <4>2. /\ b.val # Undef /\ Met(Copied(ctxt), b.key) /\ Met(Copied(ctxt), b.val)
            /\ d.key = Image(ctxt, b.key) /\ d.val = Image(ctxt, b.val)
        BY <3>4, <4>1 DEF BucketCopied
      <4>3. \A z \in {b.key, b.val} : z \in Node \/ ~IsNode(z)
        BY <1>2, <3>1, <3>4, <4>2, BucketPointers
      <4> QED
        BY <1>1, <2>1, <4>2, <4>3, ImageShared
    <3> QED
      BY <3>2, <3>3, <3>4
  <2>6. \A n \in DOMAIN mem : n \in Node \/ \E x \in Copied(ctxt) : n = Place(ctxt, x)
    BY <2>1 DEF Copying, Placed
  <2> QED
    BY <1>4, <1>5, <2>3, <2>5, <2>6
<1>7. CASE ~ctxt.memo
  <2>1. PlainCopied(g, ctxt, mem, stored)
    BY <1>1, <1>7 DEF IndInv, ValidCopy, g
  <2>2. \A a \in DOMAIN mem \ Node : a \in Nat /\ a > Base /\ mem[a].kind = "string" /\ mem[a].buckets = <<>>
    <3>1. Base \in Nat
      BY PersistAssumption
    <3> QED
      BY <2>1, <3>1 DEF PlainCopied, Strings
  <2>3. \A a \in DOMAIN mem \ Node : Shared(a)
    BY <2>2 DEF Shared, InSma
  <2>4. \A n \in shm : Shared(n)
    BY DEF Shared, InSma
  <2>5. Shared(Scalar)
    BY DEF Shared, IsNode, Scalar
  <2>6. Shared(stored.key) /\ Shared(stored.val)
    BY <2>1, <2>3, <2>4, <2>5 DEF PlainCopied, StringCopied
  <2> QED
    BY <1>4, <1>5, <2>2, <2>6
<1> QED
  BY <1>6, <1>7

\* No pointer into the request that stored it survives in an entry: whatever
\* it leads to is a string or an array of shared memory.
THEOREM EntriesAreSelfContained == Spec => []SelfContained
  BY InvAlways, SelfContainedHolds, PTL

\* A value is refused because of a resource in it or because its serializer
\* failed, and for nothing else.
THEOREM RefusalHasCause == Spec => []RefusedForCause
<1>1. IndInv => RefusedForCause
  BY DEF IndInv
<1> QED
  BY <1>1, InvAlways, PTL

\* Storing a value changes neither it nor what shared memory holds: persist
\* writes to its own block only, although copy_ht starts from a copy that has
\* the pointers of the original.
THEOREM OnlyTheBlockIsWritten == Spec => [][\A n \in Node : mem'[n] = mem[n]]_vars
<1>1. IndInv /\ [Next]_vars => [\A n \in Node : mem'[n] = mem[n]]_vars
  <2> SUFFICES ASSUME IndInv, Next PROVE \A n \in Node : mem'[n] = mem[n]
    BY DEF vars
  <2>1. CASE Copy \/ CopyBucket
    <3>1. Old(mem') = Old(mem)
      BY <2>1, InvCopy, InvCopyBucket
    <3> QED
      BY <3>1 DEF Old
  <2>2. CASE ~Copy /\ ~CopyBucket
    <3>1. mem' = mem
      BY <2>2 DEF Next, Calc, CalcBucket, CalcReturn, Recalc, Malloc, CopyReturn, CopyEnd, Unpersist,
                  Done, vars
    <3> QED
      BY <3>1
  <2> QED
    BY <2>1, <2>2
<1> QED
  BY <1>1, InvInit, InvStep, PTL DEF Spec

\* Nodes that were shared already are like themselves.
LEMMA SharedAlike ==
  ASSUME InputOK(Old(mem)), NEW R, \A n \in shm : <<n, n>> \in R, NEW x \in shm
  PROVE  Alike(R, x, x)
<1> DEFINE g == Old(mem)
<1>1. Graph(g) /\ Shareable(g, shm) /\ x \in Node /\ mem[x] = g[x]
  BY DEF InputOK, Shareable, Old
<1> HIDE DEF g
<1>2. IsNode(x)
  BY <1>1, NodeRange DEF IsNode
<1>3. ASSUME NEW i \in DOMAIN g[x].buckets, g[x].buckets[i].val # Undef,
             NEW z \in {g[x].buckets[i].key, g[x].buckets[i].val}
      PROVE  <<z, z>> \in R \/ ~IsNode(z)
  <2>1. z \in Node \/ ~IsNode(z)
    BY <1>1, <1>3, BucketPointers
  <2>2. z \in Node => z \in shm
    BY <1>1, <1>3 DEF Shareable, Closed
  <2> QED
    BY <2>1, <2>2
<1> QED
  BY <1>1, <1>2, <1>3 DEF Alike

\* So are copies and what they were copied from.
LEMMA CopyAlike ==
  ASSUME NEW g, InputOK(g), g = Old(mem), NEW c, Copying(g, c, mem), NEW R,
         \A n \in shm : <<n, n>> \in R, \A n \in Copied(c) : <<n, Place(c, n)>> \in R,
         NEW x \in Copied(c),
         \A i \in DOMAIN g[x].buckets : BucketCopied(c, g[x].buckets[i], mem[Place(c, x)].buckets[i])
  PROVE  Alike(R, x, Place(c, x))
<1> DEFINE y == Place(c, x)
<1>1. Graph(g) /\ x \in Node /\ mem[x] = g[x]
  BY DEF InputOK, Old, Copied
<1>2. IsNode(x) /\ IsNode(y)
  <2>1. Base < y /\ y \in Nat /\ Base \in Nat
    BY CurIs, PersistAssumption DEF Copying, Placed
  <2> QED
    BY <1>1, <2>1, NodeRange DEF IsNode
<1>3. mem[y].kind = g[x].kind /\ mem[y].text = g[x].text /\ DOMAIN mem[y].buckets = DOMAIN g[x].buckets
  BY DEF Copying, Faithful
<1> HIDE DEF y
<1>4. ASSUME NEW i \in DOMAIN g[x].buckets
      PROVE LET b == g[x].buckets[i]
                d == mem[y].buckets[i]
            IN  IF b.val = Undef THEN d.val = Undef
                ELSE \A t \in {<<b.key, d.key>>, <<b.val, d.val>>} :
                       t \in R \/ (t[1] = t[2] /\ ~IsNode(t[1]))
  <2> DEFINE b == g[x].buckets[i]
             d == mem[y].buckets[i]
  <2>1. BucketCopied(c, b, d)
    BY DEF y
  <2>2. CASE b.val = Undef
    BY <2>1, <2>2 DEF BucketCopied
  <2>3. CASE b.val # Undef
    <3>1. /\ Met(Copied(c), b.key) /\ Met(Copied(c), b.val)
          /\ d.key = Image(c, b.key) /\ d.val = Image(c, b.val)
      BY <2>1, <2>3 DEF BucketCopied
    <3>2. \A z \in {b.key, b.val} : z \in Node \/ ~IsNode(z)
      BY <1>1, <2>3, BucketPointers
    <3>3. ASSUME NEW z, Met(Copied(c), z), z \in Node \/ ~IsNode(z)
          PROVE <<z, Image(c, z)>> \in R \/ (z = Image(c, z) /\ ~IsNode(z))
      BY <3>3 DEF Met, Image
    <3> HIDE DEF b, d
    <3>4. /\ <<b.key, d.key>> \in R \/ (b.key = d.key /\ ~IsNode(b.key))
          /\ <<b.val, d.val>> \in R \/ (b.val = d.val /\ ~IsNode(b.val))
      BY <3>1, <3>2, <3>3
    <3>5. \A t \in {<<b.key, d.key>>, <<b.val, d.val>>} : t \in R \/ (t[1] = t[2] /\ ~IsNode(t[1]))
      BY <3>4
    <3> QED
      BY <2>3, <3>5 DEF b, d
  <2> QED
    BY <2>2, <2>3
<1>5. Alike(R, x, y)
  BY <1>1, <1>2, <1>3, <1>4 DEF Alike
<1> QED
  BY <1>5 DEF y

\* And strings that were copied by themselves.
LEMMA StringAlike ==
  ASSUME NEW g, InputOK(g), g = Old(mem), NEW R, NEW c, Strings(c, mem),
         \A n \in shm : <<n, n>> \in R, NEW s \in Node, g[s].kind = "string",
         NEW z, StringCopied(g, mem, s, z)
  PROVE  Alike(R, s, z)
<1>1. CASE s \in shm /\ z = s
  BY <1>1, SharedAlike
<1>2. CASE s \notin shm /\ z \in DOMAIN mem \ Node /\ mem[z].text = g[s].text
  <2>1. /\ mem[s] = g[s] /\ g[s].buckets = <<>> /\ mem[z].kind = "string" /\ mem[z].buckets = <<>>
    BY <1>2 DEF InputOK, Graph, Strings, Old
  <2>2. IsNode(s) /\ IsNode(z)
    <3>1. z \in Nat /\ Base < z /\ Base \in Nat
      BY <1>2, PersistAssumption DEF Strings
    <3> QED
      BY <3>1, NodeRange DEF IsNode
  <2> QED
    BY <1>2, <2>1, <2>2 DEF Alike
<1> QED
  BY <1>1, <1>2 DEF StringCopied

LEMMA RoundTripHolds == ASSUME IndInv PROVE RoundTrip
<1> SUFFICES ASSUME Kept, NEW t \in Twins
             PROVE Alike(Twins, t[1], t[2]) \/ (stored.isptr /\ t = <<entry.val, stored.val>>)
  BY DEF IndInv, Fetched, RoundTrip
<1> DEFINE g == Old(mem)
           R == Twins
<1>1. InputOK(g) /\ phase \in After /\ ctxt.frames = <<>> /\ ctxt \in Contexts
  BY DEF IndInv, ValidInput, ValidContext, Kept, After
<1>2. entry.key \in Node /\ g[entry.key].kind = "string" /\ entry.val \in Node \cup {Scalar}
  BY <1>1 DEF InputOK
<1>3. /\ \A n \in shm : <<n, n>> \in R
      /\ \A n \in Copied(ctxt) : <<n, Place(ctxt, n)>> \in R
      /\ \/ \E n \in shm : t = <<n, n>>
         \/ \E n \in Copied(ctxt) : t = <<n, Place(ctxt, n)>>
         \/ t = <<entry.key, stored.key>> \/ t = <<entry.val, stored.val>>
  BY DEF Twins, Copied, Place
<1> HIDE DEF g, R
<1>4. \A n \in shm : Alike(R, n, n)
  BY <1>1, <1>3, SharedAlike DEF g
<1>5. CASE ctxt.memo
  <2>1. Copying(g, ctxt, mem) /\ EntryCopied(ctxt, stored) /\ entry.val \in Node
    BY <1>1, <1>5 DEF IndInv, ValidContext, ValidCopy, g
  <2>2. /\ stored.key = Image(ctxt, entry.key) /\ stored.val = Image(ctxt, entry.val)
        /\ Met(Copied(ctxt), entry.key) /\ Met(Copied(ctxt), entry.val)
    BY <2>1 DEF EntryCopied
  <2>3. \A n \in Copied(ctxt) : \A i \in DOMAIN g[n].buckets :
          BucketCopied(ctxt, g[n].buckets[i], mem[Place(ctxt, n)].buckets[i])
    BY <1>1, <2>1, <2>2, CopyComplete
  <2>4. \A n \in Copied(ctxt) : Alike(R, n, Place(ctxt, n))
    BY <1>1, <1>3, <2>1, <2>3, CopyAlike DEF g
  <2>5. Alike(R, entry.key, stored.key) /\ Alike(R, entry.val, stored.val)
    BY <1>2, <1>4, <2>1, <2>2, <2>4 DEF Met, Image
  <2> QED
    BY <1>3, <1>4, <2>4, <2>5 DEF R
<1>6. CASE ~ctxt.memo
  <2>1. PlainMeasured(g, ctxt) /\ PlainCopied(g, ctxt, mem, stored)
    BY <1>1, <1>6 DEF IndInv, ValidCopy, g
  <2>2. Copied(ctxt) = {}
    BY <2>1, NodeRange DEF PlainMeasured, Copied, Place
  <2>3. Strings(ctxt, mem) /\ StringCopied(g, mem, entry.key, stored.key)
    BY <2>1 DEF PlainCopied
  <2>4. Alike(R, entry.key, stored.key)
    BY <1>1, <1>2, <1>3, <2>3, StringAlike DEF g
  <2>5. Alike(R, entry.val, stored.val) \/ stored.isptr
    <3>1. CASE entry.val = Scalar /\ stored.val = Scalar
      BY <3>1 DEF Alike, IsNode, Scalar
    <3>2. CASE entry.val \in Node /\ ctxt.use_serialization
      BY <2>1, <3>2 DEF PlainCopied
    <3>3. CASE entry.val \in Node /\ g[entry.val].kind = "string" /\ StringCopied(g, mem, entry.val, stored.val)
      BY <1>1, <1>3, <2>3, <3>3, StringAlike DEF g
    <3>4. CASE entry.val \in shm /\ stored.val = entry.val
      BY <1>4, <3>4
    <3> QED
      BY <2>1, <3>1, <3>2, <3>3, <3>4 DEF PlainCopied
  <2> QED
    BY <1>3, <1>4, <2>2, <2>4, <2>5 DEF R
<1> QED
  BY <1>5, <1>6

\* What is fetched equals what was stored: the stored graph and the original
\* are bisimilar, key and value, or the value went through the serializer.
THEOREM StoredEqualsOriginal == Spec => []RoundTrip
  BY InvAlways, RoundTripHolds, PTL
=============================================================================
