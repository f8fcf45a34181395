------------------------------- MODULE Persist -------------------------------
(* immutable_cache_persist and immutable_cache_unpersist: a PHP value, a      *)
(* graph of strings and arrays that may share nodes, is measured, gets one    *)
(* block of shared memory, and is copied into it; what is in shared memory    *)
(* already is pointed to instead.  Values that hold objects or references are *)
(* serialized as a whole.                                                     *)
(*                                                                            *)
(* A node is a zend_string, HashTable, object, reference or resource.  Node   *)
(* numbers stand for addresses; new nodes are numbered by their offset in the *)
(* block.  Arrays are lists of buckets; integer keys have the key NoKey.      *)
(*                                                                            *)
(* One step measures or copies one bucket, key and value; the arrays whose    *)
(* loops are running are the frames of the context, the innermost one last.   *)
EXTENDS Integers, Sequences, FiniteSets, Sums

CONSTANTS
  Node,            \* nodes of the request's heap and of shared memory
  Inputs,          \* what may be stored: sets of [mem, shm, key, val]
  Serializers,     \* which of {TRUE, FALSE}: immutable_cache.serializer names one
  SerializeFails,  \* serialization may fail
  MemoryFails,     \* the allocator may refuse
  Base,            \* address of the new block
  Spread           \* 2^(w-3) for a zend_ulong of w bits

Scalar   == 0      \* a zval below IS_STRING: no data of its own; NULL
Undef    == -1     \* a deleted bucket
Indirect == -2     \* a slot of $GLOBALS
NoKey    == 0

\* Sizes, chosen so that no two sets of parts add up to the same size.
EntrySize      == 1
HtSize         == 100
StrSize        == 10
HtUsedSize(n)  == 1000 * n
SerializedSize == 7

Kinds   == {"string", "array", "object", "reference", "resource"}
Buckets == [key : Int, val : Int]
Cells   == [kind : Kinds, buckets : Seq(Buckets), text : Int]

\* C holds what its arrays hold; nobody follows a deleted bucket.
Closed(m, C) ==
  \A n \in C : \A i \in DOMAIN m[n].buckets :
    LET b == m[n].buckets[i] IN b.val # Undef => {b.key, b.val} \cap Node \subseteq C

\* Graphs of values: arrays have buckets, whose keys are strings.
Graph(m) ==
  /\ m \in [Node -> Cells]
  /\ \A n \in Node : m[n].kind # "array" => m[n].buckets = <<>>
  /\ \A n \in Node : \A i \in DOMAIN m[n].buckets :
       LET b == m[n].buckets[i] IN
       \/ b.val = Undef
       \/ /\ b.val \in Node \cup {Scalar, Indirect}
          /\ b.key = NoKey \/ (b.key \in Node /\ m[b.key].kind = "string")

\* Shared memory holds what earlier calls have stored: strings and arrays of
\* shared memory only.
Shareable(m, S) ==
  /\ S \subseteq Node /\ Closed(m, S)
  /\ \A n \in S : m[n].kind \in {"string", "array"}
  /\ \A n \in S : \A i \in DOMAIN m[n].buckets : m[n].buckets[i].val # Indirect

\* The top-level value is never a reference: arguments are passed by value.
ASSUME PersistAssumption ==
  /\ Base \in Nat /\ Node \subseteq 1 .. Base - 1
  /\ Spread \in Nat /\ Base <= 8 * Spread
  /\ Serializers \subseteq BOOLEAN
  /\ SerializeFails \in BOOLEAN /\ MemoryFails \in BOOLEAN
  /\ \A i \in Inputs :
       /\ Graph(i.mem) /\ Shareable(i.mem, i.shm)
       /\ i.key \in Node /\ i.mem[i.key].kind = "string"
       /\ i.val \in Node \cup {Scalar}
       /\ i.val \in Node => i.mem[i.val].kind # "reference"

VARIABLES
  mem,             \* mem[n]: kind of node n, its buckets, its characters
  shm,             \* the nodes that are in shared memory already
  entry,           \* orig_entry: its key and value
  serializer,      \* a serializer is set ("default" sets none)
  phase, ctxt, stored, dst

vars  == <<mem, shm, entry, serializer, phase, ctxt, stored, dst>>
input == <<shm, entry, serializer>>

IsNode(z) == z > 0
KindOf(z) == IF IsNode(z) THEN mem[z].kind ELSE "scalar"

\* immutable_cache_sma_contains_pointer: earlier blocks and the new one.
InSma(z) == z \in shm \/ z > Base

-----------------------------------------------------------------------------
(* Measuring: immutable_cache_persist_calc.                                  *)

\* Variant: the low bits of an address are lost.
HashKey_shift(n) == n \div 8
\* immutable_cache_pointer_to_hash_key: an address rotated by 3 bits.
HashKey(n) == (n \div 8) + (n % 8) * Spread
HashKeys == {HashKey(n) : n \in Node}

\* immutable_cache_persist_init_context; ok is what the calc functions return
\* and unmemoized what calc_serialize asserts.
Context(memo, ser) ==
  [memo |-> memo, use_serialization |-> ser, size |-> 0, counted |-> {},
   ok |-> TRUE, unmemoized |-> TRUE, cur |-> 0,
   allocated |-> [h \in HashKeys |-> Scalar], frames |-> <<>>]

AddSize(c, n) == [c EXCEPT !.size = @ + n]
Fail(c) == [c EXCEPT !.ok = FALSE]

\* An object, a reference or $GLOBALS: start again, with serialization.
FallBack(c) == Fail([c EXCEPT !.use_serialization = TRUE])

\* A loop over buckets begins, ends, or has done the bucket of frame l.
Enter(c, ht) == [c EXCEPT !.frames = Append(@, [ht |-> ht, i |-> 1])]
Leave(c) == [c EXCEPT !.frames = SubSeq(@, 1, Len(@) - 1)]
Advance(c, l) == [c EXCEPT !.frames[l].i = @ + 1]

\* immutable_cache_persist_calc_memoize: whether n is known, and c afterwards.
Known(c, n) == c.memo /\ HashKey(n) \in c.counted
Memoize(c, n) == IF c.memo THEN [c EXCEPT !.counted = @ \cup {HashKey(n)}] ELSE c

\* Variant: keys are counted without being memoized.
calc_str_plain(c, s) == IF InSma(s) THEN c ELSE AddSize(c, StrSize)
calc_str(c, s) ==
  IF InSma(s) \/ Known(c, s) THEN c ELSE AddSize(Memoize(c, s), StrSize)

\* The serializer that is set, or PHP's own: it measures the top-level
\* value as one string, or fails.
calc_serialize(c, works) ==
  IF works
  THEN AddSize([c EXCEPT !.unmemoized = @ /\ ~c.memo], StrSize + SerializedSize)
  ELSE Fail(c)

\* immutable_cache_persist_calc_ht up to its loop.
calc_ht(c, ht) ==
  LET n == Len(mem[ht].buckets) IN
  IF n = 0 THEN AddSize(c, HtSize) ELSE Enter(AddSize(c, HtSize + HtUsedSize(n)), ht)

calc_zval(c, z, works) ==
  IF ~IsNode(z) THEN c
  ELSE IF c.use_serialization THEN calc_serialize(c, works)
  ELSE IF InSma(z) \/ Known(c, z) THEN c
  ELSE LET d == Memoize(c, z) IN
       CASE mem[z].kind = "string" -> AddSize(d, StrSize)
         [] mem[z].kind = "array"  -> calc_ht(d, z)
         [] mem[z].kind \in {"reference", "object"} -> FallBack(d)
         [] mem[z].kind = "resource" -> Fail(d)

\* The body of its loop.
calc_bucket(c, b, works) ==
  CASE b.val = Undef    -> c
    [] b.val = Indirect -> FallBack(c)
    [] OTHER -> calc_zval(IF b.key = NoKey THEN c ELSE calc_str(c, b.key), b.val, works)

persist_calc(c, works) ==
  calc_zval(calc_str(AddSize(c, EntrySize), entry.key), entry.val, works)

-----------------------------------------------------------------------------
(* Copying: immutable_cache_persist_copy.  A copy is a context, the memory    *)
(* and the pointer that was copied.                                           *)

\* immutable_cache_persist_alloc: the node at the address.
Alloc(c, m, n, node) ==
  LET a == Base + c.cur IN
  [c |-> [c EXCEPT !.cur = @ + n],
   m |-> [x \in DOMAIN m \cup {a} |-> IF x = a THEN node ELSE m[x]],
   ptr |-> a]

\* immutable_cache_persist_get_already_allocated; Scalar for NULL.
GetAlreadyAllocated(c, n) ==
  IF InSma(n) THEN n ELSE IF c.memo THEN c.allocated[HashKey(n)] ELSE Scalar

AddAlreadyAllocated(c, old, new) ==
  IF c.memo THEN [c EXCEPT !.allocated[HashKey(old)] = new] ELSE c

Same(c, m, z) == [c |-> c, m |-> m, ptr |-> z]

\* immutable_cache_persist_get_or_copy_zstr.
copy_zstr(c, m, s) ==
  IF GetAlreadyAllocated(c, s) # Scalar
  THEN Same(c, m, GetAlreadyAllocated(c, s))
  ELSE LET r == Alloc(c, m, StrSize, m[s])
       IN  [r EXCEPT !.c = AddAlreadyAllocated(@, s, r.ptr)]

\* immutable_cache_persist_copy_ht up to its loop: the bitwise copy of the
\* header and of the buckets.
copy_ht(c, m, z) ==
  LET n == Len(m[z].buckets)
      r == Alloc(c, m, HtSize + HtUsedSize(n), m[z])
      d == AddAlreadyAllocated(r.c, z, r.ptr)
  IN  [r EXCEPT !.c = IF n = 0 THEN d ELSE Enter(d, r.ptr)]

\* immutable_cache_persist_copy_zval, _impl.
copy_zval(c, m, z) ==
  IF ~IsNode(z) THEN Same(c, m, z)
  ELSE IF GetAlreadyAllocated(c, z) # Scalar THEN Same(c, m, GetAlreadyAllocated(c, z))
  ELSE IF m[z].kind = "string" THEN copy_zstr(c, m, z)
  ELSE copy_ht(c, m, z)

\* Variant: keys stay where they were.
copy_key_not(c, m, k) == Same(c, m, k)
copy_key(c, m, k) == IF k = NoKey THEN Same(c, m, NoKey) ELSE copy_zstr(c, m, k)

\* The body of the loop of copy_ht, at frame l: key first, then value.  The
\* bucket gets the address of the copy of its value, whose own loop, if it is
\* an array, runs next.
copy_bucket(c, m, l) ==
  LET f == c.frames[l]
      b == m[f.ht].buckets[f.i]
      k == copy_key(c, m, b.key)
      v == copy_zval(k.c, k.m, b.val)
  IN  IF b.val = Undef THEN Same(c, m, f.ht)
      ELSE [v EXCEPT !.m = [@ EXCEPT ![f.ht].buckets[f.i] = [key |-> k.ptr, val |-> v.ptr]]]

\* immutable_cache_persist_copy_serialize: a string that stands for value z.
copy_serialize(c, m, z) ==
  Alloc(c, m, StrSize + SerializedSize, [kind |-> "string", buckets |-> <<>>, text |-> -z])

-----------------------------------------------------------------------------
NoStored == [key |-> Scalar, val |-> Scalar, isptr |-> FALSE]

Init ==
  /\ \E i \in Inputs :
       mem = i.mem /\ shm = i.shm /\ entry = [key |-> i.key, val |-> i.val]
  /\ serializer \in Serializers
  /\ phase = "start" /\ ctxt = Context(FALSE, FALSE)
  /\ stored = NoStored /\ dst = Scalar

\* Variant: a first calc that failed is not tried again with serialization.
AfterCalc_once(c) == IF c.ok THEN "calc" ELSE "refused"
\* What immutable_cache_persist does about the result of the first calc.
AfterCalc(c) ==
  CASE c.ok -> "calc"
    [] ~c.ok /\ c.use_serialization -> "recalc"
    [] OTHER -> "refused"

FirstContext ==
  Context(~serializer /\ KindOf(entry.val) = "array",
          KindOf(entry.val) = "object" \/ (serializer /\ KindOf(entry.val) = "array"))

\* immutable_cache_persist up to the first calc, and what follows its failure.
Calc ==
  /\ phase = "start"
  /\ \E works \in {TRUE, ~SerializeFails} : ctxt' = persist_calc(FirstContext, works)
  /\ phase' = AfterCalc(ctxt')
  /\ UNCHANGED <<mem, input, stored, dst>>

\* The bucket of the innermost loop, if it is not at its end.
Top(c) == Len(c.frames)
AtEnd(c) == c.frames[Top(c)].i > Len(mem[c.frames[Top(c)].ht].buckets)

CalcBucket ==
  /\ phase = "calc" /\ ctxt.frames # <<>> /\ ~AtEnd(ctxt)
  /\ LET f == ctxt.frames[Top(ctxt)] IN
     \E works \in {TRUE, ~SerializeFails} :
       ctxt' = Advance(calc_bucket(ctxt, mem[f.ht].buckets[f.i], works), Top(ctxt))
  /\ phase' = AfterCalc(ctxt')
  /\ UNCHANGED <<mem, input, stored, dst>>

CalcReturn ==
  /\ phase = "calc" /\ ctxt.frames # <<>> /\ AtEnd(ctxt)
  /\ ctxt' = Leave(ctxt)
  /\ UNCHANGED <<mem, input, phase, stored, dst>>

\* Try again with serialization.
Recalc ==
  /\ phase = "recalc"
  /\ \E works \in {TRUE, ~SerializeFails} : ctxt' = persist_calc(Context(FALSE, TRUE), works)
  /\ phase' = IF ctxt'.ok THEN "calc" ELSE "refused"
  /\ UNCHANGED <<mem, input, stored, dst>>

Malloc ==
  /\ phase = "calc" /\ ctxt.frames = <<>>
  /\ \/ phase' = "block"
     \/ MemoryFails /\ phase' = "nomemory"
  /\ UNCHANGED <<mem, input, ctxt, stored, dst>>

\* immutable_cache_persist_copy up to the loop over the top-level array.
Copy ==
  /\ phase = "block"
  /\ LET e == [ctxt EXCEPT !.cur = @ + EntrySize]
         k == copy_zstr(e, mem, entry.key)
         ser == ctxt.use_serialization /\ IsNode(entry.val)
         v == IF ser THEN copy_serialize(k.c, k.m, entry.val)
                     ELSE copy_zval(k.c, k.m, entry.val)
     IN  /\ ctxt' = v.c /\ mem' = v.m
         /\ stored' = [key |-> k.ptr, val |-> v.ptr, isptr |-> ser]
  /\ phase' = "copy"
  /\ UNCHANGED <<input, dst>>

CopyBucket ==
  /\ phase = "copy" /\ ctxt.frames # <<>> /\ ~AtEnd(ctxt)
  /\ LET r == copy_bucket(ctxt, mem, Top(ctxt)) IN
     ctxt' = Advance(r.c, Top(ctxt)) /\ mem' = r.m
  /\ UNCHANGED <<input, phase, stored, dst>>

CopyReturn ==
  /\ phase = "copy" /\ ctxt.frames # <<>> /\ AtEnd(ctxt)
  /\ ctxt' = Leave(ctxt)
  /\ UNCHANGED <<mem, input, phase, stored, dst>>

CopyEnd ==
  /\ phase = "copy" /\ ctxt.frames = <<>>
  /\ phase' = "stored"
  /\ UNCHANGED <<mem, input, ctxt, stored, dst>>

\* immutable_cache_unpersist: unserialize, or hand out the shared nodes.
Unpersist ==
  /\ phase = "stored"
  /\ \/ stored.isptr /\ dst' = -mem[stored.val].text
     \/ stored.isptr /\ SerializeFails /\ dst' = Scalar
     \/ ~stored.isptr /\ dst' = stored.val
  /\ phase' = "fetched"
  /\ UNCHANGED <<mem, input, ctxt, stored>>

Done == phase \in {"refused", "nomemory", "fetched"} /\ UNCHANGED vars

Next ==
  \/ Calc \/ CalcBucket \/ CalcReturn \/ Recalc \/ Malloc
  \/ Copy \/ CopyBucket \/ CopyReturn \/ CopyEnd \/ Unpersist \/ Done

Spec == Init /\ [][Next]_vars

-----------------------------------------------------------------------------
(* Properties.                                                               *)

Kept == phase \in {"stored", "fetched"}

\* The assertions of immutable_cache_persist and _alloc: copying never runs
\* past the block that calc has measured and fills it exactly, and only an
\* unmemoized array or object is serialized.
ExactFit ==
  /\ phase = "copy" => ctxt.cur <= ctxt.size
  /\ Kept => ctxt.cur = ctxt.size
  /\ ctxt.unmemoized
  /\ Kept /\ stored.isptr => KindOf(entry.val) \in {"array", "object"}

\* A stored entry leads to shared memory only, to strings and arrays only: no
\* pointer into the request that stored it survives (copy_ht starts from a
\* bitwise copy).
Shared(z) == IsNode(z) => InSma(z)
SelfContained ==
  Kept =>
    /\ Shared(stored.key) /\ Shared(stored.val)
    /\ \A n \in DOMAIN mem : InSma(n) =>
         /\ mem[n].kind \in {"string", "array"}
         /\ \A i \in DOMAIN mem[n].buckets :
              LET b == mem[n].buckets[i] IN b.val # Undef => Shared(b.key) /\ Shared(b.val)

\* What a stored node stands for: itself, or the node it was copied from.
Twins ==
  {<<n, n>> : n \in shm}
    \cup {<<n, ctxt.allocated[HashKey(n)]>> : n \in {x \in Node : ctxt.allocated[HashKey(x)] # Scalar}}
    \cup {<<entry.key, stored.key>>, <<entry.val, stored.val>>}

\* Twins look alike: the same scalar, or the same kind and characters, and
\* bucket for bucket deleted alike or twins again.
Alike(R, x, y) ==
  IF ~IsNode(x) THEN y = x
  ELSE /\ IsNode(y) /\ mem[y].kind = mem[x].kind /\ mem[y].text = mem[x].text
       /\ DOMAIN mem[y].buckets = DOMAIN mem[x].buckets
       /\ \A i \in DOMAIN mem[x].buckets :
            LET b == mem[x].buckets[i]
                d == mem[y].buckets[i]
            IN  IF b.val = Undef THEN d.val = Undef
                ELSE \A t \in {<<b.key, d.key>>, <<b.val, d.val>>} :
                       t \in R \/ (t[1] = t[2] /\ ~IsNode(t[1]))

\* What is fetched equals what was stored, key and value, however its nodes are
\* shared, unless it came through the serializer, and then it is what was
\* serialized or nothing: twins are bisimilar (immutable_cache_persist,
\* immutable_cache_unpersist).
RoundTrip ==
  /\ phase = "fetched" => dst \in IF stored.isptr THEN {entry.val, Scalar} ELSE {stored.val}
  /\ Kept => \A t \in Twins :
       Alike(Twins, t[1], t[2]) \/ (stored.isptr /\ t = <<entry.val, stored.val>>)

\* Nodes that z leads to: those in every closed set that z is in.
Reach(m, z) == {n \in Node : \A C \in SUBSET Node : z \in C /\ Closed(m, C) => n \in C}

\* Measuring refuses a value for one of two causes: it holds a resource, or the
\* serializer it was handed to failed.  An object or reference below the top
\* level is no cause: the second calc, which does not memoize, serializes the
\* value as a whole.
RefusedForCause ==
  phase = "refused" =>
    \/ \E n \in Reach(mem, entry.val) : mem[n].kind = "resource"
    \/ SerializeFails /\ ctxt.use_serialization /\ ~ctxt.memo
=============================================================================
