-------------------------------- MODULE Api --------------------------------
(* immutable_cache_add, immutable_cache_fetch and immutable_cache_exists with *)
(* an array of keys.  Such a call is a loop of calls of the cache, each of    *)
(* them atomic (module Cache implements ImmutableMap) and interleaved with    *)
(* those of the other workers; what the script gets is the PHP array that the *)
(* loop has built.                                                            *)
EXTENDS Integers, Sequences, SequencesExt, Functions

CONSTANTS
  Worker, Key, None,
  MinusOne, True,  \* PHP values: the mark of a failed key, of an existing one
  NotString,       \* an element of the list that is not a string
  MaxLen,          \* bound: elements of the array that is passed
  MaxCalls         \* bound: calls of a worker

ASSUME ApiAssumption ==
  /\ None \notin Key /\ NotString \notin Key
  /\ MaxLen \in Nat /\ MaxCalls \in Nat
  /\ \A w \in Worker, n \in 0 .. MaxCalls : None # <<w, n>>

VARIABLES
  map,             \* the shared cache: the value of each key, or None
  call,            \* call[w]: the call in progress
  todo,            \* todo[w]: elements its loop has not reached
  result,          \* result[w]: buckets of return_value, in order
  before,          \* history: keys that were cached when the call began
  unread,          \* history: keys whose lookup failed in the call
  ncalls           \* calls begun by each worker (bound)

vars == <<map, call, todo, result, before, unread, ncalls>>

Ops    == {"add", "fetch", "exists"}
NoCall == [op |-> None, keys |-> <<>>]

\* The value a worker adds tells which call it came from.
Value(w) == <<w, ncalls[w]>>

Cached == {k \in Key : map[k] # None}

Init ==
  /\ map = [k \in Key |-> None]
  /\ call = [w \in Worker |-> NoCall]
  /\ todo = [w \in Worker |-> <<>>]
  /\ result = [w \in Worker |-> <<>>]
  /\ before = [w \in Worker |-> {}] /\ unread = [w \in Worker |-> {}]
  /\ ncalls = [w \in Worker |-> 0]

\* add takes the keys of a PHP array, which differ; the others take a list.
Arguments(op) ==
  IF op = "add" THEN {s \in SeqOf(Key, MaxLen) : IsInjective(s)}
                ELSE SeqOf(Key \cup {NotString}, MaxLen)

Call(w, op) ==
  /\ call[w] = NoCall /\ ncalls[w] < MaxCalls
  /\ \E keys \in Arguments(op) :
       /\ call' = [call EXCEPT ![w] = [op |-> op, keys |-> keys]]
       /\ todo' = [todo EXCEPT ![w] = keys]
  /\ result' = [result EXCEPT ![w] = <<>>]
  /\ before' = [before EXCEPT ![w] = Cached]
  /\ unread' = [unread EXCEPT ![w] = {}]
  /\ ncalls' = [ncalls EXCEPT ![w] = @ + 1]
  /\ UNCHANGED map

-----------------------------------------------------------------------------
(* PHP's hash tables, as far as the results need them.                       *)

Bucket(k, v) == [key |-> k, val |-> v]

\* zend_hash_add_new: the caller says that the key is new; PHP does not look.
AddNew(ht, k, v) == Append(ht, Bucket(k, v))

\* zend_hash_update: the bucket of the key is replaced, in its place.
Update(ht, k, v) ==
  IF \A i \in DOMAIN ht : ht[i].key # k
  THEN AddNew(ht, k, v)
  ELSE [i \in DOMAIN ht |-> IF ht[i].key = k THEN Bucket(k, v) ELSE ht[i]]

-----------------------------------------------------------------------------
(* One turn of each loop.                                                    *)

Turn(w, op) == call[w].op = op /\ todo[w] # <<>>

Advance(w, r) ==
  /\ todo' = [todo EXCEPT ![w] = Tail(@)]
  /\ result' = [result EXCEPT ![w] = r]
  /\ UNCHANGED <<call, before, ncalls>>

\* Variant: the loop ends at the first key that was refused.
AddRefusedLast(w) ==
  LET k == Head(todo[w]) IN
  /\ Turn(w, "add")
  /\ todo' = [todo EXCEPT ![w] = <<>>]
  /\ result' = [result EXCEPT ![w] = AddNew(@, k, MinusOne)]
  /\ UNCHANGED <<map, call, before, unread, ncalls>>

\* cache_store answers 0: the key exists, its value cannot be stored, memory
\* is exhausted or there is no cache.  The key is reported with the value -1.
AddRefused(w) ==
  LET k == Head(todo[w]) IN
  /\ Turn(w, "add")
  /\ Advance(w, AddNew(result[w], k, MinusOne))
  /\ UNCHANGED <<map, unread>>

AddStored(w) ==
  LET k == Head(todo[w]) IN
  /\ Turn(w, "add")
  /\ map[k] = None
  /\ map' = [map EXCEPT ![k] = Value(w)]
  /\ Advance(w, result[w])
  /\ UNCHANGED unread

\* cache_fetch and cache_exists answer 0: no such key, no read lock, no cache,
\* or a value that cannot be unserialized.  A warning answers for an element
\* that is no string.
Miss(w, op) ==
  LET k == Head(todo[w]) IN
  /\ Turn(w, op)
  /\ Advance(w, result[w])
  /\ unread' = IF k \in Cached THEN [unread EXCEPT ![w] = @ \cup {k}] ELSE unread
  /\ UNCHANGED map

\* Variant: what was not found is reported too.
FetchHitAny(w) ==
  LET k == Head(todo[w]) IN
  /\ Turn(w, "fetch")
  /\ Advance(w, Update(result[w], k, IF k \in Cached THEN map[k] ELSE None))
  /\ UNCHANGED <<map, unread>>

FetchHit(w) ==
  LET k == Head(todo[w]) IN
  /\ Turn(w, "fetch") /\ k \in Cached
  /\ Advance(w, Update(result[w], k, map[k]))
  /\ UNCHANGED <<map, unread>>

ExistsHit(w) ==
  LET k == Head(todo[w]) IN
  /\ Turn(w, "exists") /\ k \in Cached
  /\ Advance(w, AddNew(result[w], k, True))
  /\ UNCHANGED <<map, unread>>

Returned(w) == call[w] # NoCall /\ todo[w] = <<>>

Return(w) ==
  /\ Returned(w)
  /\ call' = [call EXCEPT ![w] = NoCall]
  /\ result' = [result EXCEPT ![w] = <<>>]
  /\ before' = [before EXCEPT ![w] = {}]
  /\ unread' = [unread EXCEPT ![w] = {}]
  /\ UNCHANGED <<map, todo, ncalls>>

Next == \E w \in Worker :
  \/ \E op \in Ops : Call(w, op)
  \/ AddRefused(w) \/ AddStored(w)
  \/ FetchHit(w) \/ Miss(w, "fetch") \/ ExistsHit(w) \/ Miss(w, "exists")
  \/ Return(w)

Spec == Init /\ [][Next]_vars

-----------------------------------------------------------------------------
(* Properties.                                                               *)

Reported(w) == {b.key : b \in ToSet(result[w])}
Asked(w)    == ToSet(call[w].keys) \cap Key

\* When an array add returns, the keys it does not report hold the values it
\* was given, for good, and those it reports do not: whatever the others added
\* in the middle of the loop, the script can tell which values are its own.
AddReportsFailures ==
  \A w \in Worker : Returned(w) /\ call[w].op = "add" =>
    \A k \in Asked(w) : k \in Reported(w) <=> map[k] # Value(w)

\* An array fetch or exists is not a snapshot, but it is never behind the
\* state it began in nor ahead of the one it returns in: it names every key it
\* was asked for that was cached at its start, unless its lookup failed, and no
\* key that is not cached.
LookupBracketed ==
  \A w \in Worker : Returned(w) /\ call[w].op \in {"fetch", "exists"} =>
    /\ Reported(w) \subseteq Asked(w) \cap Cached
    /\ (before[w] \cap Asked(w)) \ unread[w] \subseteq Reported(w)

=============================================================================
