------------------------------ MODULE Iterator ------------------------------
(* ImmutableCacheIterator: a PHP script walks the hash table in chunks, while *)
(* other workers insert entries and count hits.                               *)
(*                                                                            *)
(* A chunk is pulled under a read lock of the SMA lock and kept on a stack    *)
(* that the script then consumes without any lock.  The table is the part of  *)
(* module Cache that the iterator reads: chains that grow at their tail and   *)
(* lose nothing (theorem NeverTakenBack of CacheProofs), with every insertion *)
(* made under the write lock of the SMA lock.                                 *)
EXTENDS Integers, Sequences, FiniteSets, Functions, Sums

CONSTANTS
  Key, None,
  SlotOf,          \* SlotOf[k]: slot of key k
  NSlots,          \* cache->nslots
  Match,           \* keys accepted by the regex or the list of keys
  ChunkSize,       \* iterator->chunk_size
  Scripts,         \* kinds of scripts: "foreach" makes the calls of foreach
                   \* loops, "free" any calls
  LockMayFail,     \* lock calls may return an error
  Bailout,         \* building an item may exceed memory_limit and longjmp
  Wakes,           \* keys whose value runs user code when it is unserialized
  WakeOp,          \* what that code calls: "fetch" or "add"
  MaxCalls,        \* bound: calls of a free script
  MaxLoops,        \* bound: loops of a foreach script
  HitKeys,         \* bound: keys that other workers fetch
  MaxHits          \* bound: hits of an entry

Slot == 0 .. NSlots - 1

ASSUME IteratorAssumption ==
  /\ {None, "error", "beyond"} \cap Key = {}
  /\ NSlots \in Nat \ {0}
  /\ SlotOf \in [Key -> Slot]
  /\ Match \subseteq Key /\ Wakes \subseteq Key /\ HitKeys \subseteq Key
  /\ ChunkSize \in Nat \ {0}
  /\ Scripts \subseteq {"foreach", "free"} /\ WakeOp \in {"fetch", "add"}
  /\ LockMayFail \in BOOLEAN /\ Bailout \in BOOLEAN
  /\ {MaxCalls, MaxLoops, MaxHits} \subseteq Nat

VARIABLES
  chain, nhits,    \* the table: keys linked from each slot, hits of each entry
  locked,          \* the iterator holds a read lock of the SMA lock
  it,              \* the iterator object
  stack,           \* iterator->stack: keys of the items
  pc, meth,        \* where the worker is, and in which method
  at,              \* entries (fetch) or slots (totals) the walk has passed
  out,             \* what the last method returned
  turn,            \* foreach: the method it calls next
  script,          \* the kind of script, which never changes
  todo,            \* calls or loops left (bound)
  seen, present,   \* history: keys yielded since rewind; keys in the table at
                   \* rewind, none once a fetch has failed
  cursor           \* history: the item last answered, if nothing moved since

table   == <<chain, nhits>>
object  == <<it, stack>>
history == <<seen, present, cursor>>
user    == <<out, turn, todo, script, history>>
vars    == <<table, locked, object, pc, meth, at, user>>

Methods == {"rewind", "valid", "current", "key", "totals"}

Linked  == UNION {Range(chain[s]) : s \in Slot}
Matches == Linked \cap Match                  \* search_match

\* immutable_cache_iterator_create; obj_init.
Created == [initialized |-> FALSE, slot_idx |-> 0, stack_idx |-> 0,
            totals_flag |-> FALSE, count |-> 0, hits |-> 0]
Initialized == [Created EXCEPT !.initialized = TRUE]

Init ==
  /\ chain = [s \in Slot |-> <<>>] /\ nhits = [k \in Key |-> 0]
  /\ locked = FALSE
  /\ it = Created /\ stack = <<>>
  /\ pc = "script" /\ meth = None /\ at = 0
  /\ out = None /\ turn = "construct"
  /\ script \in Scripts
  /\ todo = IF script = "free" THEN MaxCalls ELSE MaxLoops
  /\ seen = <<>> /\ present = {} /\ cursor = None

-----------------------------------------------------------------------------
(* Other workers.                                                            *)

\* insert_exclusive, in an add that holds the write lock of the SMA lock.
Insert(k) ==
  /\ ~locked
  /\ k \notin Linked
  /\ chain' = [chain EXCEPT ![SlotOf[k]] = Append(@, k)]
  /\ UNCHANGED <<nhits, locked, object, pc, meth, at, user>>

\* find counts a hit under a fine grained lock only: no lock stops it.
Hit(k) ==
  /\ k \in Linked \cap HitKeys /\ nhits[k] < MaxHits
  /\ nhits' = [nhits EXCEPT ![k] = @ + 1]
  /\ UNCHANGED <<chain, locked, object, pc, meth, at, user>>

-----------------------------------------------------------------------------
(* The script calls a method.                                                *)

May(m) ==
  /\ pc = "script"
  /\ script = "free" \/ turn = m
  /\ (script = "free" \/ m = "rewind") => todo > 0
Spend(m) == todo' = IF script = "free" \/ m = "rewind" THEN todo - 1 ELSE todo

\* What foreach does after method m has answered r.
After(m, r) ==
  CASE m = "construct" -> "rewind"
    [] m = "rewind"    -> "valid"
    [] m = "valid"     -> IF r = "yes" THEN "current" ELSE "rewind"
    [] m = "current"   -> IF r \in Key THEN "key" ELSE "rewind"
    [] m = "key"       -> "next"
    [] m = "next"      -> "valid"
    [] OTHER           -> turn

\* __construct: with the cache disabled, or an invalid format or list, the
\* object stays as it is.
Construct ==
  /\ May("construct") /\ Spend("construct")
  /\ \/ /\ it' = Initialized /\ stack' = <<>> /\ turn' = "rewind"
        /\ seen' = <<>> /\ present' = {} /\ cursor' = None
     \/ UNCHANGED <<object, turn, history>>
  /\ out' = None
  /\ UNCHANGED <<table, locked, pc, meth, at, script>>

\* ENSURE_INITIALIZED throws.
Uninitialized(m) ==
  /\ May(m) /\ ~it.initialized /\ Spend(m)
  /\ out' = "error"
  /\ UNCHANGED <<table, locked, object, pc, meth, at, turn, script, history>>

\* Method m starts: fetch, or lock for the totals, or straight to the answer.
Enter(m, l) == pc' = l /\ meth' = m /\ at' = 0 /\ Spend(m)

\* rewind; a script may break out of a loop and start another.
Rewind ==
  /\ May("rewind") \/ (script = "foreach" /\ pc = "script" /\ turn = "next" /\ todo > 0)
  /\ it.initialized
  /\ it' = [it EXCEPT !.slot_idx = 0, !.stack_idx = 0]
  /\ Enter("rewind", "f_lock")
  /\ turn' = "rewind" /\ seen' = <<>> /\ present' = Matches /\ cursor' = None
  /\ UNCHANGED <<table, locked, stack, out, script>>

\* Variant: the last item of a chunk counts as consumed before next moves past it.
UsedUpEarly == Len(stack) <= it.stack_idx + 1
UsedUp == Len(stack) = it.stack_idx

\* valid, current, key: fetch when the chunk is used up.
Ask(m) ==
  /\ May(m) /\ it.initialized
  /\ Enter(m, IF UsedUp THEN "f_lock" ELSE "answer")
  /\ UNCHANGED <<table, locked, object, out, turn, script, history>>

\* next: nothing to do on an empty stack; otherwise no bound is checked.
NextItem ==
  /\ May("next") /\ it.initialized /\ Spend("next")
  /\ it' = IF stack = <<>> THEN it ELSE [it EXCEPT !.stack_idx = @ + 1]
  /\ turn' = "valid" /\ out' = None /\ cursor' = None
  /\ UNCHANGED <<table, locked, stack, pc, meth, at, script, seen, present>>

\* Variant: the totals are added up at each call.
TotalsDueAlways == TRUE
TotalsDue == ~it.totals_flag

\* getTotalHits, getTotalSize, getTotalCount; also in the body of a loop.
Totals ==
  /\ May("totals") \/ (script = "foreach" /\ pc = "script" /\ turn = "next")
  /\ it.initialized
  /\ Enter("totals", IF TotalsDue THEN "t_lock" ELSE "answer")
  /\ UNCHANGED <<table, locked, object, out, turn, script, history>>

\* The request ends, also after a bailout: immutable_cache_iterator_free.
Free ==
  /\ pc \in {"script", "dead"} /\ todo > 0 /\ it.initialized
  /\ script = "foreach" /\ pc = "script" => turn = "rewind"
  /\ it' = Created /\ stack' = <<>>
  /\ pc' = "script" /\ meth' = None /\ at' = 0
  /\ out' = None /\ turn' = "construct" /\ todo' = todo - 1
  /\ seen' = <<>> /\ present' = {} /\ cursor' = None
  /\ UNCHANGED <<table, locked, script>>

-----------------------------------------------------------------------------
(* immutable_cache_iterator_fetch_active, called by the method in progress.  *)

\* Drain the stack, then rlock_global.
FetchLock ==
  /\ pc = "f_lock"
  /\ stack' = <<>> /\ locked' = TRUE /\ pc' = "f_walk"
  /\ UNCHANGED <<table, it, meth, at, user>>

\* The lock call fails: no items, and stack_idx is left as it was.
FetchLockFails ==
  /\ pc = "f_lock" /\ LockMayFail
  /\ stack' = <<>> /\ pc' = "fetched"
  /\ present' = {}
  /\ UNCHANGED <<table, locked, it, meth, at, out, turn, todo, script, seen, cursor>>

\* Variant: the walk stops within a slot once the chunk is full.
MoreMidSlot == Len(stack) <= ChunkSize /\ it.slot_idx < NSlots

\* The loop goes on: whole slots, until more than ChunkSize items are pulled.
\* count is the size of the stack, which the fetch has drained.
More == at > 0 \/ (Len(stack) <= ChunkSize /\ it.slot_idx < NSlots)

\* immutable_cache_stack_push, _get.
Push(s, k) == Append(s, k)
Get(s, n) == IF n < Len(s) THEN s[n + 1] ELSE "beyond"

\* One entry: search_match, item_ctor, push.  Unserializing its value may
\* run user code, under the lock.
FetchEntry ==
  /\ pc = "f_walk" /\ More
  /\ LET slot == chain[it.slot_idx] IN
     /\ at < Len(slot)
     /\ stack' = IF slot[at + 1] \in Match THEN Push(stack, slot[at + 1]) ELSE stack
     /\ pc' = IF slot[at + 1] \in Match \cap Wakes THEN "wake" ELSE "f_walk"
  /\ at' = at + 1
  /\ UNCHANGED <<table, locked, it, meth, user>>

\* User code: a fetch takes a fine grained read lock, an add the SMA lock.
UserCode ==
  /\ pc = "wake"
  /\ WakeOp = "add" => ~locked
  /\ pc' = "f_walk"
  /\ UNCHANGED <<table, locked, object, meth, at, user>>

\* Variant: slot_idx is incremented for the entry and for the slot.
FetchSlotSkips ==
  /\ pc = "f_walk" /\ More
  /\ at = Len(chain[it.slot_idx])
  /\ it' = [it EXCEPT !.slot_idx = @ + 2] /\ at' = 0
  /\ UNCHANGED <<table, locked, stack, pc, meth, user>>

\* Variant: slot_idx is incremented after an entry only.
FetchSlotStays ==
  /\ pc = "f_walk" /\ More
  /\ at = Len(chain[it.slot_idx])
  /\ it' = [it EXCEPT !.slot_idx = IF at = 0 THEN @ ELSE @ + 1] /\ at' = 0
  /\ UNCHANGED <<table, locked, stack, pc, meth, user>>

\* The end of a chain: slot_idx++.
FetchSlot ==
  /\ pc = "f_walk" /\ More
  /\ at = Len(chain[it.slot_idx])
  /\ it' = [it EXCEPT !.slot_idx = @ + 1] /\ at' = 0
  /\ UNCHANGED <<table, locked, stack, pc, meth, user>>

\* The end of the loop: stack_idx = 0, runlock_global.
FetchEnd ==
  /\ pc = "f_walk" /\ ~More
  /\ it' = [it EXCEPT !.stack_idx = 0]
  /\ locked' = FALSE
  /\ pc' = "fetched"
  /\ UNCHANGED <<table, stack, meth, at, user>>

\* An item is being built.
Building ==
  \/ pc = "wake"
  \/ /\ pc = "f_walk" /\ More /\ at < Len(chain[it.slot_idx])
     /\ chain[it.slot_idx][at + 1] \in Match

\* Variant: no php_immutable_cache_try around the loop.
FetchBailoutUncaught ==
  /\ Bailout /\ Building
  /\ pc' = "dead"
  /\ UNCHANGED <<table, locked, object, meth, at, user>>

\* Building an item bails out: the finally part runs, then the script ends.
FetchBailout ==
  /\ Bailout /\ Building
  /\ it' = [it EXCEPT !.stack_idx = 0]
  /\ locked' = FALSE
  /\ pc' = "dead"
  /\ UNCHANGED <<table, stack, meth, at, user>>

-----------------------------------------------------------------------------
(* immutable_cache_iterator_totals.                                          *)

TotalsLock ==
  /\ pc = "t_lock"
  /\ locked' = TRUE /\ pc' = "t_walk"
  /\ UNCHANGED <<table, object, meth, at, user>>

TotalsLockFails ==
  /\ pc = "t_lock" /\ LockMayFail
  /\ pc' = "answer"
  /\ UNCHANGED <<table, locked, object, meth, at, user>>

\* One slot.
TotalsSlot ==
  /\ pc = "t_walk" /\ at < NSlots
  /\ LET found == Range(chain[at]) \cap Match IN
     it' = [it EXCEPT !.count = @ + Cardinality(found),
                      !.hits = @ + Total(nhits, found)]
  /\ at' = at + 1
  /\ UNCHANGED <<table, locked, stack, pc, meth, user>>

TotalsEnd ==
  /\ pc = "t_walk" /\ at = NSlots
  /\ it' = [it EXCEPT !.totals_flag = TRUE]
  /\ locked' = FALSE /\ pc' = "answer"
  /\ UNCHANGED <<table, stack, meth, at, user>>

-----------------------------------------------------------------------------
(* The method returns.                                                       *)

\* current and key throw when their own fetch brought nothing; otherwise they
\* take the item at stack_idx.
Item == IF pc = "fetched" /\ stack = <<>> THEN "error" ELSE Get(stack, it.stack_idx)

Result ==
  CASE meth = "valid" -> IF stack = <<>> THEN "no" ELSE "yes"
    [] meth \in {"current", "key"} -> Item
    [] OTHER -> None

Return ==
  /\ pc \in {"answer", "fetched"}
  /\ out' = Result /\ turn' = After(meth, Result)
  /\ seen' = IF meth = "current" THEN Append(seen, Item) ELSE seen
  /\ cursor' = IF meth \in {"current", "key"} THEN Item ELSE cursor
  /\ pc' = "script" /\ meth' = None /\ at' = 0
  /\ UNCHANGED <<table, locked, object, todo, script, present>>

-----------------------------------------------------------------------------
Fetch == FetchLock \/ FetchLockFails \/ FetchEntry \/ FetchSlot \/ FetchEnd \/ UserCode
AddUp == TotalsLock \/ TotalsLockFails \/ TotalsSlot \/ TotalsEnd
Loop  == NextItem \/ (\E m \in {"valid", "current", "key"} : Ask(m)) \/ Fetch \/ AddUp \/ Return

\* All calls of the bounded run are made.
Done ==
  /\ pc \in {"script", "dead"} /\ (todo = 0 \/ pc = "dead")
  /\ UNCHANGED vars

Next ==
  \/ \E k \in Key : Insert(k) \/ Hit(k)
  \/ Construct \/ Rewind \/ Totals \/ Free
  \/ \E m \in Methods \cup {"next"} : Uninitialized(m)
  \/ Loop \/ FetchBailout \/ Done

Spec == Init /\ [][Next]_vars

\* The script keeps running, the read lock is granted, and the body of a loop,
\* which may ask for the totals any number of times, comes to its end.
FairSpec == Spec /\ WF_vars(Loop) /\ SF_vars(NextItem)

-----------------------------------------------------------------------------
(* Properties.                                                               *)

\* A loop yields no entry twice, and nothing that does not match, whatever is
\* inserted between its chunks (fetch_active continues at slot_idx).
YieldedOnce == script = "foreach" => IsInjective(seen) /\ Range(seen) \subseteq Matches

\* A loop that ends, other than by a fetch that could not lock, has yielded
\* every matching entry that was in the table when it was rewound
\* (fetch_active, valid).
LoopComplete ==
  script = "foreach" /\ pc = "script" /\ turn = "rewind" => present \subseteq Range(seen)

\* immutable_cache_stack_get asserts stack->size > n: an item that a method
\* takes from the stack is there.
GetInRange == out # "beyond"

\* The read lock is released on every path out of a method, a bailout of an
\* item's constructor included (php_immutable_cache_finally).
LockReleased == pc \in {"script", "answer", "fetched", "dead"} => ~locked

\* Totals count no entry twice: they never exceed what the table holds, however
\* often and between whatever calls they are asked for (totals_flag).
TotalsBounded ==
  /\ it.count <= Cardinality(Matches)
  /\ it.hits <= Total(nhits, Matches)

\* current() and key() keep answering one item until next, rewind or a new
\* object, whatever is inserted or asked in between: a chunk is replaced only
\* when it is used up (valid, current, key).
CurrentStays ==
  pc \in {"answer", "fetched"} /\ meth \in {"current", "key"} /\ cursor \in Key
    => Item = cursor

\* Pulling a chunk brings at most chunk_size entries (iterator.h: number of
\* entries to pull down per fetch).
ChunkBounded == Len(stack) <= ChunkSize

\* User code that an iterator runs does not wait for the lock the iterator
\* holds (comment on entry_level in immutable_cache_cache.h).
NoSelfWait == ~(pc = "wake" /\ WakeOp = "add" /\ locked)

\* A loop ends, whatever other workers insert meanwhile: slot_idx only grows.
LoopEnds ==
  script = "foreach" /\ pc = "script" /\ turn = "valid" ~> turn = "rewind" \/ pc = "dead"
=============================================================================
