---------------------------- MODULE ImmutableMap ----------------------------
(* What immutable_cache promises to the workers that share it: a map whose   *)
(* keys are written at most once and never removed.  Every call takes effect *)
(* atomically, at one instant between its invocation and its return.         *)
(* Module Cache is shown to implement this specification.                    *)
CONSTANTS
  Proc, Key, Val,
  None,           \* no such key, no call, no result
  Serialized,     \* values that a read rebuilds, which may fail
  ReadMayFail     \* reads may report a miss when their lock cannot be taken

VARIABLES
  map,            \* map[k]: the value of key k, or None
  phase,          \* phase[p]: "idle", "called" (pending) or "applied"
  call,           \* call[p]: the operation in progress
  res             \* res[p]: its result, once it is applied

vars == <<map, phase, call, res>>

Calls  == [op : {"add", "fetch", "exists", "stat"}, key : Key, val : Val \cup {None}]
NoCall == [op |-> "none", key |-> None, val |-> None]

Init ==
  /\ map = [k \in Key |-> None]
  /\ phase = [p \in Proc |-> "idle"]
  /\ call = [p \in Proc |-> NoCall]
  /\ res = [p \in Proc |-> None]

Call(p) ==
  /\ phase[p] = "idle"
  /\ phase' = [phase EXCEPT ![p] = "called"]
  /\ \E c \in Calls : call' = [call EXCEPT ![p] = c]
  /\ UNCHANGED <<map, res>>

Answer(p, r) ==
  /\ phase[p] = "called"
  /\ phase' = [phase EXCEPT ![p] = "applied"]
  /\ res' = [res EXCEPT ![p] = r]
  /\ UNCHANGED call

\* A key that is absent is bound; one that is present is never rebound.
AddNew(p) ==
  /\ call[p].op = "add"
  /\ map[call[p].key] = None
  /\ map' = [map EXCEPT ![call[p].key] = call[p].val]
  /\ Answer(p, TRUE)

\* The key exists, the value cannot be stored or memory is exhausted.
AddFails(p) ==
  /\ call[p].op = "add"
  /\ Answer(p, FALSE)
  /\ UNCHANGED map

Fetch(p) ==
  /\ call[p].op = "fetch"
  /\ Answer(p, map[call[p].key])
  /\ UNCHANGED map

Exists(p) ==
  /\ call[p].op \in {"exists", "stat"}
  /\ Answer(p, map[call[p].key] # None)
  /\ UNCHANGED map

ReadFails(p) ==
  /\ ReadMayFail
  /\ call[p].op # "add"
  /\ Answer(p, IF call[p].op = "fetch" THEN None ELSE FALSE)
  /\ UNCHANGED map

\* The value is there but cannot be rebuilt.
DecodeFails(p) ==
  /\ call[p].op = "fetch"
  /\ map[call[p].key] \in Serialized
  /\ Answer(p, None)
  /\ UNCHANGED map

Apply(p) ==
  AddNew(p) \/ AddFails(p) \/ Fetch(p) \/ Exists(p) \/ ReadFails(p) \/ DecodeFails(p)

Leave(p) ==
  /\ phase' = [phase EXCEPT ![p] = "idle"]
  /\ call' = [call EXCEPT ![p] = NoCall]
  /\ res' = [res EXCEPT ![p] = None]
  /\ UNCHANGED map

Return(p) == phase[p] = "applied" /\ Leave(p)

\* The worker dies; an operation it had applied stays applied.
Abort(p) == phase[p] # "idle" /\ Leave(p)

Next == \E p \in Proc : Call(p) \/ Apply(p) \/ Return(p) \/ Abort(p)

Safety == Init /\ [][Next]_vars

Spec == Safety /\ \A p \in Proc : WF_vars(Apply(p)) /\ WF_vars(Return(p))
=============================================================================
