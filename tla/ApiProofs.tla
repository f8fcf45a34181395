------------------------------ MODULE ApiProofs ------------------------------
(* Proofs about Api, for any number of workers, keys and calls and arrays of  *)
(* any length: what the calls with an array of keys report is true of the     *)
(* cache, whatever other workers do in the middle of the loop.                *)
EXTENDS Api, TLAPS

-----------------------------------------------------------------------------
(* The inductive invariant.                                                  *)

Elements == Key \cup {NotString}
Values   == {None} \cup (Worker \X (0 .. MaxCalls))
Buckets  == [key : Elements, val : {MinusOne, True} \cup Values]

\* Types of the variables.
ApiTypeOK ==
  /\ map \in [Key -> Values]
  /\ call \in [Worker -> [op : Ops \cup {None}, keys : Seq(Elements)]]
  /\ todo \in [Worker -> Seq(Elements)]
  /\ result \in [Worker -> Seq(Buckets)]
  /\ before \in [Worker -> SUBSET Key]
  /\ unread \in [Worker -> SUBSET Key]
  /\ ncalls \in [Worker -> 0 .. MaxCalls]

\* A value in the cache is of a call that has begun.
Begun == \A k \in Key, w \in Worker, n \in 0 .. MaxCalls : map[k] = <<w, n>> => n <= ncalls[w]

\* The loop of an add goes through different keys; of those it has passed, the
\* ones it reports are exactly those whose value is not its own.
AddLoop(w) ==
  call[w].op = "add" =>
    /\ IsInjective(todo[w]) /\ ToSet(todo[w]) \subseteq Asked(w)
    /\ Reported(w) \cap ToSet(todo[w]) = {}
    /\ \A k \in ToSet(todo[w]) : map[k] # Value(w)
    /\ \A k \in Asked(w) \ ToSet(todo[w]) : k \in Reported(w) <=> map[k] # Value(w)

\* A lookup reports cached keys only, and has passed no key that was cached when
\* it began without reporting it or failing to read it.
LookupLoop(w) ==
  call[w].op \in {"fetch", "exists"} =>
    /\ ToSet(todo[w]) \subseteq ToSet(call[w].keys)
    /\ before[w] \subseteq Cached
    /\ Reported(w) \subseteq Asked(w) \cap Cached
    /\ (before[w] \cap Asked(w)) \ unread[w] \subseteq Reported(w) \cup ToSet(todo[w])

ApiInv == ApiTypeOK /\ Begun /\ \A w \in Worker : AddLoop(w) /\ LookupLoop(w)

-----------------------------------------------------------------------------
(* Sequences and PHP arrays.                                                 *)

\* The arguments of a call are a sequence.
LEMMA ArgumentFacts ==
  ASSUME NEW op \in Ops, NEW keys \in Arguments(op)
  PROVE keys \in Seq(Elements) /\ (op = "add" => IsInjective(keys) /\ ToSet(keys) \subseteq Key)
<1>1. ASSUME NEW S, NEW s \in SeqOf(S, MaxLen) PROVE s \in Seq(S) /\ ToSet(s) \subseteq S
  <2>1. PICK m \in 0 .. MaxLen : s \in [1 .. m -> S]
    BY <1>1 DEF SeqOf
  <2>2. m \in Nat
    BY <2>1, ApiAssumption
  <2>3. s \in Seq(S)
    BY <2>1, <2>2
  <2> QED
    BY <2>1, <2>3 DEF ToSet
<1>2. CASE op = "add"
  <2>1. keys \in SeqOf(Key, MaxLen) /\ IsInjective(keys)
    BY <1>2 DEF Arguments
  <2>2. keys \in Seq(Key) /\ ToSet(keys) \subseteq Key
    BY <1>1, <2>1
  <2> QED
    BY <2>1, <2>2 DEF Elements
<1>3. CASE op # "add"
  <2>1. keys \in SeqOf(Elements, MaxLen)
    BY <1>3 DEF Arguments, Elements
  <2> QED
    BY <1>1, <1>3, <2>1
<1> QED
  BY <1>2, <1>3

\* A loop passes its elements one by one.
LEMMA PassFacts ==
  ASSUME NEW S, NEW s \in Seq(S), s # <<>>
  PROVE /\ Head(s) \in S /\ Tail(s) \in Seq(S) /\ Head(s) \in ToSet(s)
        /\ ToSet(Tail(s)) \subseteq ToSet(s)
        /\ ToSet(s) \subseteq ToSet(Tail(s)) \cup {Head(s)}
        /\ IsInjective(s) => IsInjective(Tail(s)) /\ Head(s) \notin ToSet(Tail(s))
<1>1. /\ Tail(s) \in Seq(S) /\ Len(s) \in Nat \ {0}
      /\ DOMAIN Tail(s) = 1 .. (Len(s) - 1) /\ DOMAIN s = 1 .. Len(s)
      /\ \A i \in 1 .. (Len(s) - 1) : Tail(s)[i] = s[i + 1]
      /\ Head(s) = s[1] /\ Head(s) \in S
  OBVIOUS
<1>2. \A i \in DOMAIN Tail(s) : i + 1 \in DOMAIN s /\ Tail(s)[i] = s[i + 1] /\ i + 1 # 1 /\ i \in Int
  BY <1>1
<1>3. \A j \in DOMAIN s : j = 1 \/ (j - 1 \in DOMAIN Tail(s) /\ Tail(s)[j - 1] = s[j])
  <2> TAKE j \in DOMAIN s
  <2>1. j \in Nat /\ j >= 1 /\ j <= Len(s)
    BY <1>1
  <2>2. CASE j # 1
    <3>1. j - 1 \in 1 .. (Len(s) - 1) /\ (j - 1) + 1 = j
      BY <1>1, <2>1, <2>2
    <3> QED
      BY <1>1, <3>1
  <2> QED
    BY <2>2
<1>4. 1 \in DOMAIN s
  BY <1>1
<1>5. Head(s) \in ToSet(s) /\ ToSet(Tail(s)) \subseteq ToSet(s)
  BY <1>1, <1>2, <1>4 DEF ToSet
<1>6. ToSet(s) \subseteq ToSet(Tail(s)) \cup {Head(s)}
  <2>1. ASSUME NEW y \in ToSet(s) PROVE y = Head(s) \/ y \in ToSet(Tail(s))
    <3>1. PICK j \in DOMAIN s : y = s[j]
      BY <2>1 DEF ToSet
    <3>2. j = 1 \/ \E i \in DOMAIN Tail(s) : Tail(s)[i] = y
      BY <1>3, <3>1
    <3> QED
      BY <1>1, <3>1, <3>2 DEF ToSet
  <2> QED
    BY <2>1
<1>7. ASSUME IsInjective(s) PROVE IsInjective(Tail(s)) /\ Head(s) \notin ToSet(Tail(s))
  <2>1. ASSUME NEW i \in DOMAIN Tail(s), NEW j \in DOMAIN Tail(s), Tail(s)[i] = Tail(s)[j] PROVE i = j
    <3>1. i + 1 = j + 1
      BY <1>2, <1>7, <2>1 DEF IsInjective
    <3> QED
      BY <1>2, <3>1
  <2>2. \A i \in DOMAIN Tail(s) : Tail(s)[i] # s[1]
    BY <1>2, <1>4, <1>7 DEF IsInjective
  <2> QED
    BY <1>1, <2>1, <2>2 DEF IsInjective, ToSet
<1> QED
  BY <1>1, <1>5, <1>6, <1>7

\* The keys of a PHP array.
KeysOf(ht) == {b.key : b \in ToSet(ht)}

\* A new bucket adds its key.
LEMMA AddNewFacts ==
  ASSUME NEW ht \in Seq(Buckets), NEW k \in Elements, NEW v \in {MinusOne, True} \cup Values
  PROVE AddNew(ht, k, v) \in Seq(Buckets) /\ KeysOf(AddNew(ht, k, v)) = KeysOf(ht) \cup {k}
<1> DEFINE b == Bucket(k, v)
           n == Len(ht)
<1>1. b \in Buckets /\ b.key = k
  BY DEF Bucket, Buckets
<1> HIDE DEF b
<1>2. /\ Append(ht, b) \in Seq(Buckets) /\ n \in Nat
      /\ DOMAIN Append(ht, b) = 1 .. (n + 1) /\ DOMAIN ht = 1 .. n
      /\ \A i \in 1 .. n : Append(ht, b)[i] = ht[i]
      /\ Append(ht, b)[n + 1] = b
  BY <1>1
<1> HIDE DEF n
<1>3. ToSet(Append(ht, b)) = ToSet(ht) \cup {b}
  <2>1. \A i \in 1 .. (n + 1) : i \in 1 .. n \/ i = n + 1
    BY <1>2
  <2>2. n + 1 \in 1 .. (n + 1) /\ \A i \in 1 .. n : i \in 1 .. (n + 1)
    BY <1>2
  <2>3. \A y : (\E i \in DOMAIN Append(ht, b) : Append(ht, b)[i] = y) <=> (\E i \in DOMAIN ht : ht[i] = y) \/ y = b
    BY <1>2, <2>1, <2>2
  <2> QED
    BY <2>3 DEF ToSet
<1>4. KeysOf(Append(ht, b)) = KeysOf(ht) \cup {k}
  BY <1>1, <1>3 DEF KeysOf
<1> QED
  BY <1>2, <1>4 DEF AddNew, b

\* So does an update, unless the key is there already.
LEMMA UpdateFacts ==
  ASSUME NEW ht \in Seq(Buckets), NEW k \in Elements, NEW v \in {MinusOne, True} \cup Values
  PROVE Update(ht, k, v) \in Seq(Buckets) /\ KeysOf(Update(ht, k, v)) = KeysOf(ht) \cup {k}
<1> DEFINE b == Bucket(k, v)
           g == [i \in DOMAIN ht |-> IF ht[i].key = k THEN b ELSE ht[i]]
<1>1. CASE \A i \in DOMAIN ht : ht[i].key # k
  BY <1>1, AddNewFacts DEF Update
<1>2. CASE \E i \in DOMAIN ht : ht[i].key = k
  <2>1. Update(ht, k, v) = g
    BY <1>2 DEF Update
  <2>2. b \in Buckets /\ b.key = k
    BY DEF Bucket, Buckets
  <2> HIDE DEF b
  <2>3. DOMAIN ht = 1 .. Len(ht) /\ Len(ht) \in Nat
    OBVIOUS
  <2>4. \A i \in DOMAIN ht : ht[i] \in Buckets
    OBVIOUS
  <2>5. \A i \in DOMAIN ht : g[i] \in Buckets /\ g[i].key = ht[i].key
    BY <2>2, <2>4
  <2>6. DOMAIN g = DOMAIN ht
    OBVIOUS
  <2>7. g \in Seq(Buckets)
    BY <2>2, <2>3, <2>4
  <2> HIDE DEF g
  <2>8. KeysOf(g) = {g[i].key : i \in DOMAIN ht} /\ KeysOf(ht) = {ht[i].key : i \in DOMAIN ht}
    BY <2>6 DEF KeysOf, ToSet
  <2>9. KeysOf(g) = KeysOf(ht) /\ k \in KeysOf(ht)
    BY <1>2, <2>5, <2>8
  <2> QED
    BY <2>1, <2>7, <2>9
<1> QED
  BY <1>1, <1>2

-----------------------------------------------------------------------------
(* Steps.                                                                    *)

\* What another worker does to the cache leaves the loop of a worker in order:
\* keys are added, with values that are not this worker's.
LEMMA OthersKeep ==
  ASSUME ApiInv, NEW u \in Worker,
         call'[u] = call[u], todo'[u] = todo[u], result'[u] = result[u],
         before'[u] = before[u], unread'[u] = unread[u], ncalls'[u] = ncalls[u],
         \A k \in Key : map'[k] = map[k] \/ (map[k] = None /\ map'[k] # None /\ map'[k] # Value(u))
  PROVE  AddLoop(u)' /\ LookupLoop(u)'
<1>1. /\ Asked(u)' = Asked(u) /\ Reported(u)' = Reported(u) /\ Value(u)' = Value(u)
      /\ Cached \subseteq Cached'
  BY DEF Asked, Reported, Value, Cached
<1>2. None # Value(u)
  BY ApiAssumption DEF ApiInv, ApiTypeOK, Value
<1>3. \A k \in Key : (map'[k] # Value(u)) <=> (map[k] # Value(u))
  BY <1>2
<1>4. Asked(u) \subseteq Key
  BY DEF Asked
<1>5. AddLoop(u) /\ LookupLoop(u)
  BY DEF ApiInv
<1>6. AddLoop(u)'
  BY <1>1, <1>3, <1>4, <1>5 DEF AddLoop
<1>7. LookupLoop(u)'
  BY <1>1, <1>5 DEF LookupLoop
<1> QED
  BY <1>6, <1>7

\* What a turn of a loop changes.
LEMMA AdvanceFacts ==
  ASSUME ApiTypeOK, NEW w \in Worker, todo[w] # <<>>, NEW r \in Seq(Buckets), Advance(w, r)
  PROVE  /\ todo' \in [Worker -> Seq(Elements)] /\ result' \in [Worker -> Seq(Buckets)]
         /\ todo'[w] = Tail(todo[w]) /\ result'[w] = r
         /\ \A u \in Worker : u # w => todo'[u] = todo[u] /\ result'[u] = result[u]
         /\ call' = call /\ before' = before /\ ncalls' = ncalls
<1>1. todo[w] \in Seq(Elements) /\ todo \in [Worker -> Seq(Elements)] /\ result \in [Worker -> Seq(Buckets)]
  BY DEF ApiTypeOK
<1>2. Tail(todo[w]) \in Seq(Elements)
  BY <1>1
<1>3. todo' = [todo EXCEPT ![w] = Tail(todo[w])] /\ result' = [result EXCEPT ![w] = r]
  BY DEF Advance
<1> QED
  BY <1>1, <1>2, <1>3 DEF Advance

\* A turn of the loop of an add: the key is reported, or gets the value.
LEMMA AddTurn ==
  ASSUME ApiInv, NEW w \in Worker, Turn(w, "add"),
         call'[w] = call[w], ncalls'[w] = ncalls[w], todo'[w] = Tail(todo[w]),
         \/ map' = map /\ Reported(w)' = Reported(w) \cup {Head(todo[w])}
         \/ /\ map' = [map EXCEPT ![Head(todo[w])] = Value(w)]
            /\ Reported(w)' = Reported(w)
  PROVE  AddLoop(w)' /\ LookupLoop(w)'
<1> DEFINE k == Head(todo[w])
           T == ToSet(todo[w])
           V == ToSet(Tail(todo[w]))
<1>1. todo[w] \in Seq(Elements) /\ todo[w] # <<>> /\ map \in [Key -> Values]
  BY DEF ApiInv, ApiTypeOK, Turn
<1>2. k \in T /\ V \subseteq T /\ T \subseteq V \cup {k}
  BY <1>1, PassFacts
<1>3. call[w].op = "add" /\ AddLoop(w)
  BY DEF Turn, ApiInv
<1>4. IsInjective(todo[w])
  BY <1>3 DEF AddLoop
<1>5. IsInjective(Tail(todo[w])) /\ k \notin V
  BY <1>1, <1>4, PassFacts
<1>6. /\ T \subseteq Asked(w) /\ Reported(w) \cap T = {}
      /\ \A j \in T : map[j] # Value(w)
      /\ \A j \in Asked(w) \ T : j \in Reported(w) <=> map[j] # Value(w)
  BY <1>3 DEF AddLoop
<1>7. Asked(w)' = Asked(w) /\ Value(w)' = Value(w) /\ Asked(w) \subseteq Key /\ ToSet(todo[w])' = V
  BY DEF Asked, Value
<1> HIDE DEF k, T, V
<1>8. CASE map' = map /\ Reported(w)' = Reported(w) \cup {k}
  <2>1. Reported(w)' \cap V = {} /\ \A j \in V : map'[j] # Value(w)
    BY <1>2, <1>5, <1>6, <1>8
  <2>2. \A j \in Asked(w) \ V : j \in Reported(w)' <=> map'[j] # Value(w)
    BY <1>2, <1>6, <1>8
  <2> QED
    BY <1>2, <1>3, <1>5, <1>6, <1>7, <2>1, <2>2 DEF AddLoop, LookupLoop
<1>9. CASE map' = [map EXCEPT ![k] = Value(w)] /\ Reported(w)' = Reported(w)
  <2>1. k \in Key /\ map'[k] = Value(w) /\ \A j \in Key : j # k => map'[j] = map[j]
    BY <1>1, <1>2, <1>6, <1>7, <1>9
  <2>2. Reported(w)' \cap V = {} /\ \A j \in V : map'[j] # Value(w)
    BY <1>2, <1>5, <1>6, <1>7, <1>9, <2>1
  <2>3. \A j \in Asked(w) \ V : j \in Reported(w)' <=> map'[j] # Value(w)
    BY <1>2, <1>6, <1>7, <1>9, <2>1
  <2> QED
    BY <1>2, <1>3, <1>5, <1>6, <1>7, <2>2, <2>3 DEF AddLoop, LookupLoop
<1> QED
  BY <1>8, <1>9 DEF k

\* A turn of the loop of a lookup: the key is cached and reported, or passed.
LEMMA LookupTurn ==
  ASSUME ApiInv, NEW w \in Worker, NEW op \in {"fetch", "exists"}, Turn(w, op),
         call'[w] = call[w], before'[w] = before[w], todo'[w] = Tail(todo[w]), map' = map,
         \/ /\ Head(todo[w]) \in Cached
            /\ Reported(w)' = Reported(w) \cup {Head(todo[w])} /\ unread'[w] = unread[w]
         \/ /\ Reported(w)' = Reported(w)
            /\ unread'[w] = IF Head(todo[w]) \in Cached THEN unread[w] \cup {Head(todo[w])} ELSE unread[w]
  PROVE  AddLoop(w)' /\ LookupLoop(w)'
<1> DEFINE k == Head(todo[w])
           T == ToSet(todo[w])
           V == ToSet(Tail(todo[w]))
<1>1. todo[w] \in Seq(Elements) /\ todo[w] # <<>>
  BY DEF ApiInv, ApiTypeOK, Turn
<1>2. k \in T /\ V \subseteq T /\ T \subseteq V \cup {k}
  BY <1>1, PassFacts
<1>3. call[w].op \in {"fetch", "exists"} /\ LookupLoop(w)
  BY DEF Turn, ApiInv
<1>4. /\ T \subseteq ToSet(call[w].keys) /\ before[w] \subseteq Cached
      /\ Reported(w) \subseteq Asked(w) \cap Cached
      /\ (before[w] \cap Asked(w)) \ unread[w] \subseteq Reported(w) \cup T
  BY <1>3 DEF LookupLoop
<1>5. Asked(w)' = Asked(w) /\ Cached' = Cached /\ Cached \subseteq Key /\ ToSet(todo[w])' = V
  BY DEF Asked, Cached
<1>6. k \in Cached => k \in Asked(w)
  BY <1>2, <1>4, <1>5 DEF Asked
<1> HIDE DEF k, T, V
<1>7. Reported(w)' \subseteq Asked(w) \cap Cached
  BY <1>4, <1>6 DEF k
<1>8. (before[w] \cap Asked(w)) \ unread'[w] \subseteq Reported(w)' \cup V
  BY <1>2, <1>4 DEF k
<1>9. LookupLoop(w)'
  BY <1>2, <1>4, <1>5, <1>7, <1>8 DEF LookupLoop
<1> QED
  BY <1>3, <1>9 DEF AddLoop

-----------------------------------------------------------------------------
(* Actions.                                                                  *)

\* The invariant holds at first.
LEMMA InitApi == Init => ApiInv
<1> SUFFICES ASSUME Init PROVE ApiInv
  OBVIOUS
<1>1. ToSet(<<>>) = {} /\ IsInjective(<<>>)
  BY DEF ToSet, IsInjective
<1>2. ApiTypeOK
  <2>1. NoCall \in [op : Ops \cup {None}, keys : Seq(Elements)]
    BY DEF NoCall
  <2>2. 0 \in 0 .. MaxCalls
    BY ApiAssumption
  <2> QED
    BY <2>1, <2>2 DEF Init, ApiTypeOK, Values
<1>3. Begun
  BY ApiAssumption DEF Init, Begun
<1>4. ASSUME NEW w \in Worker PROVE AddLoop(w) /\ LookupLoop(w)
  <2>1. call[w].keys = <<>> /\ todo[w] = <<>> /\ result[w] = <<>> /\ before[w] = {}
    BY DEF Init, NoCall
  <2>2. Asked(w) = {} /\ Reported(w) = {}
    BY <1>1, <2>1 DEF Asked, Reported
  <2> QED
    BY <1>1, <2>1, <2>2 DEF AddLoop, LookupLoop
<1> QED
  BY <1>2, <1>3, <1>4 DEF ApiInv

\* A call begins: its value is not in the cache, and nothing is reported.
LEMMA CallKeeps == ASSUME ApiInv, NEW w \in Worker, NEW op \in Ops, Call(w, op) PROVE ApiInv'
<1>1. PICK keys \in Arguments(op) :
         /\ call' = [call EXCEPT ![w] = [op |-> op, keys |-> keys]]
         /\ todo' = [todo EXCEPT ![w] = keys]
  BY DEF Call
<1>2. keys \in Seq(Elements) /\ (op = "add" => IsInjective(keys) /\ ToSet(keys) \subseteq Key)
  BY ArgumentFacts
<1>3. ApiTypeOK /\ Begun
  BY DEF ApiInv
<1>4. ncalls[w] \in 0 .. MaxCalls /\ ncalls[w] + 1 \in 0 .. MaxCalls /\ ncalls[w] < ncalls[w] + 1
  BY <1>3, ApiAssumption DEF ApiTypeOK, Call
<1>5. /\ ncalls'[w] = ncalls[w] + 1 /\ map' = map
      /\ \A u \in Worker : u # w => ncalls'[u] = ncalls[u]
      /\ ncalls' \in [Worker -> 0 .. MaxCalls]
  BY <1>3, <1>4 DEF ApiTypeOK, Call
<1>6. [op |-> op, keys |-> keys] \in [op : Ops \cup {None}, keys : Seq(Elements)]
  BY <1>2
<1>7. /\ call' \in [Worker -> [op : Ops \cup {None}, keys : Seq(Elements)]]
      /\ call'[w] = [op |-> op, keys |-> keys]
      /\ todo' \in [Worker -> Seq(Elements)] /\ todo'[w] = keys
      /\ \A u \in Worker : u # w => call'[u] = call[u] /\ todo'[u] = todo[u]
  BY <1>1, <1>2, <1>3, <1>6 DEF ApiTypeOK
<1>8. /\ result' \in [Worker -> Seq(Buckets)] /\ result'[w] = <<>>
      /\ before' \in [Worker -> SUBSET Key] /\ before'[w] = Cached
      /\ unread' \in [Worker -> SUBSET Key]
      /\ \A u \in Worker : u # w => result'[u] = result[u] /\ before'[u] = before[u] /\ unread'[u] = unread[u]
  BY <1>3 DEF ApiTypeOK, Call, Cached
<1>9. ApiTypeOK'
  BY <1>3, <1>5, <1>7, <1>8 DEF ApiTypeOK
<1>10. Begun'
  <2> SUFFICES ASSUME NEW k \in Key, NEW u \in Worker, NEW n \in 0 .. MaxCalls, map[k] = <<u, n>>
               PROVE n <= ncalls'[u]
    BY <1>5 DEF Begun
  <2>1. n <= ncalls[u]
    BY <1>3 DEF Begun
  <2>2. ncalls[u] \in Nat /\ (ncalls'[u] = ncalls[u] \/ ncalls'[u] = ncalls[u] + 1)
    BY <1>3, <1>5, ApiAssumption DEF ApiTypeOK
  <2> QED
    BY <2>1, <2>2, ApiAssumption
<1>11. ASSUME NEW u \in Worker, u # w PROVE AddLoop(u)' /\ LookupLoop(u)'
  BY <1>5, <1>7, <1>8, <1>11, OthersKeep
<1>12. AddLoop(w)' /\ LookupLoop(w)'
  <2>1. Reported(w)' = {} /\ Asked(w)' = ToSet(keys) \cap Key /\ Cached' = Cached
    BY <1>5, <1>7, <1>8 DEF Reported, Asked, Cached, ToSet
  <2>2. \A k \in Key : map[k] # Value(w)'
    <3> SUFFICES ASSUME NEW k \in Key, map[k] = <<w, ncalls[w] + 1>> PROVE FALSE
      BY <1>5 DEF Value
    <3>1. ncalls[w] + 1 <= ncalls[w]
      BY <1>3, <1>4 DEF Begun
    <3> QED
      BY <1>4, <3>1
  <2>3. ASSUME op = "add" PROVE AddLoop(w)'
    BY <1>2, <1>5, <1>7, <2>1, <2>2, <2>3 DEF AddLoop
  <2>4. AddLoop(w)'
    BY <1>7, <2>3 DEF AddLoop
  <2>5. LookupLoop(w)'
    BY <1>7, <1>8, <2>1 DEF LookupLoop
  <2> QED
    BY <2>4, <2>5
<1> QED
  BY <1>9, <1>10, <1>11, <1>12 DEF ApiInv

\* A key that add refuses is reported.
LEMMA AddRefusedKeeps == ASSUME ApiInv, NEW w \in Worker, AddRefused(w) PROVE ApiInv'
<1> DEFINE k == Head(todo[w])
           r == AddNew(result[w], k, MinusOne)
<1>1. ApiTypeOK /\ Begun
  BY DEF ApiInv
<1>2. Turn(w, "add") /\ todo[w] # <<>> /\ Advance(w, r) /\ map' = map /\ unread' = unread
  BY DEF AddRefused, Turn
<1>3. todo[w] \in Seq(Elements) /\ result[w] \in Seq(Buckets)
  BY <1>1 DEF ApiTypeOK
<1>4. k \in Elements
  BY <1>2, <1>3, PassFacts
<1>5. r \in Seq(Buckets) /\ KeysOf(r) = KeysOf(result[w]) \cup {k}
  BY <1>3, <1>4, AddNewFacts
<1> HIDE DEF r
<1>6. /\ todo' \in [Worker -> Seq(Elements)] /\ result' \in [Worker -> Seq(Buckets)]
      /\ todo'[w] = Tail(todo[w]) /\ result'[w] = r
      /\ \A u \in Worker : u # w => todo'[u] = todo[u] /\ result'[u] = result[u]
      /\ call' = call /\ before' = before /\ ncalls' = ncalls
  BY <1>1, <1>2, <1>5, AdvanceFacts
<1>7. Reported(w)' = Reported(w) \cup {k}
  BY <1>5, <1>6 DEF Reported, KeysOf
<1>8. ApiTypeOK' /\ Begun'
  BY <1>1, <1>2, <1>6 DEF ApiTypeOK, Begun
<1>9. AddLoop(w)' /\ LookupLoop(w)'
  BY <1>2, <1>6, <1>7, AddTurn
<1>10. ASSUME NEW u \in Worker, u # w PROVE AddLoop(u)' /\ LookupLoop(u)'
  BY <1>2, <1>6, <1>10, OthersKeep
<1> QED
  BY <1>8, <1>9, <1>10 DEF ApiInv

\* A key that add stores has the value of the call.
LEMMA AddStoredKeeps == ASSUME ApiInv, NEW w \in Worker, AddStored(w) PROVE ApiInv'
<1> DEFINE k == Head(todo[w])
<1>1. ApiTypeOK /\ Begun
  BY DEF ApiInv
<1>2. /\ Turn(w, "add") /\ todo[w] # <<>> /\ Advance(w, result[w]) /\ unread' = unread
      /\ map[k] = None /\ map' = [map EXCEPT ![k] = Value(w)]
  BY DEF AddStored, Turn
<1>3. todo[w] \in Seq(Elements) /\ result[w] \in Seq(Buckets)
  BY <1>1 DEF ApiTypeOK
<1>4. /\ todo' \in [Worker -> Seq(Elements)] /\ result' \in [Worker -> Seq(Buckets)]
      /\ todo'[w] = Tail(todo[w]) /\ result'[w] = result[w]
      /\ \A u \in Worker : u # w => todo'[u] = todo[u] /\ result'[u] = result[u]
      /\ call' = call /\ before' = before /\ ncalls' = ncalls
  BY <1>1, <1>2, <1>3, AdvanceFacts
<1>5. Value(w) \in Values /\ Value(w) # None
  BY <1>1, ApiAssumption DEF ApiTypeOK, Value, Values
<1>6. map' \in [Key -> Values]
  BY <1>1, <1>2, <1>5 DEF ApiTypeOK
<1>7. \A j \in Key : map'[j] = map[j] \/ (j = k /\ map'[j] = Value(w))
  BY <1>1, <1>2 DEF ApiTypeOK
<1>8. Reported(w)' = Reported(w)
  BY <1>4 DEF Reported
<1>9. AddLoop(w)' /\ LookupLoop(w)'
  BY <1>2, <1>4, <1>8, AddTurn
<1>10. ApiTypeOK'
  BY <1>1, <1>2, <1>4, <1>6 DEF ApiTypeOK
<1>11. Begun'
  <2> SUFFICES ASSUME NEW j \in Key, NEW u \in Worker, NEW n \in 0 .. MaxCalls, map'[j] = <<u, n>>
               PROVE n <= ncalls[u]
    BY <1>4 DEF Begun
  <2>1. CASE map'[j] = map[j]
    BY <1>1, <2>1 DEF Begun
  <2>2. CASE map'[j] = Value(w)
    <3>1. u = w /\ n = ncalls[w]
      BY <2>2 DEF Value
    <3> QED
      BY <3>1, ApiAssumption
  <2> QED
    BY <1>7, <2>1, <2>2
<1>12. ASSUME NEW u \in Worker, u # w PROVE AddLoop(u)' /\ LookupLoop(u)'
  <2>1. Value(w) # Value(u)
    BY <1>12 DEF Value
  <2>2. \A j \in Key : map'[j] = map[j] \/ (map[j] = None /\ map'[j] # None /\ map'[j] # Value(u))
    BY <1>2, <1>5, <1>7, <2>1
  <2> QED
    BY <1>2, <1>4, <1>12, <2>2, OthersKeep
<1> QED
  BY <1>9, <1>10, <1>11, <1>12 DEF ApiInv

\* A key that is found is reported.
LEMMA HitKeeps ==
  ASSUME ApiInv, NEW w \in Worker, FetchHit(w) \/ ExistsHit(w)
  PROVE ApiInv'
<1> DEFINE k == Head(todo[w])
<1>1. ApiTypeOK /\ Begun
  BY DEF ApiInv
<1>2. todo[w] # <<>> /\ map' = map /\ unread' = unread /\ k \in Cached
  BY DEF FetchHit, ExistsHit, Turn
<1>3. todo[w] \in Seq(Elements) /\ result[w] \in Seq(Buckets)
  BY <1>1 DEF ApiTypeOK
<1>4. k \in Elements /\ k \in Key /\ map[k] \in Values
  BY <1>1, <1>2, <1>3, PassFacts DEF Cached, ApiTypeOK
<1>5. PICK op \in {"fetch", "exists"}, r \in Seq(Buckets) :
         Turn(w, op) /\ Advance(w, r) /\ KeysOf(r) = KeysOf(result[w]) \cup {k}
  <2>1. CASE FetchHit(w)
    <3> DEFINE r == Update(result[w], k, map[k])
    <3>1. r \in Seq(Buckets) /\ KeysOf(r) = KeysOf(result[w]) \cup {k}
      BY <1>3, <1>4, UpdateFacts
    <3>2. Turn(w, "fetch") /\ Advance(w, r)
      BY <2>1 DEF FetchHit
    <3> HIDE DEF r
    <3> QED
      BY <3>1, <3>2
  <2>2. CASE ExistsHit(w)
    <3> DEFINE r == AddNew(result[w], k, True)
    <3>1. r \in Seq(Buckets) /\ KeysOf(r) = KeysOf(result[w]) \cup {k}
      BY <1>3, <1>4, AddNewFacts
    <3>2. Turn(w, "exists") /\ Advance(w, r)
      BY <2>2 DEF ExistsHit
    <3> HIDE DEF r
    <3> QED
      BY <3>1, <3>2
  <2> QED
    BY <2>1, <2>2
<1>6. /\ todo' \in [Worker -> Seq(Elements)] /\ result' \in [Worker -> Seq(Buckets)]
      /\ todo'[w] = Tail(todo[w]) /\ result'[w] = r
      /\ \A u \in Worker : u # w => todo'[u] = todo[u] /\ result'[u] = result[u]
      /\ call' = call /\ before' = before /\ ncalls' = ncalls
  BY <1>1, <1>2, <1>5, AdvanceFacts
<1>7. Reported(w)' = Reported(w) \cup {k}
  BY <1>5, <1>6 DEF Reported, KeysOf
<1>8. ApiTypeOK' /\ Begun'
  BY <1>1, <1>2, <1>6 DEF ApiTypeOK, Begun
<1>9. AddLoop(w)' /\ LookupLoop(w)'
  BY <1>2, <1>5, <1>6, <1>7, LookupTurn
<1>10. ASSUME NEW u \in Worker, u # w PROVE AddLoop(u)' /\ LookupLoop(u)'
  BY <1>2, <1>6, <1>10, OthersKeep
<1> QED
  BY <1>8, <1>9, <1>10 DEF ApiInv

\* A key that is not found, or cannot be read, is passed.
LEMMA MissKeeps ==
  ASSUME ApiInv, NEW w \in Worker, NEW op \in {"fetch", "exists"}, Miss(w, op)
  PROVE ApiInv'
<1> DEFINE k == Head(todo[w])
<1>1. ApiTypeOK /\ Begun
  BY DEF ApiInv
<1>2. /\ Turn(w, op) /\ todo[w] # <<>> /\ Advance(w, result[w]) /\ map' = map
      /\ unread' = IF k \in Cached THEN [unread EXCEPT ![w] = @ \cup {k}] ELSE unread
  BY DEF Miss, Turn
<1>3. todo[w] \in Seq(Elements) /\ result[w] \in Seq(Buckets)
  BY <1>1 DEF ApiTypeOK
<1>4. /\ todo' \in [Worker -> Seq(Elements)] /\ result' \in [Worker -> Seq(Buckets)]
      /\ todo'[w] = Tail(todo[w]) /\ result'[w] = result[w]
      /\ \A u \in Worker : u # w => todo'[u] = todo[u] /\ result'[u] = result[u]
      /\ call' = call /\ before' = before /\ ncalls' = ncalls
  BY <1>1, <1>2, <1>3, AdvanceFacts
<1>5. /\ unread' \in [Worker -> SUBSET Key]
      /\ unread'[w] = IF k \in Cached THEN unread[w] \cup {k} ELSE unread[w]
      /\ \A u \in Worker : u # w => unread'[u] = unread[u]
  <2>1. unread \in [Worker -> SUBSET Key] /\ Cached \subseteq Key
    BY <1>1 DEF ApiTypeOK, Cached
  <2>2. CASE k \in Cached
    BY <1>2, <2>1, <2>2
  <2>3. CASE k \notin Cached
    BY <1>2, <2>1, <2>3
  <2> QED
    BY <2>2, <2>3
<1>6. Reported(w)' = Reported(w)
  BY <1>4 DEF Reported
<1>7. ApiTypeOK' /\ Begun'
  BY <1>1, <1>2, <1>4, <1>5 DEF ApiTypeOK, Begun
<1>8. AddLoop(w)' /\ LookupLoop(w)'
  BY <1>2, <1>4, <1>5, <1>6, LookupTurn
<1>9. ASSUME NEW u \in Worker, u # w PROVE AddLoop(u)' /\ LookupLoop(u)'
  BY <1>2, <1>4, <1>5, <1>9, OthersKeep
<1> QED
  BY <1>7, <1>8, <1>9 DEF ApiInv

\* A call returns.
LEMMA ReturnKeeps == ASSUME ApiInv, NEW w \in Worker, Return(w) PROVE ApiInv'
<1>1. ApiTypeOK /\ Begun
  BY DEF ApiInv
<1>2. /\ call'[w] = NoCall /\ result'[w] = <<>> /\ before'[w] = {} /\ todo'[w] = <<>>
      /\ map' = map /\ todo' = todo /\ ncalls' = ncalls
      /\ \A u \in Worker : u # w =>
           call'[u] = call[u] /\ result'[u] = result[u] /\ before'[u] = before[u] /\ unread'[u] = unread[u]
  BY <1>1 DEF Return, Returned, ApiTypeOK
<1>3. NoCall \in [op : Ops \cup {None}, keys : Seq(Elements)] /\ NoCall.keys = <<>>
  BY DEF NoCall
<1>4. ApiTypeOK'
  BY <1>1, <1>2, <1>3 DEF ApiTypeOK, Return
<1>5. Begun'
  BY <1>1, <1>2 DEF Begun
<1>6. AddLoop(w)' /\ LookupLoop(w)'
  <2>1. ToSet(<<>>) = {} /\ IsInjective(<<>>)
    BY DEF ToSet, IsInjective
  <2>2. Asked(w)' = {} /\ Reported(w)' = {}
    BY <1>2, <1>3, <2>1 DEF Asked, Reported
  <2> QED
    BY <1>2, <2>1, <2>2 DEF AddLoop, LookupLoop
<1>7. ASSUME NEW u \in Worker, u # w PROVE AddLoop(u)' /\ LookupLoop(u)'
  BY <1>2, <1>7, OthersKeep
<1> QED
  BY <1>4, <1>5, <1>6, <1>7 DEF ApiInv

-----------------------------------------------------------------------------
(* Theorems.                                                                 *)

\* Every step of every worker leaves every loop in order.
THEOREM ApiInvariance == Spec => []ApiInv
<1>1. ApiInv /\ [Next]_vars => ApiInv'
  <2> SUFFICES ASSUME ApiInv, [Next]_vars PROVE ApiInv'
    OBVIOUS
  <2>1. CASE Next
    <3>1. PICK w \in Worker :
             \/ \E op \in Ops : Call(w, op)
             \/ AddRefused(w) \/ AddStored(w)
             \/ FetchHit(w) \/ Miss(w, "fetch") \/ ExistsHit(w) \/ Miss(w, "exists")
             \/ Return(w)
      BY <2>1 DEF Next
    <3> QED
      BY <3>1, CallKeeps, AddRefusedKeeps, AddStoredKeeps, HitKeeps, MissKeeps, ReturnKeeps
  <2>2. CASE vars' = vars
    <3>1. \A u \in Worker : AddLoop(u)' /\ LookupLoop(u)'
      BY <2>2, OthersKeep DEF vars
    <3>2. ApiTypeOK' /\ Begun'
      BY <2>2 DEF vars, ApiInv, ApiTypeOK, Begun
    <3> QED
      BY <3>1, <3>2 DEF ApiInv
  <2> QED
    BY <2>1, <2>2
<1> QED
  BY <1>1, InitApi, PTL DEF Spec

\* When an array add returns, the keys it does not report, and only those, hold
\* the values it was given, whatever other workers added meanwhile.
THEOREM AddReportIsExact == Spec => []AddReportsFailures
<1>1. ApiInv => AddReportsFailures
  <2> SUFFICES ASSUME ApiInv, NEW w \in Worker, Returned(w), call[w].op = "add", NEW k \in Asked(w)
               PROVE k \in Reported(w) <=> map[k] # Value(w)
    BY DEF AddReportsFailures
  <2>1. ToSet(todo[w]) = {}
    BY DEF Returned, ToSet
  <2> QED
    BY <2>1 DEF ApiInv, AddLoop
<1> QED
  BY <1>1, ApiInvariance, PTL

\* An array lookup names every key that was cached when it began, unless its
\* lookup failed, and no key that is not cached when it returns.
THEOREM LookupIsBracketed == Spec => []LookupBracketed
<1>1. ApiInv => LookupBracketed
  <2> SUFFICES ASSUME ApiInv, NEW w \in Worker, Returned(w), call[w].op \in {"fetch", "exists"}
               PROVE /\ Reported(w) \subseteq Asked(w) \cap Cached
                     /\ (before[w] \cap Asked(w)) \ unread[w] \subseteq Reported(w)
    BY DEF LookupBracketed
  <2>1. ToSet(todo[w]) = {}
    BY DEF Returned, ToSet
  <2> QED
    BY <2>1 DEF ApiInv, LookupLoop
<1> QED
  BY <1>1, ApiInvariance, PTL

=============================================================================
