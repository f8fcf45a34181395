--------------------------- MODULE LifecycleProofs ---------------------------
(* Proofs about Lifecycle, for any number of workers, keys, requests and      *)
(* extensions, whatever these call themselves: all processes come to use one  *)
(* serializer, the configured one, and none that a request has unloaded.      *)
EXTENDS Lifecycle, TLAPS

-----------------------------------------------------------------------------
(* The inductive invariant.                                                  *)

Names   == Builtin \cup {f[e] : f \in Namings, e \in Ext}
SlotSet == [name : Names, impl : Impls]
Caches  == [exists : BOOLEAN, serializer : Impls \cup {None}, loaded_serializer : BOOLEAN]

\* Types of the variables.
LifeTypeOK ==
  /\ build \in [zts : BOOLEAN, igbinary : BOOLEAN, names : Namings]
  /\ started \in BOOLEAN
  /\ registry \in [Space -> Seq(SlotSet)]
  /\ user_cache \in [Space -> Caches]
  /\ exts \in [Space -> SUBSET Ext]
  /\ state \in [Worker -> {"unborn", "idle", "request", "down"}]
  /\ dynamic \in [Worker -> SUBSET Ext]
  /\ gone \in [Worker -> SUBSET Ext]
  /\ answer = [w \in Worker |-> answer[w]]

\* What the registry of the master has under the configured name: it can change
\* only before the first worker is born.
Chosen    == Find(registry[Main], ini.serializer)
AllUnborn == \A w \in Worker : state[w] = "unborn"

\* The master is not bound before there are workers, and has a cache to copy as
\* long as there are some to come.
Startup ==
  /\ ~started => AllUnborn /\ registry[Main] = <<>> /\ user_cache[Main] = NoCache
  /\ \A i \in DOMAIN registry[Main] : registry[Main][i].impl \in Builtin \cup exts[Main]
  /\ AllUnborn => ~user_cache[Main].loaded_serializer
  /\ \A w \in Worker : started /\ Enabled /\ state[w] # "down" => user_cache[Main].exists

\* A cache that is bound is bound to the chosen serializer; one that is not has
\* nothing else, and its registry is still the master's.
Bound(s) ==
  user_cache[s].exists =>
    /\ Enabled
    /\ user_cache[s].serializer \in {None, Chosen}
    /\ user_cache[s].loaded_serializer => user_cache[s].serializer = Chosen
    /\ ~user_cache[s].loaded_serializer => registry[s] = registry[Main]

\* A worker is bound by its first request, before the script can load anything;
\* what the script loads is not what the master had.
WorkerInv(w) ==
  /\ state[w] = "unborn" \/ Zts => ~user_cache[w].exists
  /\ state[w] \in {"idle", "request"} /\ Enabled => CacheOf(w).exists
  /\ (state[w] = "request" \/ gone[w] # {}) /\ CacheOf(w).exists => CacheOf(w).loaded_serializer
  /\ dynamic[w] # {} => state[w] = "request"
  /\ gone[w] # {} => state[w] # "unborn"
  /\ Zts => dynamic[w] = {} /\ gone[w] = {}
  /\ ~Zts /\ state[w] # "unborn" =>
       exts[w] = exts[Main] /\ (dynamic[w] \cup gone[w]) \cap exts[w] = {}

\* What requests have stored can be read with the chosen serializer.
Readable == {"native", IF Chosen = None THEN "php" ELSE Chosen}
Stored ==
  \A k \in DOMAIN store : store[k].at = "request" => store[k].enc \in Readable /\ ~AllUnborn

LifeInv ==
  /\ LifeTypeOK /\ Startup /\ Stored /\ RequestValuesDecoded
  /\ \A s \in Space : Bound(s)
  /\ \A w \in Worker : WorkerInv(w)

-----------------------------------------------------------------------------
(* The registry.                                                             *)

\* What find_serializer returns is in the table.
LEMMA FindFacts ==
  ASSUME NEW reg, NEW n
  PROVE Find(reg, n) = None \/ \E i \in DOMAIN reg : Find(reg, n) = reg[i].impl
  BY DEF Find, FirstSlot

\* A slot that is filled later hides no earlier one.
LEMMA FindAppend ==
  ASSUME NEW reg \in Seq(SlotSet), NEW r \in SlotSet, NEW n, Find(reg, n) # None
  PROVE Find(Append(reg, r), n) = Find(reg, n)
<1> DEFINE F == FirstSlot(reg, n)
           G == FirstSlot(Append(reg, r), n)
<1>1. /\ Len(reg) \in Nat /\ DOMAIN reg = 1 .. Len(reg)
      /\ DOMAIN Append(reg, r) = 1 .. Len(reg) + 1
      /\ \A i \in 1 .. Len(reg) : Append(reg, r)[i] = reg[i]
  OBVIOUS
<1>2. F # {}
  BY DEF Find
<1>3. PICK i \in 1 .. Len(reg) : reg[i].name = n /\ \A j \in 1 .. i - 1 : reg[j].name # n
  BY <1>1, <1>2 DEF FirstSlot
<1>4. \A j \in F : j = i
  <2> SUFFICES ASSUME NEW j \in F, j # i PROVE FALSE
    OBVIOUS
  <2>1. j \in 1 .. Len(reg) /\ reg[j].name = n /\ \A h \in 1 .. j - 1 : reg[h].name # n
    BY <1>1 DEF FirstSlot
  <2>2. j \in 1 .. i - 1 \/ i \in 1 .. j - 1
    BY <1>1, <1>3, <2>1
  <2> QED
    BY <1>3, <2>1, <2>2
<1>5. \A j \in G : j = i
  <2> SUFFICES ASSUME NEW j \in G, j # i PROVE FALSE
    OBVIOUS
  <2>1. /\ j \in 1 .. Len(reg) + 1 /\ Append(reg, r)[j].name = n
        /\ \A h \in 1 .. j - 1 : Append(reg, r)[h].name # n
    BY <1>1 DEF FirstSlot
  <2>2. j \in 1 .. i - 1 \/ i \in 1 .. j - 1
    BY <1>1, <1>3, <2>1
  <2>3. i \notin 1 .. j - 1
    BY <1>1, <1>3, <2>1
  <2>4. j \in 1 .. i - 1 => j \in 1 .. Len(reg)
    BY <1>1, <1>3
  <2>5. j \in 1 .. i - 1 => reg[j].name = n
    BY <1>1, <2>1, <2>4
  <2> QED
    BY <1>3, <2>2, <2>3, <2>5
<1>6. i \in 1 .. Len(reg) + 1 /\ \A j \in 1 .. i - 1 : j \in 1 .. Len(reg)
  BY <1>1
<1>7. i \in F
  BY <1>1, <1>3 DEF FirstSlot
<1>8. i \in G
  BY <1>1, <1>3, <1>6 DEF FirstSlot
<1>9. F = {i} /\ G = {i}
  BY <1>4, <1>5, <1>7, <1>8
<1> HIDE DEF F, G
<1>10. (CHOOSE j \in F : TRUE) = i /\ (CHOOSE j \in G : TRUE) = i
  BY <1>9
<1> QED
  BY <1>1, <1>9, <1>10 DEF Find, F, G

\* An extension registers at most one serializer, its own.
LEMMA RegisterFacts ==
  ASSUME NEW reg \in Seq(SlotSet), NEW name \in Names, NEW impl \in Impls
  PROVE  /\ Register(reg, name, impl) \in Seq(SlotSet)
         /\ \A i \in DOMAIN Register(reg, name, impl) :
              \/ Register(reg, name, impl)[i].impl = impl
              \/ i \in DOMAIN reg /\ Register(reg, name, impl)[i] = reg[i]
         /\ \A n : Find(reg, n) # None => Find(Register(reg, name, impl), n) = Find(reg, n)
<1> DEFINE r == [name |-> name, impl |-> impl]
<1>1. r \in SlotSet /\ r.impl = impl
  BY DEF SlotSet
<1>2. CASE Register(reg, name, impl) = reg
  BY <1>2
<1>3. CASE Register(reg, name, impl) = Append(reg, r)
  <2> HIDE DEF r
  <2>1. Append(reg, r) \in Seq(SlotSet)
    BY <1>1
  <2>2. \A i \in DOMAIN Append(reg, r) : Append(reg, r)[i] = r \/ (i \in DOMAIN reg /\ Append(reg, r)[i] = reg[i])
    BY <1>1
  <2>3. \A n : Find(reg, n) # None => Find(Append(reg, r), n) = Find(reg, n)
    BY <1>1, FindAppend
  <2> QED
    BY <1>1, <1>3, <2>1, <2>2, <2>3
<1> QED
  BY <1>2, <1>3 DEF Register

\* MINIT registers the serializers the extension was built with.
LEMMA BuiltinFacts ==
  /\ BuiltinRegistry \in Seq(SlotSet)
  /\ \A i \in DOMAIN BuiltinRegistry : BuiltinRegistry[i].impl \in Builtin
<1> DEFINE php == Register(<<>>, "php", "php")
           both == Register(php, "igbinary", "igbinary")
<1>1. <<>> \in Seq(SlotSet) /\ DOMAIN <<>> = {}
  OBVIOUS
<1>2. {"php", "igbinary"} \subseteq Names /\ {"php", "igbinary"} \subseteq Impls
  BY DEF Names, Impls, Builtin
<1>3. php \in Seq(SlotSet) /\ \A i \in DOMAIN php : php[i].impl \in Builtin
  BY <1>1, <1>2, RegisterFacts DEF Builtin
<1> HIDE DEF php
<1>4. both \in Seq(SlotSet) /\ \A i \in DOMAIN both : both[i].impl \in Builtin
  <2>1. "igbinary" \in Builtin
    BY DEF Builtin
  <2> QED
    BY ZenonT(40), <1>2, <1>3, <2>1, RegisterFacts
<1> HIDE DEF both
<1>5. BuiltinRegistry = IF build.igbinary THEN both ELSE php
  BY DEF BuiltinRegistry, php, both
<1> QED
  BY <1>3, <1>4, <1>5

\* RINIT and store_helper bind a cache once and for all.
LEMMA BindFacts ==
  ASSUME NEW c \in Caches, NEW reg \in Seq(SlotSet), NEW n
  PROVE  /\ BindOnce(c, reg, n) \in Caches
         /\ BindOnce(c, reg, n).exists = c.exists
         /\ BindOnce(c, reg, n).loaded_serializer
         /\ BindOnce(c, reg, n).serializer =
              IF c.loaded_serializer \/ c.serializer # None THEN c.serializer ELSE Find(reg, n)
<1> DEFINE f == Find(reg, n)
           l == f # None \/ n = "php"
<1>1. \A i \in DOMAIN reg : reg[i] \in SlotSet
  OBVIOUS
<1>2. f \in Impls \cup {None}
  BY <1>1, FindFacts DEF SlotSet
<1>3. l \in BOOLEAN
  OBVIOUS
<1>4. BindSerializer(c, reg, n) = IF c.loaded_serializer \/ c.serializer # None THEN c
                                  ELSE [c EXCEPT !.serializer = f, !.loaded_serializer = l]
  BY DEF BindSerializer
<1> HIDE DEF f, l
<1>5. c.exists \in BOOLEAN /\ c.serializer \in Impls \cup {None}
  BY DEF Caches
<1>6. CASE c.loaded_serializer \/ c.serializer # None
  <2>1. BindOnce(c, reg, n) = [c EXCEPT !.loaded_serializer = TRUE]
    BY <1>4, <1>6 DEF BindOnce
  <2> QED
    BY <1>6, <2>1 DEF Caches
<1>7. CASE ~(c.loaded_serializer \/ c.serializer # None)
  <2>1. BindOnce(c, reg, n) = [[c EXCEPT !.serializer = f, !.loaded_serializer = l] EXCEPT !.loaded_serializer = TRUE]
    BY <1>4, <1>7 DEF BindOnce
  <2>2. BindOnce(c, reg, n) = [exists |-> c.exists, serializer |-> f, loaded_serializer |-> TRUE]
    BY <2>1 DEF Caches
  <2> QED
    BY <1>2, <1>5, <1>7, <2>2 DEF Caches, f
<1> QED
  BY <1>6, <1>7

-----------------------------------------------------------------------------
(* Requests.                                                                 *)

\* The space of a worker, and the one of the master.
LEMMA SpaceFacts ==
  ASSUME NEW w \in Worker
  PROVE  SpaceOf(w) \in Space /\ Main \in Space /\ w \in Space /\ w # Main
  BY LifecycleAssumption DEF SpaceOf, Space

\* Binding the cache of a worker makes the chosen serializer its own.
LEMMA ReboundFacts ==
  ASSUME LifeInv, NEW w \in Worker
  PROVE  /\ Rebound(w) \in [Space -> Caches]
         /\ \A s \in Space : Rebound(w)[s].exists = user_cache[s].exists
         /\ \A s \in Space : s # SpaceOf(w) => Rebound(w)[s] = user_cache[s]
         /\ Rebound(w)[SpaceOf(w)].exists =>
              /\ Rebound(w)[SpaceOf(w)].loaded_serializer
              /\ Rebound(w)[SpaceOf(w)].serializer = Chosen
<1> DEFINE s == SpaceOf(w)
           c == BindOnce(user_cache[s], registry[s], ini.serializer)
<1>1. s \in Space
  BY SpaceFacts
<1>2. user_cache \in [Space -> Caches] /\ registry \in [Space -> Seq(SlotSet)] /\ Bound(s)
  BY <1>1 DEF LifeInv, LifeTypeOK
<1>3. /\ c \in Caches /\ c.exists = user_cache[s].exists /\ c.loaded_serializer
      /\ c.serializer = IF user_cache[s].loaded_serializer \/ user_cache[s].serializer # None
                          THEN user_cache[s].serializer ELSE Find(registry[s], ini.serializer)
  BY <1>1, <1>2, BindFacts
<1>4. Rebound(w) = IF user_cache[s].exists THEN [user_cache EXCEPT ![s] = c] ELSE user_cache
  BY DEF Rebound, CacheOf
<1> HIDE DEF c, s
<1>5. CASE user_cache[s].exists
  <2>1. c.serializer = Chosen
    BY <1>2, <1>3, <1>5 DEF Bound, Chosen
  <2>2. Rebound(w) = [user_cache EXCEPT ![s] = c]
    BY <1>4, <1>5
  <2>3. Rebound(w)[s] = c /\ \A x \in Space : x # s => Rebound(w)[x] = user_cache[x]
    BY <1>1, <1>2, <2>2
  <2>4. Rebound(w) \in [Space -> Caches]
    BY <1>2, <1>3, <2>2
  <2>5. \A x \in Space : Rebound(w)[x].exists = user_cache[x].exists
    BY <1>3, <2>3
  <2> QED
    BY <1>3, <2>1, <2>3, <2>4, <2>5 DEF s
<1>6. CASE ~user_cache[s].exists
  BY <1>1, <1>2, <1>4, <1>6 DEF s
<1> QED
  BY <1>5, <1>6

\* Requests change neither the choice nor what the master began with.
LEMMA RequestKeeps ==
  ASSUME LifeInv, NEW w \in Worker, user_cache' = Rebound(w),
         build' = build, ini' = ini, started' = started,
         registry' = registry, exts' = exts, dynamic' = dynamic, gone' = gone,
         state[w] \in {"idle", "request"}, state' \in [Worker -> {"unborn", "idle", "request", "down"}],
         state'[w] = "request", \A u \in Worker : u # w => state'[u] = state[u]
  PROVE  /\ user_cache' \in [Space -> Caches] /\ Startup' /\ Chosen' = Chosen /\ ~AllUnborn'
         /\ \A s \in Space : Bound(s)'
         /\ \A u \in Worker : WorkerInv(u)'
<1>1. /\ user_cache' \in [Space -> Caches]
      /\ \A s \in Space : user_cache'[s].exists = user_cache[s].exists
      /\ \A s \in Space : s # SpaceOf(w) => user_cache'[s] = user_cache[s]
      /\ user_cache'[SpaceOf(w)].exists =>
           /\ user_cache'[SpaceOf(w)].loaded_serializer
           /\ user_cache'[SpaceOf(w)].serializer = Chosen
  BY ReboundFacts
<1>2. Chosen' = Chosen /\ Enabled' = Enabled /\ Zts' = Zts /\ \A u \in Worker : SpaceOf(u)' = SpaceOf(u)
  BY DEF Chosen, Enabled, Zts, SpaceOf
<1>3. ~AllUnborn' /\ ~AllUnborn
  BY DEF AllUnborn
<1>4. \A u \in Worker : SpaceOf(u) \in Space /\ u \in Space /\ u # Main /\ Main \in Space
  BY SpaceFacts
<1>5. Startup'
  BY <1>1, <1>2, <1>3, <1>4 DEF LifeInv, Startup
<1>6. ASSUME NEW s \in Space PROVE Bound(s)'
  <2>1. Bound(s)
    BY DEF LifeInv
  <2>2. CASE s = SpaceOf(w)
    BY <1>1, <1>2, <2>1, <2>2 DEF Bound
  <2>3. CASE s # SpaceOf(w)
    BY <1>1, <1>2, <2>1, <2>3 DEF Bound
  <2> QED
    BY <2>2, <2>3
<1>7. ASSUME NEW u \in Worker PROVE WorkerInv(u)'
  <2>1. WorkerInv(u)
    BY DEF LifeInv
  <2>2. CacheOf(u)' = user_cache'[SpaceOf(u)] /\ CacheOf(u) = user_cache[SpaceOf(u)]
    BY <1>2 DEF CacheOf
  <2>3. /\ CacheOf(u)'.exists = CacheOf(u).exists
        /\ CacheOf(u).exists /\ CacheOf(u).loaded_serializer => CacheOf(u)'.loaded_serializer
        /\ u = w /\ CacheOf(u)'.exists => CacheOf(u)'.loaded_serializer
    BY <1>1, <1>4, <2>2
  <2>4. user_cache'[u].exists = user_cache[u].exists
    BY <1>1, <1>4
  <2>5. CASE u = w
    BY <1>2, <2>1, <2>3, <2>4, <2>5 DEF WorkerInv
  <2>6. CASE u # w
    BY <1>2, <2>1, <2>3, <2>4, <2>6 DEF WorkerInv
  <2> QED
    BY <2>5, <2>6
<1> QED
  BY <1>1, <1>2, <1>3, <1>5, <1>6, <1>7

\* A request begins.
LEMMA RinitKeeps == ASSUME LifeInv, NEW w \in Worker, Rinit(w) PROVE LifeInv'
<1>1. /\ user_cache' = Rebound(w) /\ build' = build /\ ini' = ini /\ started' = started
      /\ registry' = registry /\ exts' = exts /\ dynamic' = dynamic /\ gone' = gone
      /\ store' = store /\ answer' = answer
      /\ state[w] = "idle" /\ state' = [state EXCEPT ![w] = "request"]
  BY DEF Rinit, server
<1>2. LifeTypeOK
  BY DEF LifeInv
<1>3. /\ state' \in [Worker -> {"unborn", "idle", "request", "down"}]
      /\ state'[w] = "request" /\ \A u \in Worker : u # w => state'[u] = state[u]
  BY <1>1, <1>2 DEF LifeTypeOK
<1>4. /\ user_cache' \in [Space -> Caches] /\ Startup' /\ Chosen' = Chosen /\ ~AllUnborn'
      /\ \A s \in Space : Bound(s)'
      /\ \A u \in Worker : WorkerInv(u)'
  BY <1>1, <1>3, RequestKeeps
<1>5. LifeTypeOK'
  BY <1>1, <1>2, <1>3, <1>4 DEF LifeTypeOK
<1>6. Stored' /\ RequestValuesDecoded'
  BY <1>1, <1>4 DEF LifeInv, Stored, Readable, RequestValuesDecoded, Found
<1> QED
  BY <1>4, <1>5, <1>6 DEF LifeInv

\* A request stores a value with the chosen serializer.
LEMMA AddKeeps ==
  ASSUME LifeInv, NEW w \in Worker, NEW k \in Key, NEW kind \in Kinds, Add(w, k, kind)
  PROVE LifeInv'
<1> DEFINE c == user_cache'[SpaceOf(w)]
<1>1. /\ user_cache' = Rebound(w) /\ build' = build /\ ini' = ini /\ started' = started
      /\ registry' = registry /\ exts' = exts /\ dynamic' = dynamic /\ gone' = gone
      /\ answer' = answer /\ state' = state /\ state[w] = "request"
  BY DEF Add
<1>2. LifeTypeOK
  BY DEF LifeInv
<1>3. state' \in [Worker -> {"unborn", "idle", "request", "down"}] /\ state'[w] = "request"
  BY <1>1, <1>2 DEF LifeTypeOK
<1>4. /\ user_cache' \in [Space -> Caches] /\ Startup' /\ Chosen' = Chosen /\ ~AllUnborn'
      /\ \A s \in Space : Bound(s)'
      /\ \A u \in Worker : WorkerInv(u)'
  BY <1>1, <1>3, RequestKeeps
<1>5. LifeTypeOK'
  BY <1>1, <1>2, <1>3, <1>4 DEF LifeTypeOK
<1>6. RequestValuesDecoded'
  BY <1>1 DEF LifeInv, RequestValuesDecoded, Found
<1>7. Readable' = Readable /\ Stored
  BY <1>4 DEF Readable, LifeInv
<1>8. CASE store' = store
  <2>1. Stored'
    BY <1>4, <1>7, <1>8 DEF Stored
  <2> QED
    BY <1>4, <1>5, <1>6, <2>1 DEF LifeInv
<1>9. CASE /\ CacheOf(w).exists
           /\ store' = [x \in DOMAIN store \cup {k} |->
                          IF x = k THEN [enc |-> Encoder(c, kind), at |-> "request"] ELSE store[x]]
  <2>1. SpaceOf(w) \in Space
    BY SpaceFacts
  <2>2. c.exists
    BY <1>1, <1>9, <2>1, ReboundFacts DEF CacheOf
  <2>3. c.serializer = Chosen
    BY <1>1, <2>2, ReboundFacts
  <2>4. Encoder(c, kind) \in Readable
    BY <2>3 DEF Encoder, Readable, Kinds
  <2> HIDE DEF c
  <2>5. DOMAIN store' = DOMAIN store \cup {k}
    BY <1>9
  <2>6. \A x \in DOMAIN store' : store'[x].enc \in Readable \/ (x \in DOMAIN store /\ store'[x] = store[x])
    BY <1>9, <2>4
  <2>7. Stored'
    BY <1>4, <1>7, <2>5, <2>6 DEF Stored
  <2> QED
    BY <1>4, <1>5, <1>6, <2>7 DEF LifeInv
<1> QED
  BY <1>8, <1>9 DEF Add

\* A fetch answers from the table as it is.
LEMMA FetchKeeps == ASSUME LifeInv, NEW w \in Worker, NEW k \in Key, Fetch(w, k) PROVE LifeInv'
<1>1. /\ user_cache' = user_cache /\ build' = build /\ ini' = ini /\ started' = started
      /\ registry' = registry /\ exts' = exts /\ dynamic' = dynamic /\ gone' = gone
      /\ store' = store /\ state' = state
      /\ answer' = [answer EXCEPT ![w] = Outcome(w, k)] /\ state[w] = "request"
  BY DEF Fetch, server, process
<1>2. LifeTypeOK /\ Stored
  BY DEF LifeInv
<1>3. /\ answer' = [u \in Worker |-> answer'[u]] /\ answer'[w] = Outcome(w, k)
      /\ \A u \in Worker : u # w => answer'[u] = answer[u]
  BY <1>1, <1>2 DEF LifeTypeOK
<1>4. LifeTypeOK'
  BY <1>1, <1>2, <1>3 DEF LifeTypeOK
<1>5. Startup' /\ Stored' /\ (\A s \in Space : Bound(s)') /\ \A u \in Worker : WorkerInv(u)'
  BY <1>1 DEF LifeInv, Startup, Stored, Bound, WorkerInv, Readable, Chosen, AllUnborn, Enabled, Zts, CacheOf, SpaceOf
<1>6. ASSUME NEW u \in Worker, Found(u)', answer'[u].at = "request" PROVE answer'[u].decoded
  <2>1. CASE u # w
    BY <1>3, <1>6, <2>1 DEF LifeInv, RequestValuesDecoded, Found
  <2>2. CASE u = w
    <3>1. Outcome(w, k).found /\ Outcome(w, k).at = "request"
      BY <1>3, <1>6, <2>2 DEF Found
    <3>2. /\ CacheOf(w).exists /\ k \in DOMAIN store
          /\ Outcome(w, k) = [found |-> TRUE, at |-> store[k].at,
                              decoded |-> store[k].enc \in {"native", Decoder(CacheOf(w))}]
      <4>1. ~[found |-> FALSE].found
        OBVIOUS
      <4> QED
        BY <3>1, <4>1 DEF Outcome
    <3>3. store[k].enc \in Readable
      BY <1>2, <3>1, <3>2 DEF Stored
    <3>4. SpaceOf(w) \in Space
      BY SpaceFacts
    <3>5. Bound(SpaceOf(w)) /\ WorkerInv(w)
      BY <3>4 DEF LifeInv
    <3>6. CacheOf(w).serializer = Chosen
      BY <1>1, <3>2, <3>5 DEF Bound, WorkerInv, CacheOf
    <3>7. store[k].enc \in {"native", Decoder(CacheOf(w))}
      BY <3>3, <3>6 DEF Decoder, Readable
    <3> DEFINE d == store[k].enc \in {"native", Decoder(CacheOf(w))}
    <3>8. d = TRUE /\ Outcome(w, k) = [found |-> TRUE, at |-> store[k].at, decoded |-> d]
      BY <3>2, <3>7
    <3> HIDE DEF d
    <3>9. Outcome(w, k).decoded = TRUE
      BY <3>8
    <3>10. answer'[u] = Outcome(w, k)
      BY <1>3, <2>2
    <3> QED
      BY <3>9, <3>10, Zenon
  <2> QED
    BY <2>1, <2>2
<1> QED
  BY <1>4, <1>5, <1>6 DEF LifeInv, RequestValuesDecoded

\* A script loads an extension: the process is bound already.
LEMMA DlKeeps == ASSUME LifeInv, NEW w \in Worker, NEW e \in Ext, Dl(w, e) PROVE LifeInv'
<1>1. /\ user_cache' = user_cache /\ build' = build /\ ini' = ini /\ started' = started
      /\ exts' = exts /\ gone' = gone /\ store' = store /\ state' = state /\ answer' = answer
      /\ state[w] = "request" /\ ~Zts /\ e \notin exts[w] \cup dynamic[w] \cup gone[w]
      /\ dynamic' = [dynamic EXCEPT ![w] = @ \cup {e}]
  BY DEF Dl, server
<1>2. LifeTypeOK
  BY DEF LifeInv
<1>3. w \in Space /\ w # Main /\ Main \in Space
  BY SpaceFacts
<1>4. registry' \in [Space -> Seq(SlotSet)] /\ \A s \in Space : s # w => registry'[s] = registry[s]
  <2>1. registry[w] \in Seq(SlotSet) /\ registry \in [Space -> Seq(SlotSet)]
    BY <1>2, <1>3 DEF LifeTypeOK
  <2>2. NameOf(e) \in Names /\ e \in Impls
    BY <1>2 DEF LifeTypeOK, NameOf, Names, Impls
  <2>3. Register(registry[w], NameOf(e), e) \in Seq(SlotSet)
    BY <2>1, <2>2, RegisterFacts
  <2>4. registry' = registry \/ registry' = [registry EXCEPT ![w] = Register(registry[w], NameOf(e), e)]
    BY DEF Dl
  <2> QED
    BY <1>3, <2>1, <2>3, <2>4
<1>5. /\ dynamic' \in [Worker -> SUBSET Ext] /\ dynamic'[w] = dynamic[w] \cup {e}
      /\ \A u \in Worker : u # w => dynamic'[u] = dynamic[u]
  BY <1>1, <1>2 DEF LifeTypeOK
<1>6. LifeTypeOK'
  BY <1>1, <1>2, <1>4, <1>5 DEF LifeTypeOK
<1>7. /\ registry'[Main] = registry[Main] /\ Chosen' = Chosen /\ AllUnborn' = AllUnborn
      /\ Enabled' = Enabled /\ Zts' = Zts /\ \A u \in Worker : CacheOf(u)' = CacheOf(u)
  BY <1>1, <1>3, <1>4 DEF Chosen, AllUnborn, Enabled, Zts, CacheOf, SpaceOf
<1>8. Startup' /\ Stored' /\ RequestValuesDecoded'
  BY <1>1, <1>7 DEF LifeInv, Startup, Stored, Readable, RequestValuesDecoded, Found
<1>9. ASSUME NEW s \in Space PROVE Bound(s)'
  <2>1. Bound(s) /\ WorkerInv(w)
    BY DEF LifeInv
  <2>2. s = w => (user_cache[s].exists => user_cache[s].loaded_serializer)
    BY <1>1, <2>1 DEF WorkerInv, CacheOf, SpaceOf
  <2> QED
    BY <1>1, <1>4, <1>7, <2>1, <2>2 DEF Bound
<1>10. ASSUME NEW u \in Worker PROVE WorkerInv(u)'
  <2>1. WorkerInv(u)
    BY DEF LifeInv
  <2>2. CASE u = w
    BY <1>1, <1>5, <1>7, <2>1, <2>2 DEF WorkerInv
  <2>3. CASE u # w
    BY <1>1, <1>5, <1>7, <2>1, <2>3 DEF WorkerInv
  <2> QED
    BY <2>2, <2>3
<1> QED
  BY <1>6, <1>8, <1>9, <1>10 DEF LifeInv

\* A request ends, and PHP unloads what it had loaded.
LEMMA EndRequestKeeps == ASSUME LifeInv, NEW w \in Worker, EndRequest(w) PROVE LifeInv'
<1>1. /\ user_cache' = user_cache /\ build' = build /\ ini' = ini /\ started' = started
      /\ registry' = registry /\ exts' = exts /\ store' = store
      /\ state[w] = "request" /\ state' = [state EXCEPT ![w] = "idle"]
      /\ gone' = [gone EXCEPT ![w] = @ \cup dynamic[w]] /\ dynamic' = [dynamic EXCEPT ![w] = {}]
      /\ answer' = [answer EXCEPT ![w] = None]
  BY DEF EndRequest, server
<1>2. LifeTypeOK
  BY DEF LifeInv
<1>3. LifeTypeOK'
  BY <1>1, <1>2 DEF LifeTypeOK
<1>4. /\ state'[w] = "idle" /\ gone'[w] = gone[w] \cup dynamic[w] /\ dynamic'[w] = {} /\ answer'[w] = None
      /\ \A u \in Worker : u # w => /\ state'[u] = state[u] /\ gone'[u] = gone[u]
                                    /\ dynamic'[u] = dynamic[u] /\ answer'[u] = answer[u]
  BY <1>1, <1>2 DEF LifeTypeOK
<1>5. ~AllUnborn /\ ~AllUnborn'
  BY <1>1, <1>4 DEF AllUnborn
<1>6. /\ Chosen' = Chosen /\ Enabled' = Enabled /\ Zts' = Zts /\ \A u \in Worker : CacheOf(u)' = CacheOf(u)
  BY <1>1 DEF Chosen, Enabled, Zts, CacheOf, SpaceOf
<1>7. Startup'
  BY <1>1, <1>4, <1>5, <1>6 DEF LifeInv, Startup
<1>8. Stored' /\ \A s \in Space : Bound(s)'
  BY <1>1, <1>5, <1>6 DEF LifeInv, Stored, Readable, Bound
<1>9. RequestValuesDecoded'
  BY <1>4 DEF LifeInv, RequestValuesDecoded, Found
<1>10. ASSUME NEW u \in Worker PROVE WorkerInv(u)'
  <2>1. WorkerInv(u)
    BY DEF LifeInv
  <2>2. CASE u = w
    BY <1>1, <1>4, <1>6, <2>1, <2>2 DEF WorkerInv
  <2>3. CASE u # w
    BY <1>1, <1>4, <1>6, <2>1, <2>3 DEF WorkerInv
  <2> QED
    BY <2>2, <2>3
<1> QED
  BY <1>3, <1>7, <1>8, <1>9, <1>10 DEF LifeInv

-----------------------------------------------------------------------------
(* Startup and shutdown.                                                     *)

\* A worker is born.
LEMMA ForkKeeps == ASSUME LifeInv, NEW w \in Worker, Fork(w) PROVE LifeInv'
<1>1. /\ build' = build /\ ini' = ini /\ started' = started /\ store' = store
      /\ dynamic' = dynamic /\ gone' = gone /\ answer' = answer
      /\ started /\ state[w] = "unborn" /\ state' = [state EXCEPT ![w] = "idle"]
      /\ registry' = CopyOfMain(registry, w) /\ user_cache' = CopyOfMain(user_cache, w)
      /\ exts' = CopyOfMain(exts, w)
  BY DEF Fork, server
<1>2. LifeTypeOK
  BY DEF LifeInv
<1>3. w \in Space /\ w # Main /\ Main \in Space
  BY SpaceFacts
<1>4. /\ state' \in [Worker -> {"unborn", "idle", "request", "down"}] /\ state'[w] = "idle"
      /\ \A u \in Worker : u # w => state'[u] = state[u]
  BY <1>1, <1>2 DEF LifeTypeOK
<1>5. /\ registry' \in [Space -> Seq(SlotSet)] /\ user_cache' \in [Space -> Caches] /\ exts' \in [Space -> SUBSET Ext]
      /\ \A s \in Space : s # w => registry'[s] = registry[s] /\ user_cache'[s] = user_cache[s] /\ exts'[s] = exts[s]
  BY <1>1, <1>2, <1>3 DEF LifeTypeOK, CopyOfMain
<1>6. IF Zts THEN registry'[w] = registry[w] /\ user_cache'[w] = user_cache[w] /\ exts'[w] = exts[w]
             ELSE registry'[w] = registry[Main] /\ user_cache'[w] = user_cache[Main] /\ exts'[w] = exts[Main]
  BY <1>1, <1>2, <1>3 DEF LifeTypeOK, CopyOfMain
<1>7. LifeTypeOK'
  BY <1>1, <1>2, <1>4, <1>5 DEF LifeTypeOK
<1>8. /\ registry'[Main] = registry[Main] /\ user_cache'[Main] = user_cache[Main] /\ exts'[Main] = exts[Main]
      /\ Chosen' = Chosen /\ ~AllUnborn' /\ Enabled' = Enabled /\ Zts' = Zts
      /\ \A u \in Worker : SpaceOf(u)' = SpaceOf(u)
  BY <1>1, <1>3, <1>4, <1>5 DEF Chosen, AllUnborn, Enabled, Zts, SpaceOf
<1>9. Startup'
  BY <1>1, <1>4, <1>8 DEF LifeInv, Startup
<1>10. Stored' /\ RequestValuesDecoded'
  BY <1>1, <1>8 DEF LifeInv, Stored, Readable, RequestValuesDecoded, Found
<1>11. ASSUME NEW s \in Space PROVE Bound(s)'
  <2>1. Bound(s) /\ Bound(Main)
    BY <1>3 DEF LifeInv
  <2>2. CASE s # w \/ Zts
    BY <1>5, <1>6, <1>8, <2>1, <2>2 DEF Bound
  <2>3. CASE s = w /\ ~Zts
    BY <1>6, <1>8, <2>1, <2>3 DEF Bound
  <2> QED
    BY <2>2, <2>3
<1>12. ASSUME NEW u \in Worker PROVE WorkerInv(u)'
  <2>1. WorkerInv(u) /\ Startup
    BY DEF LifeInv
  <2>2. u \in Space /\ SpaceOf(u) = IF Zts THEN Main ELSE u
    BY SpaceFacts DEF SpaceOf
  <2>3. CASE u # w
    <3>1. CacheOf(u)' = CacheOf(u) /\ user_cache'[u] = user_cache[u] /\ exts'[u] = exts[u]
      BY <1>5, <1>8, <2>2, <2>3 DEF CacheOf
    <3> QED
      BY <1>1, <1>4, <1>8, <2>1, <2>3, <3>1 DEF WorkerInv
  <2>4. CASE u = w
    <3>1. CacheOf(w)' = user_cache[Main] /\ dynamic[w] = {} /\ gone[w] = {}
      BY <1>1, <1>6, <1>8, <2>1, <2>2, <2>4 DEF CacheOf, WorkerInv
    <3>2. Enabled => user_cache[Main].exists
      BY <1>1, <2>1 DEF Startup
    <3> QED
      BY <1>1, <1>4, <1>6, <1>8, <2>1, <2>4, <3>1, <3>2 DEF WorkerInv
  <2> QED
    BY <2>3, <2>4
<1> QED
  BY <1>7, <1>9, <1>10, <1>11, <1>12 DEF LifeInv

\* Another extension starts.
LEMMA LoadExtKeeps == ASSUME LifeInv, NEW e \in Ext, LoadExt(e) PROVE LifeInv'
<1>1. /\ build' = build /\ ini' = ini /\ started' = started /\ store' = store
      /\ user_cache' = user_cache /\ dynamic' = dynamic /\ gone' = gone
      /\ state' = state /\ answer' = answer
      /\ AllUnborn /\ exts' = [exts EXCEPT ![Main] = @ \cup {e}]
  BY DEF LoadExt, server, AllUnborn
<1>2. LifeTypeOK /\ Startup
  BY DEF LifeInv
<1>3. Main \in Space /\ \A w \in Worker : w \in Space /\ w # Main
  BY SpaceFacts DEF Space
<1>4. exts' \in [Space -> SUBSET Ext] /\ exts'[Main] = exts[Main] \cup {e}
  BY <1>1, <1>2, <1>3 DEF LifeTypeOK
<1>5. registry[Main] \in Seq(SlotSet) /\ registry \in [Space -> Seq(SlotSet)]
  BY <1>2, <1>3 DEF LifeTypeOK
<1>6. NameOf(e) \in Names /\ e \in Impls
  BY <1>2 DEF LifeTypeOK, NameOf, Names, Impls
<1>7. /\ Register(registry[Main], NameOf(e), e) \in Seq(SlotSet)
      /\ \A i \in DOMAIN Register(registry[Main], NameOf(e), e) :
           \/ Register(registry[Main], NameOf(e), e)[i].impl = e
           \/ i \in DOMAIN registry[Main] /\ Register(registry[Main], NameOf(e), e)[i] = registry[Main][i]
      /\ \A n : Find(registry[Main], n) # None =>
           Find(Register(registry[Main], NameOf(e), e), n) = Find(registry[Main], n)
  BY <1>5, <1>6, RegisterFacts
<1>8. /\ registry' \in [Space -> Seq(SlotSet)]
      /\ \/ registry' = registry
         \/ started /\ registry'[Main] = Register(registry[Main], NameOf(e), e)
  BY <1>3, <1>5, <1>7 DEF LoadExt
<1>9. \A i \in DOMAIN registry'[Main] : registry'[Main][i].impl \in Builtin \cup exts'[Main]
  <2>1. \A i \in DOMAIN registry[Main] : registry[Main][i].impl \in Builtin \cup exts[Main]
    BY <1>2 DEF Startup
  <2> QED
    BY <1>4, <1>7, <1>8, <2>1
<1>10. Chosen # None => Chosen' = Chosen
  BY <1>1, <1>7, <1>8 DEF Chosen
<1>11. AllUnborn' /\ Enabled' = Enabled /\ Zts' = Zts /\ \A u \in Worker : CacheOf(u)' = CacheOf(u)
  BY <1>1 DEF AllUnborn, Enabled, Zts, CacheOf, SpaceOf
<1>12. LifeTypeOK'
  BY <1>1, <1>2, <1>4, <1>8 DEF LifeTypeOK
<1>13. Startup'
  BY <1>1, <1>2, <1>8, <1>9, <1>11 DEF Startup
<1>14. Stored' /\ RequestValuesDecoded'
  BY <1>1 DEF LifeInv, Stored, RequestValuesDecoded, Found
<1>15. ASSUME NEW s \in Space PROVE Bound(s)'
  <2>1. CASE s = Main
    <3>1. Bound(Main) /\ ~user_cache[Main].loaded_serializer
      BY <1>1, <1>2, <2>1 DEF LifeInv, Startup
    <3> QED
      BY <1>1, <1>10, <1>11, <2>1, <3>1 DEF Bound
  <2>2. CASE s \in Worker
    BY <1>1, <2>2 DEF LifeInv, WorkerInv, AllUnborn, Bound
  <2> QED
    BY <2>1, <2>2 DEF Space
<1>16. ASSUME NEW u \in Worker PROVE WorkerInv(u)'
  <2>1. WorkerInv(u) /\ state[u] = "unborn"
    BY <1>1 DEF LifeInv, AllUnborn
  <2> QED
    BY <1>1, <1>11, <2>1 DEF WorkerInv
<1> QED
  BY <1>12, <1>13, <1>14, <1>15, <1>16 DEF LifeInv

\* The extension starts, and preloads.
LEMMA MinitKeeps == ASSUME LifeInv, Minit PROVE LifeInv'
<1>1. /\ build' = build /\ ini' = ini /\ started' = TRUE /\ ~started
      /\ exts' = exts /\ dynamic' = dynamic /\ gone' = gone /\ state' = state /\ answer' = answer
  BY DEF Minit
<1>2. LifeTypeOK /\ Startup
  BY DEF LifeInv
<1>3. Main \in Space /\ \A w \in Worker : w \in Space /\ w # Main
  BY SpaceFacts DEF Space
<1>4. AllUnborn /\ AllUnborn' /\ Enabled' = Enabled /\ Zts' = Zts /\ \A u \in Worker : SpaceOf(u)' = SpaceOf(u)
  BY <1>1, <1>2 DEF Startup, AllUnborn, Enabled, Zts, SpaceOf
<1>5. \A u \in Worker : state[u] = "unborn" /\ gone[u] = {} /\ ~user_cache[u].exists
  BY <1>4 DEF LifeInv, WorkerInv, AllUnborn
<1>6. CASE /\ Enabled
           /\ registry' = [registry EXCEPT ![Main] = BuiltinRegistry]
           /\ user_cache' = [user_cache EXCEPT ![Main] = NewCache]
           /\ \E keys \in SUBSET PreloadKeys : store' = Preload(NewCache, keys)
  <2>1. /\ BuiltinRegistry \in Seq(SlotSet)
        /\ \A i \in DOMAIN BuiltinRegistry : BuiltinRegistry[i].impl \in Builtin
    BY BuiltinFacts
  <2>2. \A i \in DOMAIN BuiltinRegistry : BuiltinRegistry[i].impl \in Impls
    BY <2>1 DEF Impls
  <2>3. Find(BuiltinRegistry, ini.serializer) \in Impls \cup {None}
    BY <2>2, FindFacts
  <2>4. /\ NewCache \in Caches /\ NewCache.exists /\ ~NewCache.loaded_serializer
        /\ NewCache.serializer = Find(BuiltinRegistry, ini.serializer)
    BY <2>3 DEF NewCache, Caches
  <2>5. /\ registry' \in [Space -> Seq(SlotSet)] /\ registry'[Main] = BuiltinRegistry
        /\ user_cache' \in [Space -> Caches] /\ user_cache'[Main] = NewCache
        /\ \A s \in Space : s # Main => user_cache'[s] = user_cache[s]
    BY <1>2, <1>3, <1>6, <2>1, <2>4 DEF LifeTypeOK
  <2>6. LifeTypeOK'
    BY <1>1, <1>2, <2>5 DEF LifeTypeOK
  <2>7. Startup'
    BY <1>1, <1>4, <2>1, <2>4, <2>5 DEF Startup
  <2>8. \A k \in DOMAIN store' : store'[k].at = "minit"
    BY <1>6 DEF Preload
  <2>9. Stored' /\ RequestValuesDecoded'
    BY <1>1, <2>8 DEF LifeInv, Stored, RequestValuesDecoded, Found
  <2>10. ASSUME NEW s \in Space PROVE Bound(s)'
    <3>1. CASE s = Main
      BY <1>1, <1>4, <1>6, <2>4, <2>5, <3>1 DEF Bound, Chosen
    <3>2. CASE s \in Worker
      BY <1>3, <1>5, <2>5, <3>2 DEF Bound
    <3> QED
      BY <3>1, <3>2 DEF Space
  <2>11. ASSUME NEW u \in Worker PROVE WorkerInv(u)'
    <3>1. WorkerInv(u) /\ user_cache'[u] = user_cache[u]
      BY <1>3, <2>5 DEF LifeInv
    <3> QED
      BY <1>1, <1>4, <1>5, <3>1 DEF WorkerInv
  <2> QED
    BY <2>6, <2>7, <2>9, <2>10, <2>11 DEF LifeInv
<1>7. CASE ~Enabled /\ UNCHANGED <<registry, user_cache, store>>
  <2>1. LifeTypeOK' /\ Startup'
    BY <1>1, <1>2, <1>4, <1>7 DEF LifeTypeOK, Startup
  <2>2. Stored' /\ RequestValuesDecoded'
    BY <1>1, <1>4, <1>7 DEF LifeInv, Stored, RequestValuesDecoded, Found
  <2>3. (\A s \in Space : Bound(s)') /\ \A u \in Worker : WorkerInv(u)'
    BY <1>1, <1>4, <1>7 DEF LifeInv, Bound, WorkerInv, Chosen, CacheOf
  <2> QED
    BY <2>1, <2>2, <2>3 DEF LifeInv
<1> QED
  BY <1>6, <1>7 DEF Minit

\* A worker process ends.
LEMMA MshutdownKeeps == ASSUME LifeInv, NEW w \in Worker, Mshutdown(w) PROVE LifeInv'
<1>1. /\ build' = build /\ ini' = ini /\ started' = started /\ store' = store
      /\ registry' = registry /\ exts' = exts /\ dynamic' = dynamic /\ gone' = gone /\ answer' = answer
      /\ state[w] = "idle" /\ ~Zts /\ state' = [state EXCEPT ![w] = "down"]
      /\ user_cache' = [user_cache EXCEPT ![w] = NoCache]
  BY DEF Mshutdown, server
<1>2. LifeTypeOK
  BY DEF LifeInv
<1>3. w \in Space /\ w # Main /\ Main \in Space
  BY SpaceFacts
<1>4. NoCache \in Caches /\ ~NoCache.exists
  BY DEF NoCache, Caches
<1>5. /\ state' \in [Worker -> {"unborn", "idle", "request", "down"}] /\ state'[w] = "down"
      /\ \A u \in Worker : u # w => state'[u] = state[u]
      /\ user_cache' \in [Space -> Caches] /\ user_cache'[w] = NoCache
      /\ \A s \in Space : s # w => user_cache'[s] = user_cache[s]
  BY <1>1, <1>2, <1>3, <1>4 DEF LifeTypeOK
<1>6. LifeTypeOK'
  BY <1>1, <1>2, <1>5 DEF LifeTypeOK
<1>7. /\ Chosen' = Chosen /\ ~AllUnborn /\ ~AllUnborn' /\ Enabled' = Enabled /\ Zts' = Zts
      /\ \A u \in Worker : CacheOf(u)' = user_cache'[u] /\ CacheOf(u) = user_cache[u]
  BY <1>1, <1>5 DEF Chosen, AllUnborn, Enabled, Zts, CacheOf, SpaceOf
<1>8. Startup'
  BY <1>1, <1>3, <1>5, <1>7 DEF LifeInv, Startup
<1>9. Stored' /\ RequestValuesDecoded'
  BY <1>1, <1>7 DEF LifeInv, Stored, Readable, RequestValuesDecoded, Found
<1>10. ASSUME NEW s \in Space PROVE Bound(s)'
  <2>1. Bound(s)
    BY DEF LifeInv
  <2> QED
    BY <1>1, <1>4, <1>5, <1>7, <2>1 DEF Bound
<1>11. ASSUME NEW u \in Worker PROVE WorkerInv(u)'
  <2>1. WorkerInv(u) /\ u \in Space
    BY SpaceFacts DEF LifeInv
  <2>2. CASE u = w
    BY <1>1, <1>4, <1>5, <1>7, <2>1, <2>2 DEF WorkerInv
  <2>3. CASE u # w
    BY <1>1, <1>5, <1>7, <2>1, <2>3 DEF WorkerInv
  <2> QED
    BY <2>2, <2>3
<1> QED
  BY <1>6, <1>8, <1>9, <1>10, <1>11 DEF LifeInv

\* A server of threads ends.
LEMMA MshutdownThreadsKeeps == ASSUME LifeInv, MshutdownThreads PROVE LifeInv'
<1>1. /\ build' = build /\ ini' = ini /\ started' = started /\ store' = store
      /\ registry' = registry /\ exts' = exts /\ dynamic' = dynamic /\ gone' = gone /\ answer' = answer
      /\ Zts /\ state' = [w \in Worker |-> "down"]
      /\ \A w \in Worker : state[w] = "idle"
      /\ user_cache' = [user_cache EXCEPT ![Main] = NoCache]
  BY DEF MshutdownThreads, server
<1>2. LifeTypeOK /\ Startup
  BY DEF LifeInv
<1>3. Main \in Space /\ \A w \in Worker : w \in Space /\ w # Main
  BY SpaceFacts DEF Space
<1>4. NoCache \in Caches /\ ~NoCache.exists /\ ~NoCache.loaded_serializer
  BY DEF NoCache, Caches
<1>5. /\ user_cache' \in [Space -> Caches] /\ user_cache'[Main] = NoCache
      /\ \A s \in Space : s # Main => user_cache'[s] = user_cache[s]
      /\ state' \in [Worker -> {"unborn", "idle", "request", "down"}]
  BY <1>1, <1>2, <1>3, <1>4 DEF LifeTypeOK
<1>6. LifeTypeOK'
  BY <1>1, <1>2, <1>5 DEF LifeTypeOK
<1>7. /\ Chosen' = Chosen /\ Enabled' = Enabled /\ Zts' /\ AllUnborn' = AllUnborn
      /\ \A u \in Worker : CacheOf(u)' = NoCache
  <2>1. AllUnborn' <=> AllUnborn
    BY <1>1 DEF AllUnborn
  <2> QED
    BY <1>1, <1>5, <2>1 DEF Chosen, Enabled, Zts, CacheOf, SpaceOf, AllUnborn
<1>8. Startup'
  BY <1>1, <1>2, <1>4, <1>5, <1>7 DEF Startup
<1>9. Stored' /\ RequestValuesDecoded'
  BY <1>1, <1>7 DEF LifeInv, Stored, Readable, RequestValuesDecoded, Found
<1>10. ASSUME NEW s \in Space PROVE Bound(s)'
  <2>1. Bound(s)
    BY DEF LifeInv
  <2> QED
    BY <1>1, <1>4, <1>5, <1>7, <2>1 DEF Bound
<1>11. ASSUME NEW u \in Worker PROVE WorkerInv(u)'
  <2>1. WorkerInv(u) /\ user_cache'[u] = user_cache[u] /\ state'[u] = "down"
    BY <1>1, <1>3, <1>5 DEF LifeInv
  <2> QED
    BY <1>1, <1>4, <1>7, <2>1 DEF WorkerInv
<1> QED
  BY <1>6, <1>8, <1>9, <1>10, <1>11 DEF LifeInv

-----------------------------------------------------------------------------
(* Theorems.                                                                 *)

\* The invariant holds before anything has started.
LEMMA InitLife == Init => LifeInv
<1> SUFFICES ASSUME Init PROVE LifeInv
  OBVIOUS
<1>1. NoCache \in Caches /\ ~NoCache.exists /\ ~NoCache.loaded_serializer
  BY DEF NoCache, Caches
<1>2. \A u \in Worker : SpaceOf(u) \in Space /\ u \in Space
  BY SpaceFacts
<1>3. Main \in Space
  BY DEF Space
<1>4. LifeTypeOK
  <2>1. registry \in [Space -> Seq(SlotSet)] /\ user_cache \in [Space -> Caches] /\ exts \in [Space -> SUBSET Ext]
    BY <1>1 DEF Init
  <2>2. answer = [w \in Worker |-> answer[w]]
    BY DEF Init
  <2> QED
    BY <2>1, <2>2 DEF Init, LifeTypeOK
<1>5. Startup
  BY <1>1, <1>3 DEF Init, Startup, AllUnborn
<1>6. Stored /\ RequestValuesDecoded
  BY DEF Init, Stored, RequestValuesDecoded, Found
<1>7. \A s \in Space : Bound(s)
  BY <1>1 DEF Init, Bound
<1>8. \A w \in Worker : WorkerInv(w)
  BY <1>1, <1>2 DEF Init, WorkerInv, CacheOf
<1> QED
  BY <1>4, <1>5, <1>6, <1>7, <1>8 DEF LifeInv

\* Every step of the server and its workers keeps the invariant.
THEOREM LifeInvariance == Spec => []LifeInv
<1>1. LifeInv /\ [Next]_vars => LifeInv'
  <2> SUFFICES ASSUME LifeInv, [Next]_vars PROVE LifeInv'
    OBVIOUS
  <2>1. CASE Next
    BY <2>1, LoadExtKeeps, MinitKeeps, MshutdownThreadsKeeps, ForkKeeps, RinitKeeps, EndRequestKeeps,
       MshutdownKeeps, FetchKeeps, AddKeeps, DlKeeps DEF Next
  <2>2. CASE vars' = vars
    BY <2>2 DEF vars, server, process, LifeInv, LifeTypeOK, Startup, Stored, RequestValuesDecoded, Bound,
       WorkerInv, Readable, Chosen, AllUnborn, Enabled, Zts, CacheOf, SpaceOf, Found
  <2> QED
    BY <2>1, <2>2
<1> QED
  BY <1>1, InitLife, PTL DEF Spec

\* Whatever one worker's request stored, every worker's fetch decodes.
THEOREM StoredValuesDecode == Spec => []RequestValuesDecoded
<1>1. LifeInv => RequestValuesDecoded
  BY DEF LifeInv
<1> QED
  BY <1>1, LifeInvariance, PTL

\* No worker calls or looks up a serializer of an extension that is unloaded.
THEOREM SerializersStayLoaded == Spec => []NoStaleSerializer
<1>1. LifeInv => NoStaleSerializer
  <2> SUFFICES ASSUME LifeInv, NEW w \in Worker, CacheOf(w).exists
               PROVE  /\ CacheOf(w).serializer \notin gone[w]
                      /\ gone[w] # {} => CacheOf(w).loaded_serializer
    BY DEF NoStaleSerializer
  <2>1. SpaceOf(w) \in Space
    BY SpaceFacts
  <2>2. Bound(SpaceOf(w)) /\ WorkerInv(w) /\ Startup /\ LifeTypeOK
    BY <2>1 DEF LifeInv
  <2>3. Chosen \in {None} \cup Builtin \cup exts[Main]
    BY <2>2, FindFacts DEF Startup, Chosen
  <2>4. CacheOf(w).serializer \in {None} \cup Builtin \cup exts[Main]
    BY <2>2, <2>3 DEF Bound, CacheOf
  <2>5. gone[w] \subseteq Ext /\ gone[w] \cap exts[Main] = {}
    <3>1. gone[w] \subseteq Ext
      BY <2>2 DEF LifeTypeOK
    <3> QED
      BY <2>2, <3>1 DEF WorkerInv
  <2>6. CacheOf(w).serializer \notin gone[w]
    BY <2>4, <2>5, LifecycleAssumption
  <2> QED
    BY <2>2, <2>6 DEF WorkerInv
<1> QED
  BY <1>1, LifeInvariance, PTL

\* A script runs with the serializer that the registry of the master has under
\* the configured name.
THEOREM ScriptsUseConfigured == Spec => []ConfiguredSerializerUsed
<1>1. LifeInv => ConfiguredSerializerUsed
  <2> SUFFICES ASSUME LifeInv, NEW w \in Worker, state[w] = "request", Enabled
               PROVE  CacheOf(w).serializer = Find(registry[Main], ini.serializer)
    BY DEF ConfiguredSerializerUsed
  <2>1. SpaceOf(w) \in Space
    BY SpaceFacts
  <2>2. Bound(SpaceOf(w)) /\ WorkerInv(w)
    BY <2>1 DEF LifeInv
  <2>3. CacheOf(w).exists /\ CacheOf(w).loaded_serializer
    BY <2>2 DEF WorkerInv
  <2> QED
    BY <2>2, <2>3 DEF Bound, CacheOf, Chosen
<1> QED
  BY <1>1, LifeInvariance, PTL

=============================================================================
