----------------------------- MODULE Lifecycle -----------------------------
(* The life of the extension in a PHP server: module startup with preloading, *)
(* workers that are forked (or threads, in a ZTS build), their requests, and  *)
(* module shutdown.  What it decides is which serializer writes and reads     *)
(* each entry: third-party extensions register theirs in a table, the cache   *)
(* is bound to one of them, and the entries outlive every request.            *)
EXTENDS Integers, Sequences

CONSTANTS
  Worker, Main,    \* processes or threads that serve requests; the master
  Key, None,
  Ext, Namings,    \* third-party serializer extensions; names they may use
  Serializers,     \* values of immutable_cache.serializer
  MaxSerializers,  \* IMMUTABLE_CACHE_MAX_SERIALIZERS
  MaxRequests      \* bound: requests of a worker

Builtin == {"php", "igbinary"}

ASSUME LifecycleAssumption ==
  /\ Main \notin Worker /\ None \notin Ext
  /\ Builtin \cap Ext = {} /\ "native" \notin Ext
  /\ \A f \in Namings : DOMAIN f = Ext
  /\ MaxSerializers \in Nat \ {0} /\ MaxRequests \in Nat

VARIABLES
  build,           \* how PHP was built, and what its extensions call themselves
  ini,             \* php.ini, and the files under immutable_cache.preload_path
  started,         \* MINIT of this extension has run
  registry,        \* immutable_cache_serializers, of each address space
  user_cache,      \* immutable_cache_user_cache, of each address space
  store,           \* the shared table: how and when each entry was written
  exts,            \* third-party extensions loaded in each address space
  state,           \* of each worker: "unborn", "idle", "request" or "down"
  dynamic, gone,   \* extensions a request loaded with dl(); those now unloaded
  answer,          \* what the worker's last fetch found
  requests         \* requests left to each worker (bound)

server  == <<build, ini, started, store>>
process == <<registry, user_cache, exts, dynamic, gone>>
vars    == <<server, process, state, answer, requests>>

\* How a value is kept: scalars and strings as they are, arrays too unless a
\* serializer is set, anything that holds an object serialized.
Kinds == {"scalar", "array", "object"}
Impls == Builtin \cup Ext

NoCache == [exists |-> FALSE, serializer |-> None, loaded_serializer |-> FALSE]

\* zts: workers are threads of the master.  igbinary: built with it, and it is
\* then loaded first.
Zts       == build.zts
NameOf(e) == build.names[e]

\* Address spaces, and the one a worker runs in.
Space      == Worker \cup {Main}
SpaceOf(w) == IF Zts THEN Main ELSE w

\* cli: the SAPI is "cli" and immutable_cache.enable_cli is off.
Enabled == ini.enabled /\ ~ini.cli

Init ==
  /\ build \in [zts : BOOLEAN, igbinary : BOOLEAN, names : Namings]
  /\ ini \in [enabled : BOOLEAN, cli : BOOLEAN, serializer : Serializers,
              preload : [Key -> Kinds \cup {"unreadable", None}]]
  /\ started = FALSE
  /\ registry = [s \in Space |-> <<>>]
  /\ user_cache = [s \in Space |-> NoCache]
  /\ store = <<>>
  /\ exts = [s \in Space |-> {}]
  /\ state = [w \in Worker |-> "unborn"]
  /\ dynamic = [w \in Worker |-> {}] /\ gone = [w \in Worker |-> {}]
  /\ answer = [w \in Worker |-> None]
  /\ requests = [w \in Worker |-> MaxRequests]

-----------------------------------------------------------------------------
(* The registry of serializers.                                              *)

\* _immutable_cache_register_serializer: the first empty slot, if there is one.
Register(reg, name, impl) ==
  IF name = "default" \/ Len(reg) >= MaxSerializers
    THEN reg
    ELSE Append(reg, [name |-> name, impl |-> impl])

\* immutable_cache_find_serializer: the first slot with that name, or NULL.
FirstSlot(reg, name) ==
  {i \in DOMAIN reg : reg[i].name = name /\ \A j \in 1 .. i - 1 : reg[j].name # name}
Find(reg, name) ==
  IF FirstSlot(reg, name) = {} THEN None
                               ELSE reg[CHOOSE i \in FirstSlot(reg, name) : TRUE].impl

\* Variant: whatever was found when the cache was created is kept.
BindSerializerNever(cache, reg, name) == [cache EXCEPT !.loaded_serializer = TRUE]

\* immutable_cache_cache_serializer.
BindSerializer(cache, reg, name) ==
  IF cache.loaded_serializer \/ cache.serializer # None
    THEN cache
    ELSE [cache EXCEPT !.serializer = Find(reg, name),
                       !.loaded_serializer = Find(reg, name) # None \/ name = "php"]

\* Variant: only a serializer that was found is remembered.
BindOnceFound(cache, reg, name) == BindSerializer(cache, reg, name)

\* The same, and then never again: RINIT and store_helper.
BindOnce(cache, reg, name) ==
  [BindSerializer(cache, reg, name) EXCEPT !.loaded_serializer = TRUE]

\* persist: whose encoding an entry gets; unpersist: who decodes it.
Encoder(cache, kind) ==
  CASE kind = "scalar" \/ (kind = "array" /\ cache.serializer = None) -> "native"
    [] cache.serializer = None -> "php"
    [] OTHER                   -> cache.serializer

Decoder(cache) == IF cache.serializer = None THEN "php" ELSE cache.serializer

-----------------------------------------------------------------------------
(* Module startup, in the master.  Extensions start in the order of php.ini. *)

\* A third-party extension looks for the constant under which this extension
\* publishes its register function: before MINIT it registers nothing.
LoadExt(e) ==
  /\ \A w \in Worker : state[w] = "unborn"
  /\ e \notin exts[Main]
  /\ exts' = [exts EXCEPT ![Main] = @ \cup {e}]
  /\ registry' = IF started /\ Enabled
                   THEN [registry EXCEPT ![Main] = Register(@, NameOf(e), e)]
                   ELSE registry
  /\ UNCHANGED <<server, user_cache, dynamic, gone, state, answer, requests>>

BuiltinRegistry ==
  LET php == Register(<<>>, "php", "php")
  IN  IF build.igbinary THEN Register(php, "igbinary", "igbinary") ELSE php

\* cache_create with what the registry holds at this point.
NewCache == [exists |-> TRUE, serializer |-> Find(BuiltinRegistry, ini.serializer),
             loaded_serializer |-> FALSE]

\* cache_preload: every readable *.data file is stored under its base name,
\* unless memory runs out; a ZTS build refuses to preload.
PreloadKeys == IF Zts THEN {} ELSE {k \in Key : ini.preload[k] \in Kinds}
Preload(cache, keys) ==
  [k \in keys |-> [enc |-> Encoder(cache, ini.preload[k]), at |-> "minit"]]

Minit ==
  /\ ~started
  /\ started' = TRUE
  /\ \/ /\ Enabled
        /\ registry' = [registry EXCEPT ![Main] = BuiltinRegistry]
        /\ user_cache' = [user_cache EXCEPT ![Main] = NewCache]
        /\ \E keys \in SUBSET PreloadKeys : store' = Preload(NewCache, keys)
     \/ ~Enabled /\ UNCHANGED <<registry, user_cache, store>>
  /\ UNCHANGED <<build, ini, exts, dynamic, gone, state, answer, requests>>

\* A worker process starts as a copy of the master; threads share its memory.
CopyOfMain(f, w) == IF Zts THEN f ELSE [f EXCEPT ![w] = f[Main]]

Fork(w) ==
  /\ started /\ state[w] = "unborn"
  /\ state' = [state EXCEPT ![w] = "idle"]
  /\ registry' = CopyOfMain(registry, w)
  /\ user_cache' = CopyOfMain(user_cache, w)
  /\ exts' = CopyOfMain(exts, w)
  /\ UNCHANGED <<server, dynamic, gone, answer, requests>>

-----------------------------------------------------------------------------
(* Requests.                                                                 *)

CacheOf(w) == user_cache[SpaceOf(w)]
Rebound(w) ==
  IF CacheOf(w).exists
    THEN [user_cache EXCEPT ![SpaceOf(w)] =
            BindOnce(@, registry[SpaceOf(w)], ini.serializer)]
    ELSE user_cache

Rinit(w) ==
  /\ state[w] = "idle" /\ requests[w] > 0
  /\ requests' = [requests EXCEPT ![w] = @ - 1]
  /\ state' = [state EXCEPT ![w] = "request"]
  /\ user_cache' = Rebound(w)
  /\ UNCHANGED <<server, registry, exts, dynamic, gone, answer>>

\* store_helper binds the serializer, if nobody has; then cache_store, which
\* refuses a key that exists, and any other when memory runs out.
Add(w, k, kind) ==
  /\ state[w] = "request"
  /\ user_cache' = Rebound(w)
  /\ \/ /\ CacheOf(w).exists /\ k \notin DOMAIN store
        /\ store' = [x \in DOMAIN store \cup {k} |->
                       IF x = k THEN [enc |-> Encoder(user_cache'[SpaceOf(w)], kind),
                                      at |-> "request"]
                                ELSE store[x]]
     \/ UNCHANGED store
  /\ UNCHANGED <<build, ini, started, registry, exts, dynamic, gone, state, answer, requests>>

\* cache_fetch: an entry that its decoder cannot read makes the fetch fail.
Outcome(w, k) ==
  IF ~CacheOf(w).exists \/ k \notin DOMAIN store THEN [found |-> FALSE]
  ELSE [found |-> TRUE, at |-> store[k].at,
        decoded |-> store[k].enc \in {"native", Decoder(CacheOf(w))}]

Fetch(w, k) ==
  /\ state[w] = "request"
  /\ answer' = [answer EXCEPT ![w] = Outcome(w, k)]
  /\ UNCHANGED <<server, process, state, requests>>

\* A script loads an extension with dl(), which ZTS builds do not offer.
Dl(w, e) ==
  /\ state[w] = "request" /\ ~Zts
  /\ e \notin exts[w] \cup dynamic[w] \cup gone[w]
  /\ dynamic' = [dynamic EXCEPT ![w] = @ \cup {e}]
  /\ registry' = IF Enabled
                   THEN [registry EXCEPT ![w] = Register(@, NameOf(e), e)]
                   ELSE registry
  /\ UNCHANGED <<server, user_cache, exts, gone, state, answer, requests>>

\* The extension has no RSHUTDOWN; PHP unloads what dl() loaded, and the
\* registry keeps the pointers of such an extension.
EndRequest(w) ==
  /\ state[w] = "request"
  /\ state' = [state EXCEPT ![w] = "idle"]
  /\ gone' = [gone EXCEPT ![w] = @ \cup dynamic[w]]
  /\ dynamic' = [dynamic EXCEPT ![w] = {}]
  /\ answer' = [answer EXCEPT ![w] = None]
  /\ UNCHANGED <<server, registry, user_cache, exts, requests>>

\* The process ends; the shared table stays for the others.
Mshutdown(w) ==
  /\ state[w] = "idle" /\ ~Zts
  /\ state' = [state EXCEPT ![w] = "down"]
  /\ user_cache' = [user_cache EXCEPT ![w] = NoCache]
  /\ UNCHANGED <<server, registry, exts, dynamic, gone, answer, requests>>

MshutdownThreads ==
  /\ Zts /\ \A w \in Worker : state[w] = "idle"
  /\ state' = [w \in Worker |-> "down"]
  /\ user_cache' = [user_cache EXCEPT ![Main] = NoCache]
  /\ UNCHANGED <<server, registry, exts, dynamic, gone, answer, requests>>

Next ==
  \/ \E e \in Ext : LoadExt(e)
  \/ Minit
  \/ MshutdownThreads
  \/ \E w \in Worker :
       \/ Fork(w) \/ Rinit(w) \/ EndRequest(w) \/ Mshutdown(w)
       \/ \E k \in Key : Fetch(w, k) \/ \E kind \in Kinds : Add(w, k, kind)
       \/ \E e \in Ext : Dl(w, e)

Spec == Init /\ [][Next]_vars

-----------------------------------------------------------------------------
(* Properties.                                                               *)

Found(w) == answer[w] # None /\ answer[w].found

\* Whatever one worker's request stored, every worker's fetch decodes: the
\* entry outlives the request and is read in processes that were bound to a
\* serializer on their own, at their own first RINIT.
RequestValuesDecoded ==
  \A w \in Worker :
    Found(w) /\ answer[w].at = "request" => answer[w].decoded

\* A value that MINIT preloaded can be fetched by the requests.
PreloadedValuesDecoded ==
  \A w \in Worker :
    Found(w) /\ answer[w].at = "minit" => answer[w].decoded

\* No process calls, or looks up, a serializer whose extension dl() loaded for
\* a request that is over: the cache is bound before any script runs and the
\* flag loaded_serializer keeps find_serializer from being called again.
NoStaleSerializer ==
  \A w \in Worker : CacheOf(w).exists =>
    /\ CacheOf(w).serializer \notin gone[w]
    /\ gone[w] # {} => CacheOf(w).loaded_serializer

\* A script runs with the serializer that php.ini names whenever one was
\* registered under this name at module startup, although third-party
\* serializers can register only after the cache was created without them.
ConfiguredSerializerUsed ==
  \A w \in Worker : state[w] = "request" /\ Enabled =>
    CacheOf(w).serializer = Find(registry[Main], ini.serializer)

=============================================================================
