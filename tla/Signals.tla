------------------------------ MODULE Signals -------------------------------
(* Processes of a server from MINIT to their end, and the handlers that the   *)
(* extension installs at RINIT for the signals that dump core: they detach    *)
(* the shared memory, call the handler that was there before, and send the    *)
(* signal again.                                                              *)
(*                                                                            *)
(* A signal may arrive between any two steps, inside a handler or MSHUTDOWN   *)
(* too; a handler's own signal is blocked while it runs, unless the handler   *)
(* it replaced was installed with SA_NODEFER.  (Masks that block more only    *)
(* delay signals.)  What a program does after a failed assertion or a use of  *)
(* freed memory is left open: it is "undefined" until it is gone.             *)
EXTENDS Segments, Sequences, SequencesExt

CONSTANTS
  Signal,          \* the signals that set_signals names
  Flags,           \* flags that earlier handlers may have been installed with:
                   \* "SA_RESETHAND", "SA_NODEFER"
  MaxSignals,      \* bound: signals that arrive from outside, SIGKILL too
  MaxHandlers      \* bound: times that others set what a signal does

ASSUME SignalsAssumption ==
  /\ MaxSignals \in Nat /\ MaxHandlers \in Nat
  /\ Flags \subseteq {"SA_RESETHAND", "SA_NODEFER"}

VARIABLES
  disp,            \* disp[p][s]: what s does: "default", "ignore", "prior" (a
                   \* handler of the server or another extension), "ours"
  oneshot,         \* oneshot[p]: signals whose handler has SA_RESETHAND
  nodefer,         \* nodefer[p]: signals whose handler has SA_NODEFER
  prev,            \* prev[p]: signals whose earlier handler is saved
  frames,          \* frames[p]: our handlers that are running, innermost last
  pending,         \* pending[p]: signals p has sent to itself
  served,          \* history: p has run a request
  orig, called,    \* history: signals that had a handler before ours, and
                   \* those whose earlier handler our handler has called
  core,            \* core[p]: segments in the core p has dumped, if it has
  interrupted,     \* history: processes a signal reached too early (TooEarly)
  arrived, handlers \* signals from outside, calls of others so far (bounds)

signals == <<disp, oneshot, nodefer, prev, frames, pending, served, orig, called,
             core, interrupted>>
bounds  == <<arrived, handlers>>
vars    == <<config, state, memory, signals, bounds>>

Init ==
  /\ SegmentsInit
  /\ disp = [p \in Process |-> [s \in Signal |-> "default"]]
  /\ oneshot = [p \in Process |-> {}] /\ nodefer = [p \in Process |-> {}]
  /\ prev = [p \in Process |-> {}]
  /\ frames = [p \in Process |-> <<>>]
  /\ pending = [p \in Process |-> {}]
  /\ served = [p \in Process |-> FALSE]
  /\ orig = [p \in Process |-> {}] /\ called = [p \in Process |-> {}]
  /\ core = [p \in Process |-> None] /\ interrupted = {}
  /\ arrived = 0 /\ handlers = 0

Alive(p)   == state[p] \in {"minit", "running", "request", "mshutdown", "down"}
Blocked(p) == {frames[p][i].sig : i \in DOMAIN frames[p]} \ nodefer[p]

\* The program itself runs: no handler does, and none is due.
Running(p, s) == state[p] = s /\ frames[p] = <<>> /\ pending[p] = {}
Become(p, s)  == state' = [state EXCEPT ![p] = s]

\* The state of a process that is gone, or may do anything, is forgotten; what
\* it had served and what it has dumped are not.
Forget(p) ==
  /\ frames' = [frames EXCEPT ![p] = <<>>]
  /\ pending' = [pending EXCEPT ![p] = {}]
  /\ prev' = [prev EXCEPT ![p] = {}]
  /\ disp' = [disp EXCEPT ![p] = [s \in Signal |-> "default"]]
  /\ oneshot' = [oneshot EXCEPT ![p] = {}]
  /\ nodefer' = [nodefer EXCEPT ![p] = {}]
  /\ orig' = [orig EXCEPT ![p] = {}]
  /\ called' = [called EXCEPT ![p] = {}]
  /\ UNCHANGED served

Undefined(p) ==
  /\ Become(p, "undefined")
  /\ Forget(p)
  /\ UNCHANGED <<config, memory, core, interrupted>>

\* p calls exit.
Exit(p) ==
  /\ Gone(p) /\ Forget(p)
  /\ UNCHANGED <<named, abandoned, core>>

-----------------------------------------------------------------------------
(* The life of a process.                                                    *)

Startup ==
  /\ Running(Master, "minit")
  /\ Minit
  /\ UNCHANGED <<signals, bounds>>

Fork(c) ==
  /\ Running(Master, "running") /\ state[c] = "unborn"
  /\ Become(c, "running")
  /\ ForkMemory(c)
  /\ disp' = [disp EXCEPT ![c] = disp[Master]]
  /\ oneshot' = [oneshot EXCEPT ![c] = oneshot[Master]]
  /\ nodefer' = [nodefer EXCEPT ![c] = nodefer[Master]]
  /\ prev' = [prev EXCEPT ![c] = prev[Master]]
  /\ served' = [served EXCEPT ![c] = served[Master]]
  /\ orig' = [orig EXCEPT ![c] = orig[Master]]
  /\ UNCHANGED <<frames, pending, called, core, interrupted, bounds>>

\* The server and other extensions set what signals do before requests run:
\* they ignore one, or install a handler.
Sigaction(p, s, d, flags) ==
  LET Set(S, f) == IF f \in flags THEN S \cup {s} ELSE S \ {s} IN
  /\ Running(p, "running") /\ ~served[p]
  /\ disp[p][s] = "default" /\ handlers < MaxHandlers
  /\ handlers' = handlers + 1
  /\ d = "ignore" => flags = {}
  /\ disp' = [disp EXCEPT ![p][s] = d]
  /\ oneshot' = [oneshot EXCEPT ![p] = Set(@, "SA_RESETHAND")]
  /\ nodefer' = [nodefer EXCEPT ![p] = Set(@, "SA_NODEFER")]
  /\ UNCHANGED <<config, state, memory, prev, frames, pending, served, orig, called,
                 core, interrupted, arrived>>

\* register_signal, for every signal: one that is ours already is left alone;
\* an earlier handler is saved, and its flags are kept; otherwise the handler
\* is good for one signal.
Register(p) ==
  LET unset == {s \in Signal : disp[p][s] \in {"default", "ignore"}} IN
  /\ prev' = [prev EXCEPT ![p] = @ \cup {s \in Signal : disp[p][s] = "prior"}]
  /\ oneshot' = [oneshot EXCEPT ![p] = @ \cup unset]
  /\ nodefer' = [nodefer EXCEPT ![p] = @ \ unset]
  /\ disp' = [disp EXCEPT ![p] = [s \in Signal |-> "ours"]]

\* set_signals.
SetSignals(p) ==
  IF prev[p] = {} /\ config.coredump_unmap
  THEN Register(p) ELSE UNCHANGED <<prev, oneshot, nodefer, disp>>

Rinit(p) ==
  /\ Running(p, "running")
  /\ Become(p, "request")
  /\ SetSignals(p)
  /\ served' = [served EXCEPT ![p] = TRUE]
  /\ orig' = IF served[p] THEN orig
             ELSE [orig EXCEPT ![p] = {s \in Signal : disp[p][s] = "prior"}]
  /\ UNCHANGED <<config, memory, frames, pending, called, core, interrupted, bounds>>

EndRequest(p) ==
  /\ Running(p, "request")
  /\ Become(p, "running")
  /\ UNCHANGED <<config, memory, signals, bounds>>

\* MSHUTDOWN: the cache is freed, but the pointer to it is kept ...
Mshutdown(p) ==
  /\ Running(p, "running")
  /\ Become(p, "mshutdown")
  /\ user_cache' = [user_cache EXCEPT ![p] = "freed"]
  /\ UNCHANGED <<config, at, template, named, mapped, sma, abandoned, signals, bounds>>

\* ... memory is detached ...
MshutdownDetach(p) ==
  /\ Running(p, "mshutdown")
  /\ \/ SmaDetach(p)
     \/ Detaching(p) /\ ~sma[p].initialized /\ (UnmapSegment(p) \/ FreeSegs(p))
  /\ UNCHANGED <<state, user_cache, signals, bounds>>

\* ... saved handlers are freed, but our handlers stay installed.
ShutdownSignals(p) ==
  /\ Running(p, "mshutdown") /\ sma[p].segs = "freed"
  /\ Become(p, "down")
  /\ prev' = [prev EXCEPT ![p] = {}]
  /\ UNCHANGED <<config, memory, disp, oneshot, nodefer, frames, pending, served, orig, called,
                 core, interrupted, bounds>>

Leave(p) ==
  /\ Running(p, "down")
  /\ Exit(p)
  /\ UNCHANGED <<interrupted, bounds>>

Kill(p) ==
  /\ Alive(p) /\ arrived < MaxSignals
  /\ arrived' = arrived + 1
  /\ Killed(p) /\ Forget(p)
  /\ UNCHANGED <<core, interrupted, handlers>>

-----------------------------------------------------------------------------
(* Signals.                                                                  *)

DumpCore(p) ==
  /\ core' = [core EXCEPT ![p] = mapped[p]]
  /\ Killed(p) /\ Forget(p)

\* The end of a process that is undefined.
Abort(p) ==
  /\ state[p] = "undefined"
  /\ DumpCore(p)
  /\ UNCHANGED <<interrupted, bounds>>

\* SA_RESETHAND: a handler that is entered is no longer installed.
Reset(p, s) == disp' = IF s \in oneshot[p] THEN [disp EXCEPT ![p][s] = "default"] ELSE disp

\* Variant: the signal is sent on before the memory is detached.
EnterLate(p, s) ==
  /\ frames' = [frames EXCEPT ![p] = Append(@, [sig |-> s, at |-> "rehandle"])]
  /\ Reset(p, s)
  /\ pending' = [pending EXCEPT ![p] = @ \ {s}]
  /\ UNCHANGED <<config, state, memory, oneshot, nodefer, prev, served, orig, called, core>>

Enter(p, s) ==
  /\ frames' = [frames EXCEPT ![p] = Append(@, [sig |-> s, at |-> "unmap"])]
  /\ Reset(p, s)
  /\ pending' = [pending EXCEPT ![p] = @ \ {s}]
  /\ UNCHANGED <<config, state, memory, oneshot, nodefer, prev, served, orig, called, core>>

\* A handler that is not ours returns or ends p.
Other(p, s) ==
  \/ /\ IF disp[p][s] = "prior" THEN Reset(p, s) ELSE UNCHANGED disp
     /\ pending' = [pending EXCEPT ![p] = @ \ {s}]
     /\ UNCHANGED <<config, state, memory, oneshot, nodefer, prev, frames, served, orig, called, core>>
  \/ disp[p][s] = "prior" /\ Exit(p)

\* History: a signal comes while p is letting go of its memory, or dumps core
\* because its handler, entered and reset, did not get to detach.
TooEarly(p, s) ==
  \/ Detaching(p)
  \/ disp[p][s] = "default" /\ \E i \in DOMAIN frames[p] : frames[p][i] = [sig |-> s, at |-> "unmap"]

\* s comes through to p.
Take(p, s) ==
  /\ CASE disp[p][s] = "default" -> DumpCore(p)
       [] disp[p][s] = "ours"    -> Enter(p, s)
       [] OTHER                  -> Other(p, s)
  /\ interrupted' = IF TooEarly(p, s) THEN interrupted \cup {p} ELSE interrupted

Arrive(p, s) ==
  /\ Alive(p) /\ s \notin Blocked(p) \cup pending[p]
  /\ arrived < MaxSignals
  /\ arrived' = arrived + 1
  /\ Take(p, s)
  /\ UNCHANGED handlers

Deliver(p, s) ==
  /\ Alive(p) /\ s \in pending[p] \ Blocked(p)
  /\ Take(p, s)
  /\ UNCHANGED bounds

\* The innermost handler of p is at step l.
InHandler(p, l) == frames[p] # <<>> /\ Last(frames[p]).at = l
Proceed(p, l) == frames' = [frames EXCEPT ![p][Len(frames[p])].at = l]

\* core_unmap: the process learns from a pointer, which no request leaves NULL,
\* that it has a cache, and detaches.  The cache may have been freed, or a
\* detach begun or ended before.
CoreUnmap(p) ==
  /\ InHandler(p, "unmap")
  /\ \/ /\ user_cache[p] = "live"
        /\ SmaDetach(p)
        /\ Proceed(p, "unmapping")
        /\ UNCHANGED <<state, user_cache, disp, oneshot, nodefer, prev, pending, served, orig,
                       called, core, interrupted>>
     \/ /\ user_cache[p] = "freed" \/ ~sma[p].initialized
        /\ Undefined(p)
  /\ UNCHANGED bounds

\* The rest of sma_detach.
Unmapping(p) ==
  /\ InHandler(p, "unmapping")
  /\ \/ UnmapSegment(p) /\ UNCHANGED frames
     \/ FreeSegs(p) /\ Proceed(p, "rehandle")
  /\ UNCHANGED <<state, user_cache, disp, oneshot, nodefer, prev, pending, served, orig,
                 called, core, interrupted, bounds>>

\* Variant: the search stops one short of the end.
SavedShort(p) == IF prev[p] = {} THEN {} ELSE prev[p] \ {CHOOSE s \in prev[p] : TRUE}
\* rehandle_signal: the saved handlers that the search finds.
Saved(p) == prev[p]

\* The earlier handler returns or ends the process.
Rehandle(p) ==
  /\ InHandler(p, "rehandle")
  /\ LET s == Last(frames[p]).sig IN
     \/ /\ Proceed(p, "kill")
        /\ called' = [called EXCEPT ![p] = @ \cup ({s} \cap Saved(p))]
        /\ UNCHANGED <<config, state, memory, disp, oneshot, nodefer, prev, pending, served, orig, core>>
     \/ s \in Saved(p) /\ Exit(p)
  /\ UNCHANGED <<interrupted, bounds>>

\* Variant: the handler returns without sending the signal again.
ReturnOnly(p) ==
  /\ InHandler(p, "kill")
  /\ frames' = [frames EXCEPT ![p] = Front(@)]
  /\ UNCHANGED <<config, state, memory, disp, oneshot, nodefer, prev, pending, served, orig, called,
                 core, interrupted, bounds>>

\* kill(getpid(), signo): blocked until the handler returns, which it does;
\* with SA_NODEFER it comes at once, when the handler has nothing left to do.
KillSelf(p) ==
  /\ InHandler(p, "kill")
  /\ pending' = [pending EXCEPT ![p] = @ \cup {Last(frames[p]).sig}]
  /\ frames' = [frames EXCEPT ![p] = Front(@)]
  /\ UNCHANGED <<config, state, memory, disp, oneshot, nodefer, prev, served, orig, called,
                 core, interrupted, bounds>>

Handle(p) == CoreUnmap(p) \/ Unmapping(p) \/ Rehandle(p) \/ KillSelf(p) \/ \E s \in Signal : Deliver(p, s)

Next ==
  \/ Startup
  \/ \E p \in Process :
       \/ Fork(p) \/ Rinit(p) \/ EndRequest(p)
       \/ Mshutdown(p) \/ MshutdownDetach(p) \/ ShutdownSignals(p) \/ Leave(p) \/ Kill(p)
       \/ \E s \in Signal :
            \/ Arrive(p, s)
            \/ \E d \in {"ignore", "prior"}, flags \in SUBSET Flags : Sigaction(p, s, d, flags)
       \/ Handle(p) \/ Abort(p)

Spec == Init /\ [][Next]_vars

\* A process inside a handler keeps running, and the kernel delivers what is due.
FairSpec == Spec /\ \A p \in Process : WF_vars(Handle(p))

-----------------------------------------------------------------------------
(* Properties.                                                               *)

\* A process that runs code of its own between MINIT and MSHUTDOWN has all the
\* memory that MINIT obtained and the cache in it, whatever other processes
\* detach, whoever dies, and whatever signals it has survived: no request ever
\* meets memory that a handler or another process has taken away
\* (immutable_cache_sma_detach, immutable_cache_core_unmap).
ServesMapped ==
  \A p \in Process : Running(p, "running") \/ Running(p, "request") =>
    mapped[p] = Segment /\ sma[p].initialized /\ user_cache[p] = "live"

\* Once MINIT is over, or has failed, no segment has a name: memory goes with
\* the last process that maps it.  What is left behind is only what a process
\* killed between two system calls, or a failed shmat, left
\* (immutable_cache_mmap, immutable_cache_shm_attach).
NamesDropped == state[Master] # "minit" => named \subseteq abandoned

\* With coredump_unmap, no process that has served a request puts shared memory
\* into a core dump, whatever the server had installed for the signal before,
\* whichever signals nest and wherever: unless one came exactly while memory was
\* being let go of, or its handler, which neither blocks nor survives it, had
\* not yet begun to (immutable_cache_set_signals, immutable_cache_core_unmap).
CoreWithoutSegments ==
  \A p \in Process :
    config.coredump_unmap /\ served[p] /\ p \notin interrupted => core[p] \in {None, {}}

\* The same without the exception.
CoreNeverHoldsSegments ==
  \A p \in Process : config.coredump_unmap /\ served[p] => core[p] \in {None, {}}

\* A handler that was there before ours is called before the process sends
\* itself the signal again (immutable_cache_register_signal,
\* immutable_cache_rehandle_signal).
EarlierHandlerCalled ==
  \A p \in Process : pending[p] \cap orig[p] \subseteq called[p]

\* A process that has taken a signal that dumps core comes to its end: it never
\* goes back to work without its memory (kill in immutable_cache_core_unmap).
CoreSignalEnds ==
  \A p \in Process : frames[p] # <<>> ~> state[p] \in {"undefined", "exited"}

\* sma_detach asserts sma->initialized, and the handler reads a cache that is
\* still there: nothing makes a process undefined.
NeverUndefined == \A p \in Process : state[p] # "undefined"

\* mkstemp gets a mask that ends in XXXXXX (immutable_cache_mmap).
MaskIsTemplate == state[Master] = "minit" /\ at.call = "mkstemp" => template
=============================================================================
