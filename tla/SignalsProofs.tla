----------------------------- MODULE SignalsProofs -----------------------------
(* Proofs about Signals and Segments, for any number of processes, segments,  *)
(* signals and kills: a process that runs code of its own has its memory, no  *)
(* segment keeps a name, no core of a process that served holds a segment     *)
(* unless a signal came exactly while it was letting go of its memory,        *)
(* and an earlier handler is called before the signal is sent again.          *)
EXTENDS Signals, TLAPS

-----------------------------------------------------------------------------
(* The inductive invariant.                                                  *)

Calls  == {"start", "mkstemp", "ftruncate", "mmap", "shmget", "shmat", "rmid", "layout", "create"}
States == {"unborn", "minit", "running", "request", "mshutdown", "down", "undefined", "exited"}
Frame  == [sig : Signal, at : {"unmap", "unmapping", "rehandle", "kill"}]
Config == [build : Builds, segments : IniSegments \cup {1}, mask : IniMasks, coredump_unmap : BOOLEAN]

\* Types of the variables.
SigTypeOK ==
  /\ config \in Config
  /\ state \in [Process -> States]
  /\ at \in [seg : Int, call : Calls]
  /\ mapped \in [Process -> SUBSET Int]
  /\ sma \in [Process -> [initialized : BOOLEAN, segs : {"none", "live", "freed"}]]
  /\ user_cache \in [Process -> {"null", "live", "freed"}]
  /\ disp \in [Process -> [Signal -> {"default", "ignore", "prior", "ours"}]]
  /\ oneshot \in [Process -> SUBSET Signal] /\ nodefer \in [Process -> SUBSET Signal]
  /\ prev \in [Process -> SUBSET Signal]
  /\ frames \in [Process -> Seq(Frame)]
  /\ pending \in [Process -> SUBSET Signal]
  /\ served \in [Process -> BOOLEAN]
  /\ orig \in [Process -> SUBSET Signal]
  /\ called \in [Process -> SUBSET Signal]
  /\ core \in [Process -> {None} \cup SUBSET Int]

\* Calls of MINIT that a segment comes to before it is mapped, and those during
\* which it has a name.
BeforeMap == {"start", "mkstemp", "ftruncate", "mmap", "shmget", "shmat"}
WithName  == {"ftruncate", "shmat", "rmid"}

\* MINIT has mapped the segments before the one it is at, and only that one can
\* have a name.
Obtaining ==
  state[Master] = "minit" =>
    /\ at.seg \in 0 .. Num
    /\ mapped[Master] = 0 .. (IF at.call \in BeforeMap THEN at.seg - 1 ELSE at.seg)
    /\ at.call = "create" => at.seg = Num
    /\ at.call = "start" => at.seg = 0
    /\ at.call # "start" => sma[Master].initialized /\ sma[Master].segs = "live"
    /\ named \subseteq (IF at.call \in WithName THEN {at.seg} ELSE {})

\* Nothing of signals has happened to a process that does not run yet.
Quiet(p) ==
  state[p] \in {"unborn", "minit"} =>
    /\ frames[p] = <<>> /\ pending[p] = {} /\ prev[p] = {}
    /\ ~served[p] /\ core[p] = None
    /\ \A s \in Signal : disp[p][s] = "default"
    /\ state[p] = "minit" => p = Master /\ user_cache[p] = "null"

\* The states in which signals do not find a process still in MINIT.
Started == {"running", "request", "mshutdown", "down"}

\* Memory is detached by a handler or by MSHUTDOWN; when segs is freed, all of
\* it is gone.
Attached(p) ==
  /\ state[p] \in Started =>
       sma[p].segs \in {"live", "freed"} /\ (sma[p].segs = "freed" => mapped[p] = {} /\ ~sma[p].initialized)
  /\ state[p] \in {"running", "request"} =>
       /\ user_cache[p] = "live"
       /\ frames[p] = <<>> /\ pending[p] = {} => mapped[p] = Segment /\ sma[p].initialized
  /\ \A i \in DOMAIN frames[p] : frames[p][i].at = "unmapping" => ~sma[p].initialized
  /\ state[p] \in {"mshutdown", "down"} =>
       user_cache[p] = "freed" /\ \A i \in DOMAIN frames[p] : frames[p][i].at = "unmap"
  /\ state[p] = "down" => sma[p].segs = "freed"
  /\ state[p] \in {"undefined", "exited"} => frames[p] = <<>> /\ pending[p] = {}
  /\ state[p] = "undefined" => mapped[p] = {} \/ p \in interrupted

\* While memory is being let go of, no handler is entered without notice.
Noticed(p) ==
  Detaching(p) /\ p \notin interrupted =>
    frames[p] = <<>> \/ frames[p][Len(frames[p])].at = "unmapping"

\* Our handlers are installed by the first request if at all.  One that is no
\* longer installed is running and about to detach, or a detach has begun.
Installed(p) ==
  /\ ~served[p] \/ ~config.coredump_unmap =>
       frames[p] = <<>> /\ pending[p] = {} /\ \A s \in Signal : disp[p][s] # "ours"
  /\ ~served[p] => prev[p] = {}
  /\ served[p] /\ config.coredump_unmap /\ state[p] \in {"running", "request"} =>
       /\ orig[p] \subseteq prev[p]
       /\ \A s \in Signal : disp[p][s] \in {"ours", "default"}
       /\ \A s \in Signal : disp[p][s] # "ours" =>
            ~sma[p].initialized \/ \E i \in DOMAIN frames[p] : frames[p][i] = [sig |-> s, at |-> "unmap"]

\* An earlier handler has been called when a handler comes to send its signal.
Called(p) ==
  /\ \A i \in DOMAIN frames[p] :
       frames[p][i].at = "kill" /\ frames[p][i].sig \in orig[p] => frames[p][i].sig \in called[p]
  /\ pending[p] \cap orig[p] \subseteq called[p]

\* A core is the last of a process.
Dumped(p) ==
  /\ state[p] # "exited" => core[p] = None
  /\ config.coredump_unmap /\ served[p] /\ p \notin interrupted => core[p] \in {None, {}}

ProcessInv(p) == Quiet(p) /\ Attached(p) /\ Noticed(p) /\ Installed(p) /\ Called(p) /\ Dumped(p)

SigInv ==
  /\ SigTypeOK /\ Obtaining /\ NamesDropped
  /\ \A p \in Process : ProcessInv(p)

-----------------------------------------------------------------------------
(* Facts every step needs.                                                   *)

\* There is at least one segment.
LEMMA NumFacts ==
  ASSUME SigTypeOK
  PROVE Num \in Nat \ {0} /\ Segment = 0 .. Num
<1>1. config.segments \in Int
  <2>1. config.segments \in IniSegments \cup {1}
    BY DEF SigTypeOK, Config
  <2>2. IniSegments \subseteq Int
    BY SegmentsAssumption
  <2>3. CASE config.segments \in IniSegments
    BY <2>2, <2>3
  <2>4. CASE config.segments = 1
    BY <2>4
  <2> QED
    BY <2>1, <2>3, <2>4
<1> QED
  BY <1>1 DEF Num, Segment

\* What a step leaves alone of process q.
Same(q) ==
  /\ state'[q] = state[q] /\ mapped'[q] = mapped[q] /\ sma'[q] = sma[q]
  /\ user_cache'[q] = user_cache[q] /\ disp'[q] = disp[q] /\ prev'[q] = prev[q]
  /\ frames'[q] = frames[q] /\ pending'[q] = pending[q] /\ served'[q] = served[q]
  /\ orig'[q] = orig[q] /\ called'[q] = called[q] /\ core'[q] = core[q]
  /\ (q \in interrupted') = (q \in interrupted)

\* What happens to one process does not concern the others.
LEMMA ProcessFrame ==
  ASSUME NEW q \in Process, ProcessInv(q), Same(q), config' = config
  PROVE ProcessInv(q)'
<1>1. Segment' = Segment
  BY DEF Segment, Num
<1>2. Quiet(q)' /\ Called(q)' /\ Dumped(q)'
  BY DEF ProcessInv, Quiet, Called, Dumped, Same
<1>3. Attached(q)'
  BY <1>1 DEF ProcessInv, Attached, Same
<1>4. Installed(q)'
  BY DEF ProcessInv, Installed, Same
<1>5. Noticed(q)'
  BY DEF ProcessInv, Noticed, Detaching, Same
<1> QED
  BY <1>2, <1>3, <1>4, <1>5 DEF ProcessInv

\* A step of a process that is not in MINIT.
LEMMA StepOf ==
  ASSUME SigInv, NEW p \in Process, SigTypeOK', config' = config,
         \A q \in Process \ {p} : Same(q),
         state'[p] # "minit", named' = named,
         p # Master => at' = at /\ abandoned' = abandoned,
         p = Master => named \subseteq abandoned',
         ProcessInv(p)'
  PROVE SigInv'
<1>1. \A q \in Process : ProcessInv(q)'
  BY ProcessFrame DEF SigInv
<1>2. Num' = Num /\ Master \in Process
  BY SegmentsAssumption DEF Num
<1>3. Obtaining' /\ NamesDropped'
  <2>1. CASE p = Master
    BY <2>1 DEF Obtaining, NamesDropped
  <2>2. CASE p # Master
    BY <1>2, <2>2 DEF SigInv, Obtaining, NamesDropped, Same
  <2> QED
    BY <2>1, <2>2
<1> QED
  BY <1>1, <1>3 DEF SigInv

\* A process ends; what it dumps holds no segment if it has served, unless it
\* was interrupted.
LEMMA EndInv ==
  ASSUME SigInv, NEW p \in Process, Gone(p), Forget(p), named' = named,
         interrupted' = interrupted \/ interrupted' = interrupted \cup {p},
         core' = core \/ (/\ core' = [core EXCEPT ![p] = mapped[p]]
                          /\ config.coredump_unmap /\ served[p] => mapped[p] = {} \/ p \in interrupted'),
         p # Master => abandoned' = abandoned,
         p = Master => named \subseteq abandoned'
  PROVE SigInv'
<1>a. SigTypeOK /\ ProcessInv(p)
  BY DEF SigInv
<1>b. /\ state' = [state EXCEPT ![p] = "exited"] /\ mapped' = [mapped EXCEPT ![p] = {}]
      /\ sma' = [sma EXCEPT ![p] = NoSma] /\ user_cache' = [user_cache EXCEPT ![p] = "null"]
      /\ at' = IF p = Master THEN [seg |-> 0, call |-> "start"] ELSE at
      /\ config' = config /\ served' = served
      /\ frames' = [frames EXCEPT ![p] = <<>>] /\ pending' = [pending EXCEPT ![p] = {}]
      /\ prev' = [prev EXCEPT ![p] = {}]
      /\ disp' = [disp EXCEPT ![p] = [s \in Signal |-> "default"]]
      /\ oneshot' = [oneshot EXCEPT ![p] = {}] /\ nodefer' = [nodefer EXCEPT ![p] = {}]
      /\ orig' = [orig EXCEPT ![p] = {}] /\ called' = [called EXCEPT ![p] = {}]
  BY DEF Gone, Forget
<1>c. <<>> \in Seq(Frame) /\ DOMAIN <<>> = {}
  OBVIOUS
<1>1. SigTypeOK'
  <2>1. frames' \in [Process -> Seq(Frame)] /\ at' \in [seg : Int, call : Calls]
    BY <1>a, <1>b, <1>c DEF SigTypeOK, Calls
  <2>2. core' \in [Process -> {None} \cup SUBSET Int]
    BY <1>a DEF SigTypeOK
  <2>3. /\ state' \in [Process -> States] /\ mapped' \in [Process -> SUBSET Int]
        /\ sma' \in [Process -> [initialized : BOOLEAN, segs : {"none", "live", "freed"}]]
        /\ user_cache' \in [Process -> {"null", "live", "freed"}]
    BY <1>a, <1>b DEF SigTypeOK, States, NoSma
  <2> QED
    BY <1>a, <1>b, <2>1, <2>2, <2>3 DEF SigTypeOK
<1>2. /\ state'[p] = "exited" /\ frames'[p] = <<>> /\ pending'[p] = {}
      /\ prev'[p] = {} /\ \A s \in Signal : disp'[p][s] = "default"
      /\ served'[p] = served[p]
      /\ core'[p] = core[p] \/ (config.coredump_unmap /\ served[p] => core'[p] = {} \/ p \in interrupted')
  BY <1>a, <1>b DEF SigTypeOK
<1>3. \A q \in Process \ {p} : Same(q)
  BY <1>a, <1>b DEF SigTypeOK, Same
<1>4. ProcessInv(p)'
  <2>1. Quiet(p)' /\ Attached(p)' /\ Called(p)' /\ Noticed(p)'
    BY <1>2, <1>c DEF Quiet, Attached, Called, Noticed, Started
  <2>2. Installed(p)'
    BY <1>2 DEF Installed
  <2>3. Dumped(p)'
    BY <1>a, <1>b, <1>2 DEF Dumped, ProcessInv
  <2> QED
    BY <2>1, <2>2, <2>3 DEF ProcessInv
<1> QED
  BY <1>1, <1>2, <1>3, <1>4, <1>b, StepOf

\* A process that runs, is shut down or is undefined exits without a core.
LEMMA ExitInv ==
  ASSUME SigInv, NEW p \in Process, state[p] # "minit", Exit(p),
         interrupted' = interrupted \/ interrupted' = interrupted \cup {p}
  PROVE SigInv'
<1>1. p = Master => named \subseteq abandoned
  BY DEF SigInv, NamesDropped
<1> QED
  BY <1>1, EndInv DEF Exit

\* A process is killed by a signal and dumps core.
LEMMA DumpCoreInv ==
  ASSUME SigInv, NEW p \in Process, DumpCore(p),
         interrupted' = interrupted \/ interrupted' = interrupted \cup {p},
         config.coredump_unmap /\ served[p] => mapped[p] = {} \/ p \in interrupted'
  PROVE SigInv'
  BY EndInv DEF DumpCore, Killed

-----------------------------------------------------------------------------
(* MINIT.                                                                    *)

\* A step of MINIT that obtains something.
LEMMA MinitGoes ==
  ASSUME SigInv, state[Master] = "minit", UNCHANGED <<config, state, user_cache, signals>>,
         SigTypeOK', \A q \in Process \ {Master} : mapped'[q] = mapped[q] /\ sma'[q] = sma[q],
         Obtaining'
  PROVE SigInv'
<1>1. Master \in Process
  BY SegmentsAssumption
<1>2. \A q \in Process \ {Master} : Same(q)
  BY DEF Same, signals
<1>3. \A q \in Process \ {Master} : ProcessInv(q)'
  BY <1>2, ProcessFrame DEF SigInv
<1>4. ProcessInv(Master)'
  BY <1>1 DEF SigInv, ProcessInv, Quiet, Attached, Noticed, Installed, Called, Dumped, Started, signals
<1>5. NamesDropped'
  BY DEF NamesDropped
<1> QED
  BY <1>3, <1>4, <1>5 DEF SigInv

\* MINIT fails.
LEMMA MinitEnds ==
  ASSUME SigInv, state[Master] = "minit", Gone(Master), UNCHANGED signals,
         named' \subseteq abandoned'
  PROVE SigInv'
<1>a. Master \in Process /\ SigTypeOK /\ ProcessInv(Master)
  BY SegmentsAssumption DEF SigInv
<1>b. /\ state' = [state EXCEPT ![Master] = "exited"] /\ mapped' = [mapped EXCEPT ![Master] = {}]
      /\ sma' = [sma EXCEPT ![Master] = NoSma] /\ user_cache' = [user_cache EXCEPT ![Master] = "null"]
      /\ at' = [seg |-> 0, call |-> "start"] /\ config' = config
  BY DEF Gone
<1>1. SigTypeOK'
  BY <1>a, <1>b DEF SigTypeOK, signals, States, Calls, NoSma
<1>2. state'[Master] = "exited" /\ mapped'[Master] = {}
  BY <1>a, <1>b DEF SigTypeOK
<1>3. \A q \in Process \ {Master} : Same(q)
  BY <1>a, <1>b DEF SigTypeOK, Same, signals
<1>4. ProcessInv(Master)'
  BY <1>2, <1>a, <1>b DEF ProcessInv, Quiet, Attached, Noticed, Installed, Called, Dumped, Started, signals
<1>5. \A q \in Process \ {Master} : ProcessInv(q)'
  BY <1>3, <1>b, ProcessFrame DEF SigInv
<1> QED
  BY <1>1, <1>2, <1>4, <1>5 DEF SigInv, Obtaining, NamesDropped

\* The system calls of MINIT, each of which may fail.
LEMMA MinitInv ==
  ASSUME SigInv, Startup PROVE SigInv'
<1>a. Master \in Process /\ SigTypeOK /\ ProcessInv(Master) /\ state[Master] = "minit"
  BY SegmentsAssumption DEF SigInv, Startup, Running
<1>b. UNCHANGED signals /\ Minit
  BY DEF Startup
<1>c. Num \in Nat \ {0} /\ Segment = 0 .. Num /\ (config' = config => Num' = Num)
  BY <1>a, NumFacts DEF Num
<1>d. /\ at.seg \in 0 .. Num /\ at.call \in Calls /\ at = [seg |-> at.seg, call |-> at.call]
      /\ mapped[Master] = 0 .. (IF at.call \in BeforeMap THEN at.seg - 1 ELSE at.seg)
      /\ at.call = "create" => at.seg = Num
      /\ at.call = "start" => at.seg = 0
      /\ at.call # "start" => sma[Master].initialized /\ sma[Master].segs = "live"
      /\ named \subseteq (IF at.call \in WithName THEN {at.seg} ELSE {})
  BY <1>a DEF SigInv, Obtaining, SigTypeOK
<1>e. FirstCall \in {"mkstemp", "mmap", "shmget"}
  BY DEF FirstCall
<1>f. UNCHANGED signals =>
        /\ UNCHANGED <<disp, oneshot, nodefer, prev, frames, pending, served, orig, called, core, interrupted>>
  BY DEF signals
<1>1. CASE SmaInit
  <2>1. /\ at.call = "start" /\ at' = [at EXCEPT !.call = FirstCall]
        /\ sma' = [sma EXCEPT ![Master] = [initialized |-> TRUE, segs |-> "live"]]
        /\ UNCHANGED <<config, state, user_cache, named, mapped>>
    BY <1>1 DEF SmaInit, At, Go, Stay
  <2>2. at'.seg = at.seg /\ at'.call \in {"mkstemp", "mmap", "shmget"} /\ at' \in [seg : Int, call : Calls]
    BY <1>d, <1>e, <2>1 DEF Calls
  <2>3. SigTypeOK'
    BY <1>a, <1>b, <1>f, <2>1, <2>2 DEF SigTypeOK
  <2>4. Obtaining'
    BY <1>a, <1>c, <1>d, <2>1, <2>2 DEF Obtaining, BeforeMap, WithName, SigTypeOK
  <2> QED
    BY <1>a, <1>b, <2>1, <2>3, <2>4, MinitGoes DEF SigTypeOK
<1>2. CASE Mkstemp
  <2>1. at.call = "mkstemp"
    BY <1>2 DEF Mkstemp, At
  <2>2. CASE named' = named \cup {at.seg} /\ Go("ftruncate") /\ Stay /\ UNCHANGED <<sma, mapped>>
    <3>1. /\ at'.seg = at.seg /\ at'.call = "ftruncate" /\ at' \in [seg : Int, call : Calls]
          /\ UNCHANGED <<config, state, user_cache>>
      BY <1>d, <2>2 DEF Go, Stay, Calls
    <3>2. SigTypeOK'
      BY <1>a, <1>b, <1>f, <2>2, <3>1 DEF SigTypeOK
    <3>3. Obtaining'
      BY <1>a, <1>c, <1>d, <2>1, <2>2, <3>1 DEF Obtaining, BeforeMap, WithName
    <3> QED
      BY <1>a, <1>b, <2>2, <3>1, <3>2, <3>3, MinitGoes
  <2>3. CASE CoreError /\ UNCHANGED abandoned
    BY <1>a, <1>b, <1>d, <2>1, <2>3, MinitEnds DEF CoreError, WithName
  <2> QED
    BY <1>2, <2>2, <2>3 DEF Mkstemp
<1>3. CASE Ftruncate
  <2>1. at.call = "ftruncate" /\ named' = named \ {at.seg} /\ abandoned' = abandoned
    BY <1>3 DEF Ftruncate, At
  <2>a. named' = {}
    BY <1>d, <2>1 DEF WithName
  <2>2. CASE Go("mmap") /\ Stay /\ UNCHANGED <<template, sma, mapped>>
    <3>1. /\ at'.seg = at.seg /\ at'.call = "mmap" /\ at' \in [seg : Int, call : Calls]
          /\ UNCHANGED <<config, state, user_cache>>
      BY <1>d, <2>2 DEF Go, Stay, Calls
    <3>2. SigTypeOK'
      BY <1>a, <1>b, <1>f, <2>2, <3>1 DEF SigTypeOK
    <3>3. Obtaining'
      BY <1>a, <1>c, <1>d, <2>1, <2>a, <2>2, <3>1 DEF Obtaining, BeforeMap, WithName
    <3> QED
      BY <1>a, <1>b, <2>2, <3>1, <3>2, <3>3, MinitGoes
  <2>3. CASE Gone(Master)
    BY <1>a, <1>b, <2>a, <2>3, MinitEnds
  <2> QED
    BY <1>3, <2>2, <2>3 DEF Ftruncate
<1>4. CASE Mmap
  <2>1. at.call = "mmap" /\ abandoned' = abandoned
    BY <1>4 DEF Mmap, At
  <2>2. CASE mapped' = [mapped EXCEPT ![Master] = @ \cup {at.seg}] /\ Go("layout") /\ Stay /\ UNCHANGED <<named, sma>>
    <3>1. /\ at'.seg = at.seg /\ at'.call = "layout" /\ at' \in [seg : Int, call : Calls]
          /\ UNCHANGED <<config, state, user_cache>>
      BY <1>d, <2>2 DEF Go, Stay, Calls
    <3>2. SigTypeOK'
      BY <1>a, <1>b, <1>d, <1>f, <2>2, <3>1 DEF SigTypeOK
    <3>3. mapped'[Master] = (0 .. at.seg - 1) \cup {at.seg}
      BY <1>a, <1>d, <2>1, <2>2 DEF SigTypeOK, BeforeMap
    <3>4. mapped'[Master] = 0 .. at.seg
      BY <1>c, <1>d, <3>3
    <3>5. Obtaining'
      BY <1>a, <1>c, <1>d, <2>1, <2>2, <3>1, <3>4 DEF Obtaining, BeforeMap, WithName
    <3> QED
      BY <1>a, <1>b, <2>2, <3>1, <3>2, <3>5, MinitGoes DEF SigTypeOK
  <2>3. CASE CoreError
    BY <1>a, <1>b, <1>d, <2>1, <2>3, MinitEnds DEF CoreError, WithName
  <2> QED
    BY <1>4, <2>2, <2>3 DEF Mmap
<1>5. CASE ShmCreate
  <2>1. at.call = "shmget" /\ abandoned' = abandoned
    BY <1>5 DEF ShmCreate, At
  <2>2. CASE named' = named \cup {at.seg} /\ Go("shmat") /\ Stay /\ UNCHANGED <<template, sma, mapped>>
    <3>1. /\ at'.seg = at.seg /\ at'.call = "shmat" /\ at' \in [seg : Int, call : Calls]
          /\ UNCHANGED <<config, state, user_cache>>
      BY <1>d, <2>2 DEF Go, Stay, Calls
    <3>2. SigTypeOK'
      BY <1>a, <1>b, <1>f, <2>2, <3>1 DEF SigTypeOK
    <3>3. Obtaining'
      BY <1>a, <1>c, <1>d, <2>1, <2>2, <3>1 DEF Obtaining, BeforeMap, WithName
    <3> QED
      BY <1>a, <1>b, <2>2, <3>1, <3>2, <3>3, MinitGoes
  <2>3. CASE CoreError
    BY <1>a, <1>b, <1>d, <2>1, <2>3, MinitEnds DEF CoreError, WithName
  <2> QED
    BY <1>5, <2>2, <2>3 DEF ShmCreate
<1>6. CASE ShmAttach
  <2>1. at.call = "shmat" /\ named' = named
    BY <1>6 DEF ShmAttach, At
  <2>2. CASE mapped' = [mapped EXCEPT ![Master] = @ \cup {at.seg}] /\ Go("rmid") /\ Stay /\ UNCHANGED <<template, sma, abandoned>>
    <3>1. /\ at'.seg = at.seg /\ at'.call = "rmid" /\ at' \in [seg : Int, call : Calls]
          /\ UNCHANGED <<config, state, user_cache>>
      BY <1>d, <2>2 DEF Go, Stay, Calls
    <3>2. SigTypeOK'
      BY <1>a, <1>b, <1>d, <1>f, <2>2, <3>1 DEF SigTypeOK
    <3>3. mapped'[Master] = (0 .. at.seg - 1) \cup {at.seg}
      BY <1>a, <1>d, <2>1, <2>2 DEF SigTypeOK, BeforeMap
    <3>4. mapped'[Master] = 0 .. at.seg
      BY <1>c, <1>d, <3>3
    <3>5. Obtaining'
      BY <1>a, <1>c, <1>d, <2>1, <2>2, <3>1, <3>4 DEF Obtaining, BeforeMap, WithName
    <3> QED
      BY <1>a, <1>b, <2>2, <3>1, <3>2, <3>5, MinitGoes DEF SigTypeOK
  <2>3. CASE Gone(Master) /\ abandoned' = named
    BY <1>a, <1>b, <2>1, <2>3, MinitEnds
  <2> QED
    BY <1>6, <2>2, <2>3 DEF ShmAttach
<1>7. CASE ShmDestroy
  <2>1. at.call = "rmid" /\ named' = named \ {at.seg} /\ UNCHANGED <<config, state, user_cache, sma, mapped>>
    BY <1>7 DEF ShmDestroy, At, Stay
  <2>2. at'.seg = at.seg /\ at'.call = "layout" /\ at' \in [seg : Int, call : Calls]
    BY <1>7, <1>d DEF ShmDestroy, Go, Calls
  <2>3. SigTypeOK'
    BY <1>a, <1>b, <1>f, <2>1, <2>2 DEF SigTypeOK
  <2>4. Obtaining'
    BY <1>a, <1>c, <1>d, <2>1, <2>2 DEF Obtaining, BeforeMap, WithName
  <2> QED
    BY <1>a, <1>b, <2>1, <2>3, <2>4, MinitGoes
<1>8. CASE LayOut
  <2>1. at.call = "layout" /\ UNCHANGED <<config, state, user_cache, named, sma, mapped>>
    BY <1>8 DEF LayOut, At, Stay
  <2>a. named = {} /\ mapped[Master] = 0 .. at.seg
    BY <1>d, <2>1 DEF WithName, BeforeMap
  <2>2. at' = IF at.seg < Num THEN [seg |-> at.seg + 1, call |-> FirstCall] ELSE [at EXCEPT !.call = "create"]
    BY <1>8 DEF LayOut
  <2>3. CASE at.seg < Num
    <3>1. /\ at'.seg = at.seg + 1 /\ at'.call \in {"mkstemp", "mmap", "shmget"}
          /\ at' \in [seg : Int, call : Calls] /\ at'.seg \in 0 .. Num /\ at'.seg - 1 = at.seg
      BY <1>c, <1>d, <1>e, <2>2, <2>3 DEF Calls
    <3>2. SigTypeOK'
      BY <1>a, <1>b, <1>f, <2>1, <3>1 DEF SigTypeOK
    <3>3. Obtaining'
      BY <1>a, <1>c, <1>d, <2>1, <2>a, <3>1 DEF Obtaining, BeforeMap, WithName
    <3> QED
      BY <1>a, <1>b, <2>1, <3>2, <3>3, MinitGoes
  <2>4. CASE ~(at.seg < Num)
    <3>1. at'.seg = Num /\ at.seg = Num /\ at'.call = "create" /\ at' \in [seg : Int, call : Calls]
      BY <1>c, <1>d, <2>2, <2>4 DEF Calls
    <3>2. SigTypeOK'
      BY <1>a, <1>b, <1>f, <2>1, <3>1 DEF SigTypeOK
    <3>3. Obtaining'
      BY <1>a, <1>c, <1>d, <2>1, <2>a, <3>1 DEF Obtaining, BeforeMap, WithName
    <3> QED
      BY <1>a, <1>b, <2>1, <3>2, <3>3, MinitGoes
  <2> QED
    BY <2>3, <2>4
<1>9. CASE CacheCreate
  <2>1. at.call = "create" /\ abandoned' = abandoned
    BY <1>9 DEF CacheCreate, At
  <2>a. named = {} /\ mapped[Master] = 0 .. Num /\ sma[Master].initialized /\ sma[Master].segs = "live"
    BY <1>d, <2>1 DEF WithName, BeforeMap
  <2>2. CASE /\ user_cache' = [user_cache EXCEPT ![Master] = "live"]
             /\ state' = [state EXCEPT ![Master] = "running"]
             /\ at' = [seg |-> 0, call |-> "start"]
             /\ UNCHANGED <<config, template, named, mapped, sma>>
    <3>1. SigTypeOK'
      BY <1>a, <1>b, <1>f, <2>2 DEF SigTypeOK, States, Calls
    <3>2. \A q \in Process \ {Master} : Same(q)
      BY <1>a, <1>b, <1>f, <2>2 DEF SigTypeOK, Same
    <3>3. /\ state'[Master] = "running" /\ user_cache'[Master] = "live"
          /\ mapped'[Master] = Segment /\ sma'[Master].initialized /\ sma'[Master].segs = "live"
          /\ Segment' = Segment
      BY <1>a, <1>c, <2>2, <2>a DEF SigTypeOK, Segment, Num
    <3>4. ProcessInv(Master)'
      <4>1. /\ frames[Master] = <<>> /\ pending[Master] = {} /\ prev[Master] = {}
            /\ ~served[Master] /\ core[Master] = None
            /\ \A s \in Signal : disp[Master][s] = "default"
        BY <1>a DEF ProcessInv, Quiet
      <4>2. DOMAIN <<>> = {}
        OBVIOUS
      <4>3. Quiet(Master)' /\ Called(Master)' /\ Dumped(Master)' /\ Noticed(Master)'
        BY <1>b, <1>f, <3>3, <4>1, <4>2 DEF Quiet, Called, Dumped, Noticed
      <4>4. Attached(Master)'
        BY <1>b, <1>f, <3>3, <4>1, <4>2 DEF Attached, Started
      <4>5. Installed(Master)'
        BY <1>b, <1>f, <3>3, <4>1, <4>2 DEF Installed
      <4> QED
        BY <4>3, <4>4, <4>5 DEF ProcessInv
    <3> QED
      BY <1>a, <2>2, <2>a, <3>1, <3>2, <3>3, <3>4, StepOf
  <2>3. CASE CoreError
    BY <1>a, <1>b, <2>1, <2>a, <2>3, MinitEnds DEF CoreError
  <2> QED
    BY <1>9, <2>2, <2>3 DEF CacheCreate
<1> QED
  BY <1>b, <1>1, <1>2, <1>3, <1>4, <1>5, <1>6, <1>7, <1>8, <1>9 DEF Minit

-----------------------------------------------------------------------------
(* The life of a process.                                                    *)

\* A child starts as a copy of a master that runs code of its own.
LEMMA ForkInv ==
  ASSUME SigInv, NEW c \in Process, Fork(c) PROVE SigInv'
<1>a. Master \in Process /\ SigTypeOK /\ ProcessInv(c) /\ ProcessInv(Master)
  BY SegmentsAssumption DEF SigInv
<1>b. /\ state[Master] = "running" /\ frames[Master] = <<>> /\ pending[Master] = {}
      /\ state[c] = "unborn" /\ c # Master
  BY DEF Fork, Running
<1>c. /\ state' = [state EXCEPT ![c] = "running"]
      /\ mapped' = [mapped EXCEPT ![c] = mapped[Master]]
      /\ sma' = [sma EXCEPT ![c] = sma[Master]]
      /\ user_cache' = [user_cache EXCEPT ![c] = user_cache[Master]]
      /\ disp' = [disp EXCEPT ![c] = disp[Master]]
      /\ oneshot' = [oneshot EXCEPT ![c] = oneshot[Master]]
      /\ nodefer' = [nodefer EXCEPT ![c] = nodefer[Master]]
      /\ prev' = [prev EXCEPT ![c] = prev[Master]]
      /\ served' = [served EXCEPT ![c] = served[Master]]
      /\ orig' = [orig EXCEPT ![c] = orig[Master]]
      /\ UNCHANGED <<config, at, named, abandoned, frames, pending, called, core, interrupted>>
  BY DEF Fork, Become, ForkMemory
<1>d. frames[c] = <<>> /\ pending[c] = {} /\ core[c] = None /\ DOMAIN <<>> = {}
  BY <1>a, <1>b DEF ProcessInv, Quiet
<1>1. SigTypeOK'
  BY <1>a, <1>c DEF SigTypeOK, States
<1>2. \A q \in Process \ {c} : Same(q)
  BY <1>a, <1>c DEF SigTypeOK, Same
<1>3. /\ state'[c] = "running" /\ mapped'[c] = mapped[Master] /\ sma'[c] = sma[Master]
      /\ user_cache'[c] = user_cache[Master] /\ disp'[c] = disp[Master]
      /\ prev'[c] = prev[Master] /\ served'[c] = served[Master] /\ orig'[c] = orig[Master]
      /\ frames'[c] = <<>> /\ pending'[c] = {} /\ core'[c] = None /\ Segment' = Segment
  BY <1>a, <1>c, <1>d DEF SigTypeOK, Segment, Num
<1>4. ProcessInv(c)'
  <2>1. Quiet(c)' /\ Called(c)' /\ Dumped(c)' /\ Noticed(c)'
    BY <1>3, <1>d DEF Quiet, Called, Dumped, Noticed
  <2>2. Attached(c)'
    BY <1>3, <1>a, <1>b DEF Attached, Started, ProcessInv
  <2>3. Installed(c)'
    BY <1>3, <1>a, <1>b, <1>c DEF Installed, ProcessInv
  <2> QED
    BY <2>1, <2>2, <2>3 DEF ProcessInv
<1> QED
  BY <1>1, <1>2, <1>3, <1>4, <1>b, <1>c, StepOf

\* What a signal does is set before requests run.
LEMMA SigactionInv ==
  ASSUME SigInv, NEW p \in Process, NEW s \in Signal, NEW d \in {"ignore", "prior"},
         NEW flags, Sigaction(p, s, d, flags)
  PROVE SigInv'
<1>a. SigTypeOK /\ ProcessInv(p)
  BY DEF SigInv
<1>b. /\ state[p] = "running" /\ ~served[p] /\ disp' = [disp EXCEPT ![p][s] = d]
      /\ UNCHANGED <<config, state, memory, prev, frames, pending, served, orig, called, core, interrupted>>
  BY DEF Sigaction, Running
<1>d. oneshot' \in [Process -> SUBSET Signal] /\ nodefer' \in [Process -> SUBSET Signal]
  BY <1>a DEF Sigaction, SigTypeOK
<1>c. UNCHANGED <<at, named, mapped, sma, user_cache, abandoned>>
  BY <1>b DEF memory
<1>1. SigTypeOK'
  BY <1>a, <1>b, <1>c, <1>d DEF SigTypeOK
<1>2. \A q \in Process \ {p} : Same(q)
  BY <1>a, <1>b, <1>c DEF SigTypeOK, Same
<1>3. \A u \in Signal : disp'[p][u] = IF u = s THEN d ELSE disp[p][u]
  BY <1>a, <1>b DEF SigTypeOK
<1>4. ProcessInv(p)'
  <2>1. Quiet(p)' /\ Called(p)' /\ Dumped(p)' /\ Noticed(p)'
    BY <1>a, <1>b, <1>c DEF ProcessInv, Quiet, Called, Dumped, Noticed, Detaching
  <2>2. Attached(p)'
    BY <1>a, <1>b, <1>c DEF ProcessInv, Attached, Started, Segment, Num
  <2>3. Installed(p)'
    BY <1>a, <1>b, <1>c, <1>3 DEF ProcessInv, Installed
  <2> QED
    BY <2>1, <2>2, <2>3 DEF ProcessInv
<1>5. named \subseteq abandoned \/ p # Master
  BY <1>b DEF SigInv, NamesDropped
<1> QED
  BY <1>1, <1>2, <1>4, <1>5, <1>b, <1>c, StepOf

\* A request starts, and installs our handlers unless some are saved.
LEMMA RinitInv ==
  ASSUME SigInv, NEW p \in Process, Rinit(p) PROVE SigInv'
<1>a. SigTypeOK /\ ProcessInv(p)
  BY DEF SigInv
<1>b. /\ state[p] = "running" /\ frames[p] = <<>> /\ pending[p] = {} /\ DOMAIN <<>> = {}
      /\ state' = [state EXCEPT ![p] = "request"]
      /\ served' = [served EXCEPT ![p] = TRUE]
      /\ orig' = IF served[p] THEN orig
                 ELSE [orig EXCEPT ![p] = {s \in Signal : disp[p][s] = "prior"}]
      /\ UNCHANGED <<config, memory, frames, pending, called, core, interrupted>>
  BY DEF Rinit, Running, Become
<1>c. UNCHANGED <<at, named, mapped, sma, user_cache, abandoned>>
  BY <1>b DEF memory
<1>d. SetSignals(p)
  BY DEF Rinit
<1>e. /\ mapped[p] = Segment /\ sma[p].initialized /\ user_cache[p] = "live" /\ core[p] = None
      /\ sma[p].segs = "live" /\ Segment' = Segment
  BY <1>a, <1>b DEF ProcessInv, Attached, Started, Dumped, Segment, Num
<1>1. /\ prev' \in [Process -> SUBSET Signal] /\ oneshot' \in [Process -> SUBSET Signal]
      /\ nodefer' \in [Process -> SUBSET Signal]
      /\ disp' \in [Process -> [Signal -> {"default", "ignore", "prior", "ours"}]]
      /\ \A q \in Process \ {p} : prev'[q] = prev[q] /\ disp'[q] = disp[q]
      /\ IF prev[p] = {} /\ config.coredump_unmap
         THEN /\ prev'[p] = {s \in Signal : disp[p][s] = "prior"}
              /\ \A s \in Signal : disp'[p][s] = "ours"
         ELSE prev'[p] = prev[p] /\ disp'[p] = disp[p]
  <2>1. CASE prev[p] = {} /\ config.coredump_unmap
    <3>1. /\ prev' = [prev EXCEPT ![p] = prev[p] \cup {s \in Signal : disp[p][s] = "prior"}]
          /\ oneshot' = [oneshot EXCEPT ![p] = oneshot[p] \cup {s \in Signal : disp[p][s] \in {"default", "ignore"}}]
          /\ nodefer' = [nodefer EXCEPT ![p] = nodefer[p] \ {s \in Signal : disp[p][s] \in {"default", "ignore"}}]
          /\ disp' = [disp EXCEPT ![p] = [s \in Signal |-> "ours"]]
      BY <1>d, <2>1 DEF SetSignals, Register
    <3> QED
      BY <1>a, <2>1, <3>1 DEF SigTypeOK
  <2>2. CASE ~(prev[p] = {} /\ config.coredump_unmap)
    BY <1>a, <1>d, <2>2 DEF SetSignals, SigTypeOK
  <2> QED
    BY <2>1, <2>2
<1>2. SigTypeOK'
  <2>1. orig' \in [Process -> SUBSET Signal] /\ state' \in [Process -> States] /\ served' \in [Process -> BOOLEAN]
    BY <1>a, <1>b DEF SigTypeOK, States
  <2> QED
    BY <1>1, <1>a, <1>b, <1>c, <2>1 DEF SigTypeOK
<1>3. \A q \in Process \ {p} : Same(q)
  BY <1>1, <1>a, <1>b, <1>c DEF SigTypeOK, Same
<1>4. /\ state'[p] = "request" /\ served'[p]
      /\ orig'[p] = IF served[p] THEN orig[p] ELSE {s \in Signal : disp[p][s] = "prior"}
  BY <1>a, <1>b DEF SigTypeOK
<1>5. ProcessInv(p)'
  <2>1. Quiet(p)' /\ Called(p)' /\ Dumped(p)' /\ Noticed(p)'
    BY <1>4, <1>b, <1>e DEF Quiet, Called, Dumped, Noticed
  <2>2. Attached(p)'
    BY <1>4, <1>b, <1>c, <1>e DEF Attached, Started
  <2>3. Installed(p)'
    <3>1. sma[p].initialized /\ DOMAIN frames[p] = {}
      BY <1>b, <1>e
    <3>2. CASE ~config.coredump_unmap
      BY <1>1, <1>4, <1>a, <1>b, <3>2 DEF ProcessInv, Installed
    <3>3. CASE config.coredump_unmap
      <4>1. frames'[p] = <<>> /\ config' = config /\ sma'[p] = sma[p]
        BY <1>b, <1>c
      <4>2. ~served[p] => prev[p] = {}
        BY <1>a DEF ProcessInv, Installed
      <4>3. served[p] => orig[p] \subseteq prev[p] /\ \A s \in Signal : disp[p][s] = "ours"
        BY <1>a, <1>b, <3>1, <3>3 DEF ProcessInv, Installed
      <4>4. orig'[p] \subseteq prev'[p]
        BY <1>1, <1>4, <3>3, <4>2, <4>3
      <4>5. \A s \in Signal : disp'[p][s] = "ours"
        BY <1>1, <3>3, <4>2, <4>3
      <4> QED
        BY <1>4, <3>3, <4>1, <4>4, <4>5 DEF Installed
    <3> QED
      BY <1>a, <3>2, <3>3 DEF SigTypeOK, Config
  <2> QED
    BY <2>1, <2>2, <2>3 DEF ProcessInv
<1>6. named \subseteq abandoned \/ p # Master
  BY <1>b DEF SigInv, NamesDropped
<1> QED
  BY <1>2, <1>3, <1>4, <1>5, <1>6, <1>b, <1>c, StepOf

\* A request ends.
LEMMA EndRequestInv ==
  ASSUME SigInv, NEW p \in Process, EndRequest(p) PROVE SigInv'
<1>a. SigTypeOK /\ ProcessInv(p)
  BY DEF SigInv
<1>b. /\ state[p] = "request" /\ state' = [state EXCEPT ![p] = "running"]
      /\ UNCHANGED <<config, at, named, mapped, sma, user_cache, abandoned>>
      /\ UNCHANGED <<disp, oneshot, nodefer, prev, frames, pending, served, orig, called, core, interrupted>>
  BY DEF EndRequest, Running, Become, memory, signals
<1>1. SigTypeOK' /\ state'[p] = "running"
  BY <1>a, <1>b DEF SigTypeOK, States
<1>2. \A q \in Process \ {p} : Same(q)
  BY <1>a, <1>b DEF SigTypeOK, Same
<1>3. ProcessInv(p)'
  <2>1. Quiet(p)' /\ Called(p)' /\ Dumped(p)' /\ Noticed(p)'
    BY <1>1, <1>a, <1>b DEF ProcessInv, Quiet, Called, Dumped, Noticed, Detaching
  <2>2. Attached(p)'
    BY <1>1, <1>a, <1>b DEF ProcessInv, Attached, Started, Segment, Num
  <2>3. Installed(p)'
    BY <1>1, <1>a, <1>b DEF ProcessInv, Installed
  <2> QED
    BY <2>1, <2>2, <2>3 DEF ProcessInv
<1>4. named \subseteq abandoned \/ p # Master
  BY <1>b DEF SigInv, NamesDropped
<1> QED
  BY <1>1, <1>2, <1>3, <1>4, <1>b, StepOf

\* MSHUTDOWN: the cache is freed.
LEMMA MshutdownInv ==
  ASSUME SigInv, NEW p \in Process, Mshutdown(p) PROVE SigInv'
<1>a. SigTypeOK /\ ProcessInv(p)
  BY DEF SigInv
<1>b. /\ state[p] = "running" /\ frames[p] = <<>> /\ pending[p] = {} /\ DOMAIN <<>> = {}
      /\ state' = [state EXCEPT ![p] = "mshutdown"]
      /\ user_cache' = [user_cache EXCEPT ![p] = "freed"]
      /\ UNCHANGED <<config, at, named, mapped, sma, abandoned>>
      /\ UNCHANGED <<disp, oneshot, nodefer, prev, frames, pending, served, orig, called, core, interrupted>>
  BY DEF Mshutdown, Running, Become, signals
<1>1. SigTypeOK' /\ state'[p] = "mshutdown" /\ user_cache'[p] = "freed"
  BY <1>a, <1>b DEF SigTypeOK, States
<1>2. \A q \in Process \ {p} : Same(q)
  BY <1>a, <1>b DEF SigTypeOK, Same
<1>3. ProcessInv(p)'
  <2>1. Quiet(p)' /\ Called(p)' /\ Dumped(p)' /\ Noticed(p)'
    BY <1>1, <1>a, <1>b DEF ProcessInv, Quiet, Called, Dumped, Noticed
  <2>2. Attached(p)'
    BY <1>1, <1>a, <1>b DEF ProcessInv, Attached, Started
  <2>3. Installed(p)'
    BY <1>1, <1>a, <1>b DEF ProcessInv, Installed
  <2> QED
    BY <2>1, <2>2, <2>3 DEF ProcessInv
<1>4. named \subseteq abandoned \/ p # Master
  BY <1>b DEF SigInv, NamesDropped
<1> QED
  BY <1>1, <1>2, <1>3, <1>4, <1>b, StepOf

\* The steps of sma_detach: what they do to p and leave alone.
LEMMA DetachFacts ==
  ASSUME SigTypeOK, NEW p \in Process, SmaDetach(p) \/ UnmapSegment(p) \/ FreeSegs(p)
  PROVE /\ UNCHANGED <<config, at, named, abandoned>>
        /\ mapped' \in [Process -> SUBSET Int] /\ mapped'[p] \subseteq mapped[p]
        /\ sma' \in [Process -> [initialized : BOOLEAN, segs : {"none", "live", "freed"}]]
        /\ \A q \in Process \ {p} : mapped'[q] = mapped[q] /\ sma'[q] = sma[q]
        /\ sma'[p].initialized => sma[p].initialized
        /\ sma'[p].segs = sma[p].segs \/ (sma'[p].segs = "freed" /\ mapped'[p] = {} /\ FreeSegs(p))
<1>1. CASE SmaDetach(p)
  BY <1>1 DEF SmaDetach, SigTypeOK
<1>2. CASE UnmapSegment(p)
  BY <1>2 DEF UnmapSegment, SigTypeOK
<1>3. CASE FreeSegs(p)
  <2>1. /\ mapped[p] = {} /\ sma' = [sma EXCEPT ![p].segs = "freed"]
        /\ UNCHANGED <<config, at, named, mapped, abandoned>>
    BY <1>3 DEF FreeSegs
  <2>2. sma'[p].segs = "freed" /\ sma'[p].initialized = sma[p].initialized
    BY <2>1 DEF SigTypeOK
  <2>3. sma' \in [Process -> [initialized : BOOLEAN, segs : {"none", "live", "freed"}]]
    BY <2>1 DEF SigTypeOK
  <2>4. \A q \in Process \ {p} : mapped'[q] = mapped[q] /\ sma'[q] = sma[q]
    BY <2>1 DEF SigTypeOK
  <2>5. mapped' \in [Process -> SUBSET Int] /\ mapped'[p] = {}
    BY <2>1 DEF SigTypeOK
  <2> QED
    BY <1>3, <2>1, <2>2, <2>3, <2>4, <2>5
<1> QED
  BY <1>1, <1>2, <1>3

\* MSHUTDOWN: memory is detached.
LEMMA MshutdownDetachInv ==
  ASSUME SigInv, NEW p \in Process, MshutdownDetach(p) PROVE SigInv'
<1>a. SigTypeOK /\ ProcessInv(p)
  BY DEF SigInv
<1>b. /\ state[p] = "mshutdown" /\ frames[p] = <<>> /\ pending[p] = {} /\ DOMAIN <<>> = {}
      /\ UNCHANGED <<state, user_cache>>
      /\ UNCHANGED <<disp, oneshot, nodefer, prev, frames, pending, served, orig, called, core, interrupted>>
  BY DEF MshutdownDetach, Running, signals
<1>c. /\ UNCHANGED <<config, at, named, abandoned>>
      /\ mapped' \in [Process -> SUBSET Int] /\ mapped'[p] \subseteq mapped[p]
      /\ sma' \in [Process -> [initialized : BOOLEAN, segs : {"none", "live", "freed"}]]
      /\ \A q \in Process \ {p} : mapped'[q] = mapped[q] /\ sma'[q] = sma[q]
      /\ sma'[p].initialized => sma[p].initialized
      /\ sma'[p].segs = sma[p].segs \/ (sma'[p].segs = "freed" /\ mapped'[p] = {} /\ FreeSegs(p))
  BY <1>a, DetachFacts DEF MshutdownDetach
<1>d. sma'[p].segs = "freed" => mapped'[p] = {} /\ ~sma'[p].initialized
  <2>1. CASE SmaDetach(p)
    BY <1>a, <1>b, <1>c, <2>1 DEF SmaDetach, SigTypeOK, ProcessInv, Attached, Started
  <2>2. CASE ~sma[p].initialized
    BY <1>a, <1>b, <1>c, <2>2 DEF ProcessInv, Attached, Started
  <2> QED
    BY <2>1, <2>2 DEF MshutdownDetach
<1>1. SigTypeOK'
  BY <1>a, <1>b, <1>c DEF SigTypeOK
<1>2. \A q \in Process \ {p} : Same(q)
  BY <1>b, <1>c DEF Same
<1>3. ProcessInv(p)'
  <2>1. Quiet(p)' /\ Called(p)' /\ Dumped(p)' /\ Noticed(p)'
    BY <1>a, <1>b, <1>c DEF ProcessInv, Quiet, Called, Dumped, Noticed
  <2>2. Attached(p)'
    BY <1>a, <1>b, <1>c, <1>d DEF ProcessInv, Attached, Started
  <2>3. Installed(p)'
    BY <1>a, <1>b, <1>c DEF ProcessInv, Installed
  <2> QED
    BY <2>1, <2>2, <2>3 DEF ProcessInv
<1>4. named \subseteq abandoned \/ p # Master
  BY <1>b DEF SigInv, NamesDropped
<1> QED
  BY <1>1, <1>2, <1>3, <1>4, <1>b, <1>c, StepOf

\* MSHUTDOWN: saved handlers are freed.
LEMMA ShutdownSignalsInv ==
  ASSUME SigInv, NEW p \in Process, ShutdownSignals(p) PROVE SigInv'
<1>a. SigTypeOK /\ ProcessInv(p)
  BY DEF SigInv
<1>b. /\ state[p] = "mshutdown" /\ frames[p] = <<>> /\ pending[p] = {} /\ DOMAIN <<>> = {}
      /\ sma[p].segs = "freed"
      /\ state' = [state EXCEPT ![p] = "down"] /\ prev' = [prev EXCEPT ![p] = {}]
      /\ UNCHANGED <<config, at, named, mapped, sma, user_cache, abandoned>>
      /\ UNCHANGED <<disp, oneshot, nodefer, frames, pending, served, orig, called, core, interrupted>>
  BY DEF ShutdownSignals, Running, Become, memory
<1>1. SigTypeOK' /\ state'[p] = "down" /\ prev'[p] = {}
  BY <1>a, <1>b DEF SigTypeOK, States
<1>2. \A q \in Process \ {p} : Same(q)
  BY <1>a, <1>b DEF SigTypeOK, Same
<1>3. ProcessInv(p)'
  <2>1. Quiet(p)' /\ Called(p)' /\ Dumped(p)' /\ Noticed(p)'
    BY <1>1, <1>a, <1>b DEF ProcessInv, Quiet, Called, Dumped, Noticed
  <2>2. Attached(p)'
    BY <1>1, <1>a, <1>b DEF ProcessInv, Attached, Started
  <2>3. Installed(p)'
    BY <1>1, <1>a, <1>b DEF ProcessInv, Installed
  <2> QED
    BY <2>1, <2>2, <2>3 DEF ProcessInv
<1>4. named \subseteq abandoned \/ p # Master
  BY <1>b DEF SigInv, NamesDropped
<1> QED
  BY <1>1, <1>2, <1>3, <1>4, <1>b, StepOf

\* A process leaves, or is killed.
LEMMA LeaveInv ==
  ASSUME SigInv, NEW p \in Process, Leave(p) \/ Kill(p) PROVE SigInv'
<1>1. CASE Leave(p)
  BY <1>1, ExitInv DEF Leave, Running
<1>2. CASE Kill(p)
  BY <1>2, EndInv DEF Kill, Killed
<1> QED
  BY <1>1, <1>2

-----------------------------------------------------------------------------
(* Signals.                                                                  *)

\* A signal comes through.
LEMMA TakeInv ==
  ASSUME SigInv, NEW p \in Process, NEW s \in Signal, Alive(p), Take(p, s)
  PROVE SigInv'
<1>a. SigTypeOK /\ ProcessInv(p)
  BY DEF SigInv
<1>b. state[p] \in {"minit", "running", "request", "mshutdown", "down"}
  BY DEF Alive
<1>c. interrupted' = IF TooEarly(p, s) THEN interrupted \cup {p} ELSE interrupted
  BY DEF Take
<1>1. CASE disp[p][s] = "default"
  <2>1. DumpCore(p)
    BY <1>1 DEF Take
  <2>2. config.coredump_unmap /\ served[p] => mapped[p] = {} \/ p \in interrupted'
    <3> SUFFICES ASSUME config.coredump_unmap, served[p], mapped[p] # {} PROVE TooEarly(p, s)
      BY <1>c
    <3>1. state[p] \in Started
      BY <1>a, <1>b DEF ProcessInv, Quiet, Started
    <3>2. sma[p].segs = "live"
      BY <1>a, <3>1 DEF ProcessInv, Attached
    <3>3. CASE state[p] \in {"mshutdown", "down"}
      BY <1>a, <3>2, <3>3 DEF ProcessInv, Attached, TooEarly, Detaching
    <3>4. CASE state[p] \in {"running", "request"}
      <4>1. ~sma[p].initialized \/ \E i \in DOMAIN frames[p] : frames[p][i] = [sig |-> s, at |-> "unmap"]
        BY <1>1, <1>a, <3>4 DEF ProcessInv, Installed
      <4> QED
        BY <1>1, <3>2, <4>1 DEF TooEarly, Detaching
    <3> QED
      BY <3>1, <3>3, <3>4 DEF Started
  <2> QED
    BY <1>c, <2>1, <2>2, DumpCoreInv
<1>2. CASE disp[p][s] = "ours"
  <2> DEFINE f == [sig |-> s, at |-> "unmap"]
             n == Len(frames[p])
  <2>1. /\ frames' = [frames EXCEPT ![p] = Append(frames[p], f)]
        /\ disp' = IF s \in oneshot[p] THEN [disp EXCEPT ![p][s] = "default"] ELSE disp
        /\ pending' = [pending EXCEPT ![p] = pending[p] \ {s}]
        /\ UNCHANGED <<config, state, at, named, mapped, sma, user_cache, abandoned>>
        /\ UNCHANGED <<oneshot, nodefer, prev, served, orig, called, core>>
    BY <1>2 DEF Take, Enter, Reset, memory
  <2>2. f \in Frame /\ frames[p] \in Seq(Frame)
    BY <1>a DEF Frame, SigTypeOK
  <2>3. /\ Append(frames[p], f) \in Seq(Frame) /\ Append(frames[p], f) # <<>>
        /\ n \in Nat /\ DOMAIN frames[p] = 1 .. n /\ DOMAIN Append(frames[p], f) = 1 .. n + 1
        /\ \A i \in 1 .. n : Append(frames[p], f)[i] = frames[p][i]
        /\ Append(frames[p], f)[n + 1] = f
    BY <2>2
  <2> HIDE DEF n, f
  <2>4. frames'[p] = Append(frames[p], f) /\ pending'[p] = pending[p] \ {s}
    BY <1>a, <2>1 DEF SigTypeOK
  <2>a. /\ \A i \in DOMAIN frames[p] : i \in DOMAIN frames'[p] /\ frames'[p][i] = frames[p][i]
        /\ n + 1 \in DOMAIN frames'[p] /\ frames'[p][n + 1] = f
        /\ \A i \in DOMAIN frames'[p] : i \in DOMAIN frames[p] \/ frames'[p][i] = f
    BY <2>3, <2>4
  <2>5. SigTypeOK'
    <3>1. frames' \in [Process -> Seq(Frame)]
      BY <1>a, <2>1, <2>3 DEF SigTypeOK
    <3>2. disp' \in [Process -> [Signal -> {"default", "ignore", "prior", "ours"}]]
      BY <1>a, <2>1 DEF SigTypeOK
    <3> QED
      BY <1>a, <2>1, <3>1, <3>2 DEF SigTypeOK
  <2>6. \A q \in Process \ {p} : Same(q)
    BY <1>a, <1>c, <2>1 DEF SigTypeOK, Same
  <2>7. served[p] /\ config.coredump_unmap /\ state[p] # "minit"
    <3>1. served[p] /\ config.coredump_unmap
      BY <1>2, <1>a DEF ProcessInv, Installed
    <3> QED
      BY <1>a, <3>1 DEF ProcessInv, Quiet
  <2>8. ProcessInv(p)'
    <3>1. Quiet(p)' /\ Dumped(p)'
      BY <1>a, <1>b, <2>1, <2>7 DEF ProcessInv, Quiet, Dumped
    <3>2. Attached(p)'
      <4>1. state[p] \in {"mshutdown", "down"} => \A i \in DOMAIN frames'[p] : frames'[p][i].at = "unmap"
        BY <1>a, <2>a DEF ProcessInv, Attached, f
      <4>2. \A i \in DOMAIN frames'[p] : frames'[p][i].at = "unmapping" => ~sma[p].initialized
        BY <1>a, <2>a DEF ProcessInv, Attached, f
      <4>3. frames'[p] # <<>> /\ state'[p] = state[p] /\ mapped'[p] = mapped[p] /\ sma'[p] = sma[p]
            /\ user_cache'[p] = user_cache[p]
        BY <2>1, <2>3, <2>4
      <4> QED
        BY <1>a, <1>b, <4>1, <4>2, <4>3 DEF ProcessInv, Attached, Started
    <3>3. Installed(p)'
      <4>1. ASSUME NEW u \in Signal, disp'[p][u] # "ours", state[p] \in {"running", "request"}
            PROVE ~sma[p].initialized \/ \E i \in DOMAIN frames'[p] : frames'[p][i] = [sig |-> u, at |-> "unmap"]
        <5>1. CASE u = s
          BY <2>a, <5>1 DEF f
        <5>2. CASE u # s
          <6>1. disp[p][u] # "ours"
            BY <1>a, <2>1, <4>1, <5>2 DEF SigTypeOK
          <6>2. ~sma[p].initialized \/ \E i \in DOMAIN frames[p] : frames[p][i] = [sig |-> u, at |-> "unmap"]
            BY <1>a, <2>7, <4>1, <6>1 DEF ProcessInv, Installed
          <6> QED
            BY <2>a, <6>2
        <5> QED
          BY <5>1, <5>2
      <4>2. \A u \in Signal : disp'[p][u] \in {disp[p][u], "default"}
        BY <1>a, <2>1 DEF SigTypeOK
      <4> QED
        BY <1>a, <2>1, <2>7, <4>1, <4>2 DEF ProcessInv, Installed
    <3>4. Called(p)'
      <4>1. \A i \in DOMAIN frames'[p] : frames'[p][i].at = "kill" => i \in DOMAIN frames[p] /\ frames'[p][i] = frames[p][i]
        BY <2>a DEF f
      <4> QED
        BY <1>a, <2>1, <2>4, <4>1 DEF ProcessInv, Called
    <3>5. Noticed(p)'
      BY <1>c, <2>1 DEF Noticed, Detaching, TooEarly
    <3> QED
      BY <3>1, <3>2, <3>3, <3>4, <3>5 DEF ProcessInv
  <2>9. named \subseteq abandoned \/ p # Master
    BY <2>7 DEF SigInv, NamesDropped
  <2> QED
    BY <2>1, <2>5, <2>6, <2>7, <2>8, <2>9, StepOf
<1>3. CASE disp[p][s] \notin {"default", "ours"}
  <2>1. state[p] # "minit"
    BY <1>3, <1>a DEF ProcessInv, Quiet
  <2>2. CASE /\ IF disp[p][s] = "prior" THEN Reset(p, s) ELSE UNCHANGED disp
             /\ pending' = [pending EXCEPT ![p] = pending[p] \ {s}]
             /\ UNCHANGED <<config, state, memory, oneshot, nodefer, prev, frames, served, orig, called, core>>
    <3>1. UNCHANGED <<at, named, mapped, sma, user_cache, abandoned>>
      BY <2>2 DEF memory
    <3>2. /\ disp' \in [Process -> [Signal -> {"default", "ignore", "prior", "ours"}]]
          /\ \A q \in Process \ {p} : disp'[q] = disp[q]
          /\ \A u \in Signal : disp'[p][u] \in {disp[p][u], "default"}
      <4>1. disp' = disp \/ disp' = [disp EXCEPT ![p][s] = "default"]
        BY <2>2 DEF Reset
      <4>2. CASE disp' = disp
        BY <1>a, <4>2 DEF SigTypeOK
      <4>3. CASE disp' = [disp EXCEPT ![p][s] = "default"]
        BY <1>a, <4>3 DEF SigTypeOK
      <4> QED
        BY <4>1, <4>2, <4>3
    <3>3. SigTypeOK'
      BY <1>a, <2>2, <3>1, <3>2 DEF SigTypeOK
    <3>4. \A q \in Process \ {p} : Same(q)
      BY <1>a, <1>c, <2>2, <3>1, <3>2 DEF SigTypeOK, Same
    <3>5. pending'[p] = pending[p] \ {s}
      BY <1>a, <2>2 DEF SigTypeOK
    <3>6. ProcessInv(p)'
      <4>1. ~(served[p] /\ config.coredump_unmap) \/ state[p] \notin {"running", "request"}
        BY <1>3, <1>a DEF ProcessInv, Installed
      <4>2. Quiet(p)' /\ Dumped(p)' /\ Called(p)'
        BY <1>a, <1>c, <2>1, <2>2, <3>5 DEF ProcessInv, Quiet, Dumped, Called
      <4>3. ~served[p] \/ ~config.coredump_unmap => pending[p] = {}
        BY <1>a DEF ProcessInv, Installed
      <4>4. Attached(p)'
        BY <1>a, <1>b, <2>2, <3>1, <3>5, <4>1, <4>3 DEF ProcessInv, Attached, Started, Segment, Num
      <4>5. Noticed(p)'
        BY <1>a, <1>c, <2>2, <3>1 DEF ProcessInv, Noticed, Detaching
      <4>6. Installed(p)'
        BY <1>a, <2>2, <3>2, <3>5, <4>1 DEF ProcessInv, Installed
      <4> QED
        BY <4>2, <4>4, <4>5, <4>6 DEF ProcessInv
    <3>7. named \subseteq abandoned \/ p # Master
      BY <2>1 DEF SigInv, NamesDropped
    <3> QED
      BY <2>1, <2>2, <3>1, <3>3, <3>4, <3>6, <3>7, StepOf
  <2>3. CASE Exit(p)
    BY <1>c, <2>1, <2>3, ExitInv
  <2> QED
    BY <1>3, <2>2, <2>3 DEF Take, Other
<1> QED
  BY <1>1, <1>2, <1>3

\* The innermost handler goes on to step l.
LEMMA ProceedFacts ==
  ASSUME SigTypeOK, NEW p \in Process, NEW l \in {"unmap", "unmapping", "rehandle", "kill"},
         frames[p] # <<>>, Proceed(p, l)
  PROVE LET n == Len(frames[p]) IN
        /\ n \in DOMAIN frames[p] /\ Last(frames[p]) = frames[p][n] /\ frames[p][n] \in Frame
        /\ frames' \in [Process -> Seq(Frame)]
        /\ \A q \in Process \ {p} : frames'[q] = frames[q]
        /\ frames'[p] # <<>> /\ DOMAIN frames'[p] = DOMAIN frames[p]
        /\ \A i \in DOMAIN frames[p] \ {n} : frames'[p][i] = frames[p][i]
        /\ frames'[p][n] = [sig |-> frames[p][n].sig, at |-> l]
        /\ Len(frames'[p]) = n
<1> DEFINE n == Len(frames[p])
           g == [frames[p] EXCEPT ![n] = [frames[p][n] EXCEPT !.at = l]]
<1>1. frames[p] \in Seq(Frame)
  BY DEF SigTypeOK
<1>2. n \in Nat \ {0} /\ DOMAIN frames[p] = 1 .. n /\ n \in 1 .. n
  BY <1>1
<1>3. frames[p][n] \in Frame /\ Last(frames[p]) = frames[p][n]
  BY <1>1, <1>2 DEF Last
<1>4. [frames[p][n] EXCEPT !.at = l] = [sig |-> frames[p][n].sig, at |-> l]
      /\ [frames[p][n] EXCEPT !.at = l] \in Frame
  BY <1>3 DEF Frame
<1>5. frames' = [frames EXCEPT ![p] = g]
  BY <1>1 DEF Proceed
<1>6. /\ DOMAIN g = 1 .. n /\ g[n] = [sig |-> frames[p][n].sig, at |-> l]
      /\ \A i \in (1 .. n) \ {n} : g[i] = frames[p][i]
  BY <1>2, <1>4
<1>7. g \in Seq(Frame) /\ g # <<>>
  <2>1. \A i \in 1 .. n : g[i] \in Frame
    BY <1>1, <1>2, <1>3, <1>4
  <2>2. g = [i \in 1 .. n |-> g[i]]
    BY <1>6
  <2>3. g \in Seq(Frame)
    BY <1>1, <1>4, <1>2
  <2> QED
    BY <1>2, <1>6, <2>3
<1> HIDE DEF g
<1>8. frames'[p] = g /\ \A q \in Process \ {p} : frames'[q] = frames[q]
  BY <1>5 DEF SigTypeOK
<1>9. frames' \in [Process -> Seq(Frame)]
  BY <1>5, <1>7 DEF SigTypeOK
<1> HIDE DEF n
<1>10. /\ n \in DOMAIN frames[p] /\ Last(frames[p]) = frames[p][n] /\ frames[p][n] \in Frame
       /\ frames'[p] # <<>> /\ DOMAIN frames'[p] = DOMAIN frames[p]
       /\ \A i \in DOMAIN frames[p] \ {n} : frames'[p][i] = frames[p][i]
       /\ frames'[p][n] = [sig |-> frames[p][n].sig, at |-> l]
  BY <1>2, <1>3, <1>6, <1>7, <1>8
<1>11. Len(frames'[p]) = n
  BY <1>2, <1>6, <1>7, <1>8
<1> QED
  BY <1>8, <1>9, <1>10, <1>11 DEF n

\* A process in a handler has served with our handlers installed.
LEMMA HandlerFacts ==
  ASSUME SigTypeOK, NEW p \in Process, ProcessInv(p), frames[p] # <<>>
  PROVE /\ served[p] /\ config.coredump_unmap
        /\ state[p] \in Started /\ core[p] = None
<1>1. served[p] /\ config.coredump_unmap
  BY DEF ProcessInv, Installed, SigTypeOK, Config
<1>2. state[p] \notin {"unborn", "minit", "undefined", "exited"}
  BY DEF ProcessInv, Quiet, Attached
<1> QED
  BY <1>1, <1>2 DEF SigTypeOK, States, Started, ProcessInv, Dumped

\* A step of sma_detach inside a handler.
LEMMA DetachInv ==
  ASSUME SigInv, NEW p \in Process, frames[p] # <<>>, state[p] \in {"running", "request"},
         SmaDetach(p) \/ UnmapSegment(p) \/ FreeSegs(p),
         sma'[p].segs = "freed" => mapped'[p] = {} /\ ~sma'[p].initialized,
         UNCHANGED <<state, user_cache, disp, oneshot, nodefer, prev, pending, served, orig, called,
                     core, interrupted>>,
         frames' \in [Process -> Seq(Frame)], \A q \in Process \ {p} : frames'[q] = frames[q],
         frames'[p] # <<>>, DOMAIN frames'[p] = DOMAIN frames[p],
         \A i \in DOMAIN frames[p] : frames'[p][i].at # "kill" \/ frames'[p][i] = frames[p][i],
         ~sma'[p].initialized \/ \A i \in DOMAIN frames[p] : frames'[p][i] = frames[p][i],
         sma'[p].segs = "freed" \/ frames'[p][Len(frames'[p])].at = "unmapping"
  PROVE SigInv'
<1>a. SigTypeOK /\ ProcessInv(p)
  BY DEF SigInv
<1>b. /\ served[p] /\ config.coredump_unmap /\ core[p] = None
  BY <1>a, HandlerFacts
<1>c. /\ UNCHANGED <<config, at, named, abandoned>>
      /\ mapped' \in [Process -> SUBSET Int] /\ mapped'[p] \subseteq mapped[p]
      /\ sma' \in [Process -> [initialized : BOOLEAN, segs : {"none", "live", "freed"}]]
      /\ \A q \in Process \ {p} : mapped'[q] = mapped[q] /\ sma'[q] = sma[q]
      /\ sma'[p].initialized => sma[p].initialized
      /\ sma'[p].segs = sma[p].segs \/ sma'[p].segs = "freed"
  BY <1>a, DetachFacts
<1>1. SigTypeOK'
  BY <1>a, <1>c DEF SigTypeOK
<1>2. \A q \in Process \ {p} : Same(q)
  BY <1>c DEF Same
<1>3. ProcessInv(p)'
  <2>1. Quiet(p)' /\ Dumped(p)'
    BY <1>b DEF Quiet, Dumped
  <2>2. Attached(p)'
    BY <1>a, <1>c DEF ProcessInv, Attached, Started
  <2>3. Noticed(p)'
    BY DEF Noticed, Detaching
  <2>4. Installed(p)'
    <3>1. ASSUME NEW s \in Signal, disp[p][s] # "ours", sma'[p].initialized
          PROVE \E i \in DOMAIN frames'[p] : frames'[p][i] = [sig |-> s, at |-> "unmap"]
      BY <1>a, <1>b, <1>c, <3>1 DEF ProcessInv, Installed
    <3> QED
      BY <1>a, <1>b, <1>c, <3>1 DEF ProcessInv, Installed
  <2>5. Called(p)'
    BY <1>a DEF ProcessInv, Called
  <2> QED
    BY <2>1, <2>2, <2>3, <2>4, <2>5 DEF ProcessInv
<1>4. named \subseteq abandoned \/ p # Master
  BY DEF SigInv, NamesDropped
<1> QED
  BY <1>1, <1>2, <1>3, <1>4, <1>c, StepOf

\* The handler begins to detach, or meets what was detached or freed before.
LEMMA CoreUnmapInv ==
  ASSUME SigInv, NEW p \in Process, CoreUnmap(p) PROVE SigInv'
<1> DEFINE n == Len(frames[p])
<1>a. SigTypeOK /\ ProcessInv(p)
  BY DEF SigInv
<1>b. frames[p] # <<>> /\ Last(frames[p]).at = "unmap"
  BY DEF CoreUnmap, InHandler
<1>c. /\ served[p] /\ config.coredump_unmap /\ core[p] = None
      /\ state[p] \in Started
  BY <1>a, <1>b, HandlerFacts
<1>d. named \subseteq abandoned \/ p # Master
  BY <1>c DEF SigInv, NamesDropped, Started
<1>1. CASE /\ user_cache[p] = "live" /\ SmaDetach(p) /\ Proceed(p, "unmapping")
           /\ UNCHANGED <<state, user_cache, disp, oneshot, nodefer, prev, pending, served, orig,
                          called, core, interrupted>>
  <2>1. /\ n \in DOMAIN frames[p]
        /\ frames' \in [Process -> Seq(Frame)]
        /\ \A q \in Process \ {p} : frames'[q] = frames[q]
        /\ frames'[p] # <<>> /\ DOMAIN frames'[p] = DOMAIN frames[p]
        /\ \A i \in DOMAIN frames[p] \ {n} : frames'[p][i] = frames[p][i]
        /\ frames'[p][n] = [sig |-> frames[p][n].sig, at |-> "unmapping"]
        /\ Len(frames'[p]) = n
    BY <1>1, <1>a, <1>b, ProceedFacts
  <2> HIDE DEF n
  <2>2. state[p] \in {"running", "request"}
    BY <1>1, <1>a, <1>c DEF ProcessInv, Attached, Started
  <2>3. ~sma'[p].initialized /\ sma'[p].segs = sma[p].segs /\ sma[p].initialized
    BY <1>1, <1>a DEF SmaDetach, SigTypeOK
  <2>4. sma'[p].segs # "freed"
    BY <1>a, <1>c, <2>3 DEF ProcessInv, Attached
  <2>5. /\ frames'[p][Len(frames'[p])].at = "unmapping"
        /\ \A i \in DOMAIN frames[p] : frames'[p][i].at # "kill" \/ frames'[p][i] = frames[p][i]
    BY <2>1
  <2> QED
    BY <1>1, <1>b, <2>1, <2>2, <2>3, <2>4, <2>5, DetachInv
<1>2. CASE (user_cache[p] = "freed" \/ ~sma[p].initialized) /\ Undefined(p)
  <2>1. mapped[p] = {} \/ p \in interrupted
    <3>1. frames[p][Len(frames[p])].at = "unmap"
      BY <1>b DEF Last
    <3>2. ~Detaching(p) \/ p \in interrupted
      BY <1>a, <1>b, <3>1 DEF ProcessInv, Noticed
    <3> QED
      BY <1>2, <1>a, <1>c, <3>2 DEF ProcessInv, Attached, Detaching
  <2>2. /\ state' = [state EXCEPT ![p] = "undefined"]
        /\ frames' = [frames EXCEPT ![p] = <<>>] /\ pending' = [pending EXCEPT ![p] = {}]
        /\ prev' = [prev EXCEPT ![p] = {}]
        /\ disp' = [disp EXCEPT ![p] = [s \in Signal |-> "default"]]
        /\ oneshot' = [oneshot EXCEPT ![p] = {}] /\ nodefer' = [nodefer EXCEPT ![p] = {}]
        /\ orig' = [orig EXCEPT ![p] = {}] /\ called' = [called EXCEPT ![p] = {}]
        /\ UNCHANGED <<config, at, named, mapped, sma, user_cache, abandoned, served, core, interrupted>>
    BY <1>2 DEF Undefined, Become, Forget, memory
  <2>3. <<>> \in Seq(Frame) /\ DOMAIN <<>> = {}
    OBVIOUS
  <2>4. SigTypeOK'
    <3>1. frames' \in [Process -> Seq(Frame)] /\ state' \in [Process -> States]
      BY <1>a, <2>2, <2>3 DEF SigTypeOK, States
    <3> QED
      BY <1>a, <2>2, <3>1 DEF SigTypeOK
  <2>5. \A q \in Process \ {p} : Same(q)
    BY <1>a, <2>2 DEF SigTypeOK, Same
  <2>6. /\ state'[p] = "undefined" /\ frames'[p] = <<>> /\ pending'[p] = {} /\ prev'[p] = {}
        /\ \A s \in Signal : disp'[p][s] = "default"
    BY <1>a, <2>2 DEF SigTypeOK
  <2>7. ProcessInv(p)'
    <3>1. Quiet(p)' /\ Dumped(p)' /\ Attached(p)' /\ Called(p)' /\ Noticed(p)'
      BY <1>c, <2>1, <2>2, <2>3, <2>6 DEF Quiet, Dumped, Attached, Called, Noticed, Started
    <3>2. Installed(p)'
      BY <2>6 DEF Installed
    <3> QED
      BY <3>1, <3>2 DEF ProcessInv
  <2> QED
    BY <1>d, <2>2, <2>4, <2>5, <2>6, <2>7, StepOf
<1> QED
  BY <1>1, <1>2 DEF CoreUnmap

\* The handler unmaps the segments and frees their array.
LEMMA UnmappingInv ==
  ASSUME SigInv, NEW p \in Process, Unmapping(p) PROVE SigInv'
<1> DEFINE n == Len(frames[p])
<1>a. SigTypeOK /\ ProcessInv(p)
  BY DEF SigInv
<1>b. /\ frames[p] # <<>> /\ Last(frames[p]).at = "unmapping"
      /\ UNCHANGED <<state, user_cache, disp, oneshot, nodefer, prev, pending, served, orig, called,
                     core, interrupted>>
  BY DEF Unmapping, InHandler
<1>c. n \in DOMAIN frames[p] /\ frames[p][n].at = "unmapping"
  <2>1. frames[p] \in Seq(Frame)
    BY <1>a DEF SigTypeOK
  <2> QED
    BY <1>b, <2>1 DEF Last
<1>d. state[p] \in {"running", "request"}
  BY <1>a, <1>b, <1>c, HandlerFacts DEF ProcessInv, Attached, Started
<1>1. CASE UnmapSegment(p) /\ UNCHANGED frames
  <2>1. sma' = sma
    BY <1>1 DEF UnmapSegment
  <2>2. sma'[p].segs = "freed" => mapped'[p] = {} /\ ~sma'[p].initialized
    BY <1>1, <1>a, <1>d, <2>1, DetachFacts DEF ProcessInv, Attached, Started
  <2>3. frames' \in [Process -> Seq(Frame)]
    BY <1>1, <1>a DEF SigTypeOK
  <2> QED
    BY <1>1, <1>b, <1>c, <1>d, <2>2, <2>3, DetachInv
<1>2. CASE FreeSegs(p) /\ Proceed(p, "rehandle")
  <2>1. /\ n \in DOMAIN frames[p]
        /\ frames' \in [Process -> Seq(Frame)]
        /\ \A q \in Process \ {p} : frames'[q] = frames[q]
        /\ frames'[p] # <<>> /\ DOMAIN frames'[p] = DOMAIN frames[p]
        /\ \A i \in DOMAIN frames[p] \ {n} : frames'[p][i] = frames[p][i]
        /\ frames'[p][n] = [sig |-> frames[p][n].sig, at |-> "rehandle"]
    BY <1>2, <1>a, <1>b, ProceedFacts
  <2> HIDE DEF n
  <2>2. sma'[p].segs = "freed" /\ mapped'[p] = {} /\ sma'[p].initialized = sma[p].initialized
    BY <1>2, <1>a DEF FreeSegs, SigTypeOK
  <2>3. ~sma[p].initialized
    BY <1>a, <1>c, <1>d DEF ProcessInv, Attached
  <2>4. \A i \in DOMAIN frames[p] : frames'[p][i].at # "kill" \/ frames'[p][i] = frames[p][i]
    BY <2>1
  <2> QED
    BY <1>2, <1>b, <1>d, <2>1, <2>2, <2>3, <2>4, DetachInv
<1> QED
  BY <1>1, <1>2 DEF Unmapping

\* The handler calls the one that was there before.
LEMMA RehandleInv ==
  ASSUME SigInv, NEW p \in Process, Rehandle(p) PROVE SigInv'
<1> DEFINE n == Len(frames[p])
           s == Last(frames[p]).sig
<1>a. SigTypeOK /\ ProcessInv(p)
  BY DEF SigInv
<1>b. frames[p] # <<>> /\ Last(frames[p]).at = "rehandle" /\ UNCHANGED interrupted
  BY DEF Rehandle, InHandler
<1>c. /\ n \in DOMAIN frames[p] /\ Last(frames[p]) = frames[p][n] /\ frames[p][n] \in Frame
      /\ s \in Signal
  <2>1. frames[p] \in Seq(Frame)
    BY <1>a DEF SigTypeOK
  <2>2. n \in DOMAIN frames[p] /\ Last(frames[p]) = frames[p][n] /\ frames[p][n] \in Frame
    BY <1>b, <2>1 DEF Last
  <2> QED
    BY <2>2 DEF Frame
<1>d. /\ served[p] /\ config.coredump_unmap /\ core[p] = None
      /\ state[p] \in {"running", "request"}
  BY <1>a, <1>b, <1>c, HandlerFacts DEF ProcessInv, Attached, Started
<1>e. named \subseteq abandoned \/ p # Master
  BY <1>d DEF SigInv, NamesDropped
<1>f. orig[p] \subseteq prev[p]
  BY <1>a, <1>d DEF ProcessInv, Installed
<1>1. ASSUME Proceed(p, "kill"), UNCHANGED <<config, state, memory, disp, oneshot, nodefer, prev, pending, served, orig, core>>,
             called' \in [Process -> SUBSET Signal], \A q \in Process \ {p} : called'[q] = called[q],
             called[p] \subseteq called'[p], s \in prev[p] => s \in called'[p]
      PROVE SigInv'
  <2>1. UNCHANGED <<at, named, mapped, sma, user_cache, abandoned>>
    BY <1>1 DEF memory
  <2>2. /\ frames' \in [Process -> Seq(Frame)]
        /\ \A q \in Process \ {p} : frames'[q] = frames[q]
        /\ frames'[p] # <<>> /\ DOMAIN frames'[p] = DOMAIN frames[p]
        /\ \A i \in DOMAIN frames[p] \ {n} : frames'[p][i] = frames[p][i]
        /\ frames'[p][n] = [sig |-> frames[p][n].sig, at |-> "kill"]
        /\ Len(frames'[p]) = n
    BY <1>1, <1>a, <1>b, ProceedFacts
  <2>3. SigTypeOK'
    BY <1>1, <1>a, <1>b, <2>1, <2>2 DEF SigTypeOK
  <2>4. \A q \in Process \ {p} : Same(q)
    BY <1>1, <1>b, <2>1, <2>2 DEF Same
  <2>5. ProcessInv(p)'
    <3>1. Quiet(p)' /\ Dumped(p)'
      BY <1>1, <1>b, <1>d DEF Quiet, Dumped
    <3>5. Noticed(p)'
      <4>1. frames[p][n].at = "rehandle"
        BY <1>b, <1>c
      <4>2. ~Detaching(p) \/ p \in interrupted
        BY <1>a, <1>b, <4>1 DEF ProcessInv, Noticed
      <4> QED
        BY <1>b, <2>1, <4>2 DEF Noticed, Detaching
    <3>2. Attached(p)'
      <4>1. \A i \in DOMAIN frames'[p] : frames'[p][i].at = "unmapping" => ~sma[p].initialized
        BY <1>a, <2>2 DEF ProcessInv, Attached
      <4> QED
        BY <1>1, <1>a, <1>d, <2>1, <2>2, <4>1 DEF Attached, Started, ProcessInv
    <3>3. Installed(p)'
      <4>1. \A u \in Signal : \A i \in DOMAIN frames[p] :
              frames[p][i] = [sig |-> u, at |-> "unmap"] => i # n
        BY <1>b, <1>c
      <4> QED
        BY <1>1, <1>a, <1>b, <1>d, <2>1, <2>2, <4>1 DEF Installed, ProcessInv
    <3>4. Called(p)'
      <4>1. s = frames[p][n].sig
        BY <1>c
      <4>2. s \in orig[p] => s \in called'[p]
        BY <1>1, <1>f
      <4>3. ASSUME NEW i \in DOMAIN frames'[p], frames'[p][i].at = "kill", frames'[p][i].sig \in orig[p]
            PROVE frames'[p][i].sig \in called'[p]
        <5>1. CASE i = n
          BY <2>2, <4>1, <4>2, <4>3, <5>1
        <5>2. CASE i # n
          BY <1>1, <1>a, <2>2, <4>3, <5>2 DEF ProcessInv, Called
        <5> QED
          BY <5>1, <5>2
      <4> QED
        BY <1>1, <1>a, <1>b, <4>3 DEF ProcessInv, Called
    <3> QED
      BY <3>1, <3>2, <3>3, <3>4, <3>5 DEF ProcessInv
  <2> QED
    BY <1>1, <1>d, <1>e, <2>1, <2>3, <2>4, <2>5, StepOf
<1>2. CASE /\ Proceed(p, "kill") /\ called' = [called EXCEPT ![p] = @ \cup ({s} \cap Saved(p))]
           /\ UNCHANGED <<config, state, memory, disp, oneshot, nodefer, prev, pending, served, orig, core>>
  <2>1. /\ called' \in [Process -> SUBSET Signal] /\ \A q \in Process \ {p} : called'[q] = called[q]
        /\ called[p] \subseteq called'[p] /\ (s \in prev[p] => s \in called'[p])
    BY <1>2, <1>a, <1>c DEF SigTypeOK, Saved
  <2> QED
    BY <1>1, <1>2, <2>1
<1>3. CASE Exit(p)
  BY <1>3, <1>b, <1>d, ExitInv
<1> QED
  BY <1>2, <1>3 DEF Rehandle

\* The handler sends its signal again and returns.
LEMMA KillSelfInv ==
  ASSUME SigInv, NEW p \in Process, KillSelf(p) PROVE SigInv'
<1> DEFINE n == Len(frames[p])
           s == Last(frames[p]).sig
<1>a. SigTypeOK /\ ProcessInv(p)
  BY DEF SigInv
<1>b. /\ frames[p] # <<>> /\ Last(frames[p]).at = "kill"
      /\ pending' = [pending EXCEPT ![p] = pending[p] \cup {s}]
      /\ frames' = [frames EXCEPT ![p] = Front(frames[p])]
      /\ UNCHANGED <<config, state, memory, disp, oneshot, nodefer, prev, served, orig, called, core, interrupted>>
  BY DEF KillSelf, InHandler
<1>c. UNCHANGED <<at, named, mapped, sma, user_cache, abandoned>>
  BY <1>b DEF memory
<1>d. frames[p] \in Seq(Frame) /\ n \in Nat \ {0} /\ DOMAIN frames[p] = 1 .. n
  BY <1>a, <1>b DEF SigTypeOK
<1>e. n \in DOMAIN frames[p] /\ Last(frames[p]) = frames[p][n] /\ frames[p][n] \in Frame /\ s \in Signal
  <2>1. n \in DOMAIN frames[p] /\ Last(frames[p]) = frames[p][n] /\ frames[p][n] \in Frame
    BY <1>d DEF Last
  <2> QED
    BY <2>1 DEF Frame
<1>f. Front(frames[p]) = [i \in 1 .. (n - 1) |-> frames[p][i]]
  BY <1>d DEF Front
<1>g. Front(frames[p]) \in Seq(Frame)
  BY <1>d, <1>f
<1>h. served[p] /\ config.coredump_unmap /\ core[p] = None /\ state[p] \in {"running", "request"}
  BY <1>a, <1>b, <1>e, HandlerFacts DEF ProcessInv, Attached, Started
<1>1. /\ frames'[p] = Front(frames[p]) /\ pending'[p] = pending[p] \cup {s}
      /\ DOMAIN frames'[p] = 1 .. (n - 1)
      /\ \A i \in 1 .. (n - 1) : frames'[p][i] = frames[p][i]
  BY <1>a, <1>b, <1>f DEF SigTypeOK
<1>2. \A i \in DOMAIN frames[p] \ {n} : i \in DOMAIN frames'[p] /\ frames'[p][i] = frames[p][i]
  BY <1>1, <1>d
<1>3. \A i \in DOMAIN frames'[p] : i \in DOMAIN frames[p] /\ frames'[p][i] = frames[p][i]
  BY <1>1, <1>d
<1> HIDE DEF n
<1>4. SigTypeOK'
  <2>1. frames' \in [Process -> Seq(Frame)] /\ pending' \in [Process -> SUBSET Signal]
    BY <1>a, <1>b, <1>e, <1>g DEF SigTypeOK
  <2> QED
    BY <1>a, <1>b, <1>c, <2>1 DEF SigTypeOK
<1>5. \A q \in Process \ {p} : Same(q)
  BY <1>a, <1>b, <1>c DEF SigTypeOK, Same
<1>6. ProcessInv(p)'
  <2>1. Quiet(p)' /\ Dumped(p)'
    BY <1>b, <1>h DEF Quiet, Dumped
  <2>2. Attached(p)'
    BY <1>1, <1>3, <1>a, <1>b, <1>c, <1>h DEF ProcessInv, Attached, Started
  <2>5. Noticed(p)'
    <3>1. ~Detaching(p) \/ p \in interrupted
      BY <1>a, <1>b, <1>e DEF ProcessInv, Noticed, n
    <3> QED
      BY <1>b, <1>c, <3>1 DEF Noticed, Detaching
  <2>3. Installed(p)'
    <3>1. \A u \in Signal : \A i \in DOMAIN frames[p] :
            frames[p][i] = [sig |-> u, at |-> "unmap"] => i # n
      BY <1>b, <1>e
    <3> QED
      BY <1>2, <1>a, <1>b, <1>c, <1>h, <3>1 DEF ProcessInv, Installed
  <2>4. Called(p)'
    <3>1. s \in orig[p] => s \in called[p]
      BY <1>a, <1>b, <1>e DEF ProcessInv, Called
    <3> QED
      BY <1>1, <1>3, <1>a, <1>b, <3>1 DEF ProcessInv, Called
  <2> QED
    BY <2>1, <2>2, <2>3, <2>4, <2>5 DEF ProcessInv
<1>7. named \subseteq abandoned \/ p # Master
  BY <1>h DEF SigInv, NamesDropped
<1> QED
  BY <1>4, <1>5, <1>6, <1>7, <1>b, <1>c, <1>h, StepOf

\* A process that is undefined comes to its end.
LEMMA AbortInv ==
  ASSUME SigInv, NEW p \in Process, Abort(p) PROVE SigInv'
<1>1. (mapped[p] = {} \/ p \in interrupted) /\ DumpCore(p) /\ interrupted' = interrupted
  BY DEF Abort, SigInv, ProcessInv, Attached
<1> QED
  BY <1>1, DumpCoreInv

-----------------------------------------------------------------------------
(* The theorems.                                                             *)

\* The invariant holds at the start.
LEMMA SigInit == Init => SigInv
<1> SUFFICES ASSUME Init PROVE SigInv
  OBVIOUS
<1>a. Master \in Process
  BY SegmentsAssumption
<1>b. <<>> \in Seq(Frame) /\ DOMAIN <<>> = {}
  OBVIOUS
<1>1. SigTypeOK
  <2>1. /\ config \in Config /\ state \in [Process -> States] /\ at \in [seg : Int, call : Calls]
        /\ mapped \in [Process -> SUBSET Int]
        /\ sma \in [Process -> [initialized : BOOLEAN, segs : {"none", "live", "freed"}]]
        /\ user_cache \in [Process -> {"null", "live", "freed"}]
    <3>1. config \in Config
      BY DEF Init, SegmentsInit, Config
    <3>2. state \in [Process -> States] /\ at \in [seg : Int, call : Calls]
      <4>1. at = [seg |-> 0, call |-> "start"]
        BY DEF Init, SegmentsInit
      <4>2. at \in [seg : Int, call : Calls]
        BY <4>1 DEF Calls
      <4>3. state = [p \in Process |-> IF p = Master THEN "minit" ELSE "unborn"]
        BY DEF Init, SegmentsInit
      <4> QED
        BY <4>2, <4>3 DEF States
    <3>3. NoSma \in [initialized : BOOLEAN, segs : {"none", "live", "freed"}]
      BY DEF NoSma
    <3>4. /\ mapped \in [Process -> SUBSET Int] /\ user_cache \in [Process -> {"null", "live", "freed"}]
          /\ sma \in [Process -> [initialized : BOOLEAN, segs : {"none", "live", "freed"}]]
      BY <3>3 DEF Init, SegmentsInit
    <3> QED
      BY <3>1, <3>2, <3>4
  <2>2. frames \in [Process -> Seq(Frame)]
    BY <1>b DEF Init
  <2> QED
    BY <2>1, <2>2 DEF SigTypeOK, Init
<1>2. Obtaining
  <2>1. Num \in Nat \ {0} /\ 0 .. (0 - 1) = {}
    BY <1>1, NumFacts
  <2>2. at.seg = 0 /\ at.call = "start" /\ mapped[Master] = {} /\ named = {}
    BY <1>a DEF Init, SegmentsInit
  <2> QED
    BY <2>1, <2>2 DEF Obtaining, BeforeMap, WithName
<1>3. NamesDropped
  BY DEF Init, SegmentsInit, NamesDropped
<1>4. ASSUME NEW p \in Process PROVE ProcessInv(p)
  <2>1. Quiet(p) /\ Dumped(p) /\ Called(p) /\ Noticed(p)
    BY <1>b DEF Init, SegmentsInit, Quiet, Dumped, Called, Noticed
  <2>2. Attached(p) /\ Installed(p)
    BY <1>b DEF Init, SegmentsInit, Attached, Installed, Started
  <2> QED
    BY <2>1, <2>2 DEF ProcessInv
<1> QED
  BY <1>1, <1>2, <1>3, <1>4 DEF SigInv

\* Every step keeps it.
LEMMA SigStep == SigInv /\ [Next]_vars => SigInv'
<1> SUFFICES ASSUME SigInv, [Next]_vars PROVE SigInv'
  OBVIOUS
<1>1. CASE UNCHANGED vars
  <2>1. /\ UNCHANGED <<config, state, at, named, mapped, sma, user_cache, abandoned>>
        /\ UNCHANGED <<disp, oneshot, nodefer, prev, frames, pending, served, orig, called, core, interrupted>>
    BY <1>1 DEF vars, memory, signals
  <2>2. \A q \in Process : Same(q)
    BY <2>1 DEF Same
  <2>3. \A q \in Process : ProcessInv(q)'
    BY <2>1, <2>2, ProcessFrame DEF SigInv
  <2>4. SigTypeOK' /\ Obtaining' /\ NamesDropped'
    BY <2>1 DEF SigInv, SigTypeOK, Obtaining, NamesDropped, Num
  <2> QED
    BY <2>3, <2>4 DEF SigInv
<1>2. CASE Startup
  BY <1>2, MinitInv
<1>3. ASSUME NEW p \in Process,
             \/ Fork(p) \/ Rinit(p) \/ EndRequest(p)
             \/ Mshutdown(p) \/ MshutdownDetach(p) \/ ShutdownSignals(p) \/ Leave(p) \/ Kill(p)
      PROVE SigInv'
  BY <1>3, ForkInv, RinitInv, EndRequestInv, MshutdownInv, MshutdownDetachInv, ShutdownSignalsInv, LeaveInv
<1>4. ASSUME NEW p \in Process, NEW s \in Signal, Arrive(p, s) \/ Deliver(p, s) PROVE SigInv'
  BY <1>4, TakeInv DEF Arrive, Deliver
<1>5. ASSUME NEW p \in Process, NEW s \in Signal, NEW d \in {"ignore", "prior"},
             NEW flags \in SUBSET Flags, Sigaction(p, s, d, flags)
      PROVE SigInv'
  BY <1>5, SigactionInv
<1>6. ASSUME NEW p \in Process, CoreUnmap(p) \/ Unmapping(p) \/ Rehandle(p) \/ KillSelf(p) \/ Abort(p)
      PROVE SigInv'
  BY <1>6, CoreUnmapInv, UnmappingInv, RehandleInv, KillSelfInv, AbortInv
<1> QED
  BY <1>1, <1>2, <1>3, <1>4, <1>5, <1>6 DEF Next, Handle

\* In every reachable state the processes and their memory are as SigInv says
\* (immutable_cache_sma_init, immutable_cache_core_unmap).
THEOREM SignalsInvariance == Spec => []SigInv
  BY SigInit, SigStep, PTL DEF Spec

\* A process that runs code of its own between MINIT and MSHUTDOWN has all the
\* memory that MINIT obtained and the cache in it, for any number of processes
\* and signals (immutable_cache_sma_detach, immutable_cache_core_unmap).
THEOREM AlwaysServesMapped == Spec => []ServesMapped
<1>1. SigInv => ServesMapped
  BY DEF SigInv, ProcessInv, Attached, ServesMapped, Running
<1> QED
  BY <1>1, SignalsInvariance, PTL

\* After MINIT no segment has a name, except what a process killed between two
\* system calls or a failed shmat left (immutable_cache_mmap,
\* immutable_cache_shm_attach).
THEOREM NamesAreDropped == Spec => []NamesDropped
<1>1. SigInv => NamesDropped
  BY DEF SigInv
<1> QED
  BY <1>1, SignalsInvariance, PTL

\* With coredump_unmap no process that has served puts shared memory into a core,
\* however its handlers nest, unless a signal came while it was letting go of
\* the memory or found a handler that was reset, entered and had not begun to
\* (immutable_cache_set_signals, immutable_cache_core_unmap).
THEOREM CoresHoldNoSegments == Spec => []CoreWithoutSegments
<1>1. SigInv => CoreWithoutSegments
  BY DEF SigInv, ProcessInv, Dumped, CoreWithoutSegments
<1> QED
  BY <1>1, SignalsInvariance, PTL

\* An earlier handler is called before the signal is sent again
\* (immutable_cache_register_signal, immutable_cache_rehandle_signal).
THEOREM EarlierHandlersCalled == Spec => []EarlierHandlerCalled
<1>1. SigInv => EarlierHandlerCalled
  BY DEF SigInv, ProcessInv, Called, EarlierHandlerCalled
<1> QED
  BY <1>1, SignalsInvariance, PTL
=============================================================================
