------------------------------ MODULE Segments ------------------------------
(* The segments of shared memory: how MINIT of the first process obtains them *)
(* from the system, and how processes that were forked from it let go of      *)
(* them.  A segment exists as long as it has a name in the system (a file, a  *)
(* System V identifier) or a process maps it; what a process does to its own  *)
(* mapping leaves those of the others alone.                                  *)
(*                                                                            *)
(* The actions are those of the memory; module Signals composes them with the *)
(* rest of a process.                                                         *)
EXTENDS Integers, FiniteSets

CONSTANTS
  Process,
  Master,          \* the process that runs MINIT; the others are its children
  Builds,          \* "mmap", "shm": kinds of memory the extension is built for
  IniSegments,     \* values of immutable_cache.shm_segments
  IniMasks,        \* values of immutable_cache.mmap_file_mask: "", "/dev/zero",
                   \* "template" (a path that ends in XXXXXX)
  None

ASSUME SegmentsAssumption ==
  /\ Master \in Process
  /\ Builds \subseteq {"mmap", "shm"}
  /\ IniSegments \subseteq Int
  /\ IniMasks \subseteq {"", "/dev/zero", "template"}
  /\ None \notin Process

VARIABLES
  config,          \* the build and the settings, which never change
  state,           \* state[p]: where p is in its life
  at,              \* MINIT: the segment and the system call it has come to
  template,        \* the mask still ends in XXXXXX, as mkstemp wants it
  named,           \* segments that have a name in the system
  mapped,          \* mapped[p]: segments in p's address space
  sma,             \* sma[p]: immutable_cache_sma
  user_cache,      \* user_cache[p]: what the pointer points to
  abandoned        \* history: segments whose name MINIT could not take back

memory == <<at, template, named, mapped, sma, user_cache, abandoned>>

-----------------------------------------------------------------------------
(* Settings.                                                                 *)

\* OnUpdateShmSegments: what it stores in a build b.  One with mmap has one
\* segment, whatever is configured.
ShmSegments(b) == IF b = "mmap" THEN {1} ELSE IniSegments

\* sma_init: settings that make no sense become DEFAULT_NUMSEG.
Num == IF config.segments > 0 THEN config.segments ELSE 1

\* One segment more than sma->num: its locks are the ones that are used.
Segment == 0 .. Num

NoSma == [initialized |-> FALSE, segs |-> "none"]

SegmentsInit ==
  /\ config \in [build : Builds, segments : IniSegments \cup {1}, mask : IniMasks,
                 coredump_unmap : BOOLEAN]
  /\ config.segments \in ShmSegments(config.build)
  /\ config.build = "shm" => config.mask = ""
  /\ state = [p \in Process |-> IF p = Master THEN "minit" ELSE "unborn"]
  /\ at = [seg |-> 0, call |-> "start"]
  /\ template = (config.mask = "template")
  /\ named = {} /\ abandoned = {}
  /\ mapped = [p \in Process |-> {}]
  /\ sma = [p \in Process |-> NoSma]
  /\ user_cache = [p \in Process |-> "null"]

-----------------------------------------------------------------------------
(* The end of a process: the kernel drops its mappings.                      *)

Gone(p) ==
  /\ state' = [state EXCEPT ![p] = "exited"]
  /\ mapped' = [mapped EXCEPT ![p] = {}]
  /\ sma' = [sma EXCEPT ![p] = NoSma]
  /\ user_cache' = [user_cache EXCEPT ![p] = "null"]
  /\ at' = IF p = Master THEN [seg |-> 0, call |-> "start"] ELSE at
  /\ UNCHANGED <<config, template>>

\* zend_error_noreturn(E_CORE_ERROR, ...) during startup ends the process.
CoreError == Gone(Master) /\ UNCHANGED named

\* A name whose owner is killed before it could remove it stays.
Killed(p) ==
  /\ Gone(p)
  /\ abandoned' = IF p = Master THEN named ELSE abandoned
  /\ UNCHANGED named

-----------------------------------------------------------------------------
(* immutable_cache_sma_init.                                                 *)

At(c) == state[Master] = "minit" /\ at.call = c
Go(c) == at' = [at EXCEPT !.call = c]
Stay  == UNCHANGED <<config, state, user_cache>>

\* An empty mask means anonymous memory.
FirstCall ==
  IF config.build = "shm" THEN "shmget"
  ELSE IF config.mask = "" THEN "mmap" ELSE "mkstemp"

SmaInit ==
  /\ At("start")
  /\ ~sma[Master].initialized
  /\ sma' = [sma EXCEPT ![Master] = [initialized |-> TRUE, segs |-> "live"]]
  /\ Go(FirstCall)
  /\ Stay /\ UNCHANGED <<template, named, mapped, abandoned>>

\* mkstemp creates a file and writes its name over the XXXXXX of the mask.
Mkstemp ==
  /\ At("mkstemp")
  /\ \/ /\ template
        /\ named' = named \cup {at.seg}
        /\ template' = FALSE
        /\ Go("ftruncate")
        /\ Stay /\ UNCHANGED <<sma, mapped, abandoned>>
     \/ CoreError /\ UNCHANGED abandoned

\* Whether ftruncate succeeds or not, the file loses its name.
Ftruncate ==
  /\ At("ftruncate")
  /\ named' = named \ {at.seg}
  /\ \/ Go("mmap") /\ Stay /\ UNCHANGED <<template, sma, mapped>>
     \/ Gone(Master)
  /\ UNCHANGED abandoned

Mmap ==
  /\ At("mmap")
  /\ \/ /\ mapped' = [mapped EXCEPT ![Master] = @ \cup {at.seg}]
        /\ Go("layout")
        /\ Stay /\ UNCHANGED <<template, named, sma>>
     \/ CoreError
  /\ UNCHANGED abandoned

\* A private key: nobody else can attach, and nobody can be asked to remove it.
ShmCreate ==
  /\ At("shmget")
  /\ \/ /\ named' = named \cup {at.seg}
        /\ Go("shmat")
        /\ Stay /\ UNCHANGED <<template, sma, mapped>>
     \/ CoreError
  /\ UNCHANGED abandoned

\* If shmat fails, the identifier is not removed.
ShmAttach ==
  /\ At("shmat")
  /\ \/ /\ mapped' = [mapped EXCEPT ![Master] = @ \cup {at.seg}]
        /\ Go("rmid")
        /\ Stay /\ UNCHANGED <<template, sma, abandoned>>
     \/ Gone(Master) /\ abandoned' = named
  /\ UNCHANGED named

\* Variant: the identifier is kept.
ShmKeep ==
  /\ At("rmid")
  /\ Go("layout")
  /\ Stay /\ UNCHANGED <<template, named, sma, mapped, abandoned>>

\* shm_attach ends with shm_destroy: the memory lives on while it is mapped.
ShmDestroy ==
  /\ At("rmid")
  /\ named' = named \ {at.seg}
  /\ Go("layout")
  /\ Stay /\ UNCHANGED <<template, sma, mapped, abandoned>>

\* The header, its locks and the first free block are written.  The mask is
\* made a template again unless there is one segment.
LayOut ==
  /\ At("layout")
  /\ template' = (template \/ (config.mask = "template" /\ Num # 1))
  /\ at' = IF at.seg < Num THEN [seg |-> at.seg + 1, call |-> FirstCall]
                           ELSE [at EXCEPT !.call = "create"]
  /\ Stay /\ UNCHANGED <<named, mapped, sma, abandoned>>

\* cache_create: the table may not fit.  MINIT is over.
CacheCreate ==
  /\ At("create")
  /\ \/ /\ user_cache' = [user_cache EXCEPT ![Master] = "live"]
        /\ state' = [state EXCEPT ![Master] = "running"]
        /\ at' = [seg |-> 0, call |-> "start"]
        /\ UNCHANGED <<config, template, named, mapped, sma>>
     \/ CoreError
  /\ UNCHANGED abandoned

Minit ==
  \/ SmaInit \/ Mkstemp \/ Ftruncate \/ Mmap
  \/ ShmCreate \/ ShmAttach \/ ShmDestroy \/ LayOut \/ CacheCreate

-----------------------------------------------------------------------------
(* Children and detaching.                                                   *)

\* fork: the child has the parent's mappings and a copy of its data.
ForkMemory(c) ==
  /\ mapped' = [mapped EXCEPT ![c] = mapped[Master]]
  /\ sma' = [sma EXCEPT ![c] = sma[Master]]
  /\ user_cache' = [user_cache EXCEPT ![c] = user_cache[Master]]
  /\ UNCHANGED <<config, at, template, named, abandoned>>

\* immutable_cache_sma_detach, in the steps between which a signal may come.
\* It asserts that the sma is initialized and clears that first ...
SmaDetach(p) ==
  /\ sma[p].initialized
  /\ sma' = [sma EXCEPT ![p].initialized = FALSE]
  /\ UNCHANGED <<config, at, template, named, mapped, abandoned>>

\* ... unmaps the segments from this process, one by one ...
UnmapSegment(p) ==
  /\ \E i \in mapped[p] :
       /\ \A j \in mapped[p] : i <= j
       /\ mapped' = [mapped EXCEPT ![p] = @ \ {i}]
  /\ UNCHANGED <<config, at, template, named, sma, abandoned>>

\* ... and frees the array that described them.
FreeSegs(p) ==
  /\ mapped[p] = {}
  /\ sma' = [sma EXCEPT ![p].segs = "freed"]
  /\ UNCHANGED <<config, at, template, named, mapped, abandoned>>

\* MSHUTDOWN or a handler has begun to let go of p's memory and has not ended:
\* the cache is freed or the sma no longer initialized.
Detaching(p) ==
  sma[p].segs = "live" /\ (user_cache[p] = "freed" \/ ~sma[p].initialized)
=============================================================================
