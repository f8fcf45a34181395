------------------------------ MODULE LocksProofs ------------------------------
(* Proofs about Locks, for any number of threads, calls and faults and in     *)
(* every build: the locks implement RWLock, and a thread outside a call holds *)
(* nothing.  File locks belong to processes, so the theorems exclude the one  *)
(* combination (file locks and threads) in which threads cannot exclude each  *)
(* other by them.                                                             *)
EXTENDS Locks, TLAPS

\* A build with file locks has one thread per process.
OwnLocks == Zts => "fcntl" \notin Kinds

-----------------------------------------------------------------------------
(* The inductive invariant.                                                  *)

Wants == [lock : Lock, mode : {"r", "w"}]
Gots  == [lock : Lock, mode : {"r", "w", "none"}]
Ats   == {"idle", "next", "lock", "release", "unblock", "dead"}

\* Types of the variables, where locks have threads for owners.
LTypeOK ==
  /\ kind \in Kinds
  /\ held \in [Lock -> SUBSET [by : Thread, mode : {"r", "w"}]]
  /\ depth \in [Lock -> Int]
  /\ op \in [Thread -> AllOps \cup {None}]
  /\ todo \in [Thread -> Seq(Wants)]
  /\ got \in [Thread -> Seq(Gots)]
  /\ at \in [Thread -> Ats]
  /\ blocked \in [Thread -> Int]
  /\ left \subseteq Thread
  /\ faults \in 0 .. MaxFaults

\* A call takes each lock once; a thread that is out of its call takes itself to
\* hold nothing; sma_info takes one lock, for writing.
Apart ==
  \A t \in Thread :
    /\ \A i, j \in DOMAIN got[t] : got[t][i].lock = got[t][j].lock => i = j
    /\ \A i, j \in DOMAIN todo[t] : todo[t][i].lock = todo[t][j].lock => i = j
    /\ \A i \in DOMAIN got[t], j \in DOMAIN todo[t] : got[t][i].lock # todo[t][j].lock
    /\ at[t] \in {"idle", "dead"} => got[t] = <<>>
    /\ at[t] = "lock" => todo[t] # <<>>
    /\ op[t] = "smainfo" /\ at[t] \in {"next", "lock"} /\ todo[t] # <<>> =>
         got[t] = <<>> /\ todo[t] = <<Write("sma")>>

\* The implementation has on record what a thread works under, unless the error
\* of a file lock was not looked at.
Recorded ==
  \A t \in Thread : \A i \in DOMAIN got[t] :
    IF got[t][i].mode = "none" THEN kind = "fcntl"
    ELSE [by |-> t, mode |-> got[t][i].mode] \in held[got[t][i].lock]

\* It has nothing else on record, except of a thread that was thrown out.
Justified ==
  \A l \in Lock : \A h \in held[l] : h.by \notin left =>
    \E i \in DOMAIN got[h.by] : got[h.by][i] = [lock |-> l, mode |-> h.mode]

\* Two owners of one lock are readers, of a mutex or a spin lock not even that.
Exclusive ==
  \A l \in Lock : \A g, h \in held[l] :
    g.by # h.by => g.mode = "r" /\ h.mode = "r" /\ kind \notin {"mutex", "spin"}

\* A mutex is locked once by a thread that was never thrown out.
Depths ==
  kind = "mutex" =>
    \A l \in Lock :
      /\ depth[l] >= 0
      /\ depth[l] = 0 <=> held[l] = {}
      /\ \A h \in held[l] : h.by \notin left => depth[l] = 1

\* Interruptions are blocked once per lock, and from before it is taken until
\* after it is released.
BlockedPerLock ==
  \A t \in Thread \ left :
    /\ at[t] # "dead"
    /\ at[t] \in {"idle", "next", "release"} => blocked[t] = Len(got[t])
    /\ at[t] \in {"lock", "unblock"} => blocked[t] = Len(got[t]) + 1

LocksInv ==
  /\ LTypeOK /\ Apart /\ Recorded /\ Justified /\ Exclusive /\ Depths /\ BlockedPerLock

-----------------------------------------------------------------------------
(* Sequences.                                                                *)

\* What Append does to the elements of a sequence.
LEMMA AppendFacts ==
  ASSUME NEW S, NEW s \in Seq(S), NEW x \in S
  PROVE /\ Append(s, x) \in Seq(S)
        /\ Len(Append(s, x)) = Len(s) + 1 /\ Len(s) \in Nat
        /\ DOMAIN Append(s, x) = 1 .. (Len(s) + 1) /\ DOMAIN s = 1 .. Len(s)
        /\ \A i \in 1 .. Len(s) : Append(s, x)[i] = s[i]
        /\ Append(s, x)[Len(s) + 1] = x
  OBVIOUS

\* What Front and Last take apart.
LEMMA FrontFacts ==
  ASSUME NEW S, NEW s \in Seq(S), s # <<>>
  PROVE /\ Front(s) \in Seq(S)
        /\ Len(Front(s)) = Len(s) - 1 /\ Len(s) \in Nat \ {0}
        /\ DOMAIN Front(s) = 1 .. (Len(s) - 1) /\ DOMAIN s = 1 .. Len(s)
        /\ \A i \in 1 .. (Len(s) - 1) : Front(s)[i] = s[i]
        /\ Last(s) = s[Len(s)] /\ Last(s) \in S
<1>1. Len(s) \in Nat \ {0} /\ DOMAIN s = 1 .. Len(s)
  OBVIOUS
<1>2. Last(s) = s[Len(s)] /\ Last(s) \in S
  BY <1>1 DEF Last
<1>3. 1 \in Nat /\ Len(s) - 1 \in Nat /\ \A i \in 1 .. (Len(s) - 1) : s[i] \in S
  BY <1>1
<1>4. Front(s) = [i \in 1 .. (Len(s) - 1) |-> s[i]]
  BY <1>1, <1>3 DEF Front
<1>5. Front(s) \in Seq(S)
  BY <1>3, <1>4
<1>6. Len(Front(s)) = Len(s) - 1
  BY <1>3, <1>4, <1>5
<1> QED
  BY <1>1, <1>2, <1>4, <1>5, <1>6

\* What Head and Tail take apart.
LEMMA TailFacts ==
  ASSUME NEW S, NEW s \in Seq(S), s # <<>>
  PROVE /\ Tail(s) \in Seq(S)
        /\ Len(Tail(s)) = Len(s) - 1 /\ Len(s) \in Nat \ {0}
        /\ DOMAIN Tail(s) = 1 .. (Len(s) - 1) /\ DOMAIN s = 1 .. Len(s)
        /\ \A i \in 1 .. (Len(s) - 1) : Tail(s)[i] = s[i + 1]
        /\ Head(s) = s[1] /\ Head(s) \in S
  OBVIOUS

\* The locks a call takes, each once.
LEMMA PlanFacts ==
  ASSUME NEW o \in AllOps
  PROVE /\ Plan(o) \in Seq(Wants)
        /\ \A i, j \in DOMAIN Plan(o) : Plan(o)[i].lock = Plan(o)[j].lock => i = j
        /\ o = "smainfo" => Plan(o) = <<Write("sma")>>
<1> USE DEF Plan, Read, Write, Wants, Lock
<1>1. CASE o = "store"
  BY <1>1
<1>2. CASE o = "malloc"
  BY <1>2
<1>3. CASE o = "read"
  BY <1>3
<1>4. CASE o = "info"
  BY <1>4
<1>5. CASE o = "smainfo"
  BY <1>5
<1> QED
  BY <1>1, <1>2, <1>3, <1>4, <1>5 DEF AllOps

\* With own locks, a hold is a thread's.
LEMMA OwnerFacts ==
  ASSUME OwnLocks, LTypeOK, NEW t \in Thread
  PROVE /\ Owner(t) = t
        /\ \A m : Hold(t, m) = [by |-> t, mode |-> m]
        /\ \A l \in Lock : Others(t, l) = {h \in held[l] : h.by # t}
  BY DEF OwnLocks, LTypeOK, Owner, Hold, Others

\* What a thread takes itself to hold.
LEMMA GotFacts ==
  ASSUME LTypeOK, NEW t \in Thread, NEW i \in DOMAIN got[t]
  PROVE got[t][i] \in Gots /\ got[t][i].lock \in Lock /\ got[t][i].mode \in {"r", "w", "none"}
<1>1. got[t] \in Seq(Gots)
  BY DEF LTypeOK
<1>2. got[t][i] \in Gots
  BY <1>1
<1> QED
  BY <1>2 DEF Gots

\* The lock that a thread is about to take.
LEMMA NextLock ==
  ASSUME LTypeOK, Apart, NEW t \in Thread, at[t] = "lock"
  PROVE /\ todo[t] # <<>> /\ 1 \in DOMAIN todo[t]
        /\ Head(todo[t]) = todo[t][1]
        /\ Head(todo[t]) \in Wants /\ Head(todo[t]) \in Gots
        /\ Head(todo[t]).lock \in Lock /\ Head(todo[t]).mode \in {"r", "w"}
        /\ Head(todo[t]) = [lock |-> Head(todo[t]).lock, mode |-> Head(todo[t]).mode]
<1>1. todo[t] \in Seq(Wants) /\ todo[t] # <<>>
  BY DEF LTypeOK, Apart
<1>2. Head(todo[t]) \in Wants /\ Head(todo[t]) = todo[t][1] /\ 1 \in DOMAIN todo[t]
  BY <1>1, TailFacts
<1> QED
  BY <1>1, <1>2 DEF Wants, Gots

-----------------------------------------------------------------------------
(* Every action keeps the invariant.                                         *)

Holds == Recorded /\ Justified /\ Exclusive /\ Depths

\* Steps that touch no lock.
LEMMA HoldsFrame ==
  ASSUME Holds, UNCHANGED <<kind, held, depth, got, left>> PROVE Holds'
  BY DEF Holds, Recorded, Justified, Exclusive, Depths

\* Entering a call.
LEMMA BeginInv ==
  ASSUME LocksInv, NEW t \in Thread, NEW o \in AllOps, Begin(t, o) PROVE LocksInv'
<1>1. LTypeOK'
  BY PlanFacts DEF LocksInv, LTypeOK, Begin, Goto, Ats
<1>2. Apart'
  <2>1. todo'[t] = Plan(o) /\ got'[t] = <<>> /\ at'[t] = "next" /\ op'[t] = o
    BY DEF LocksInv, LTypeOK, Apart, Begin, Goto
  <2>2. \A u \in Thread \ {t} : todo'[u] = todo[u] /\ got'[u] = got[u] /\ at'[u] = at[u] /\ op'[u] = op[u]
    BY DEF LocksInv, LTypeOK, Begin, Goto
  <2> QED
    BY <2>1, <2>2, PlanFacts DEF LocksInv, Apart
<1>3. Holds'
  BY HoldsFrame DEF LocksInv, Holds, Begin
<1>4. BlockedPerLock'
  BY DEF LocksInv, LTypeOK, BlockedPerLock, Begin, Goto
<1> QED
  BY <1>1, <1>2, <1>3, <1>4 DEF LocksInv, Holds

\* Blocking interruptions, working, unblocking and returning.
LEMMA QuietInv ==
  ASSUME LocksInv, NEW t \in Thread, Block(t) \/ Work(t) \/ Unblock(t) \/ Return(t)
  PROVE LocksInv'
<1> USE DEF Goto
<1>1. LTypeOK'
  <2>1. LTypeOK
    BY DEF LocksInv
  <2>2. CASE Block(t)
    BY <2>1, <2>2 DEF LTypeOK, Block, Ats
  <2>3. CASE Work(t)
    BY <2>1, <2>3 DEF LTypeOK, Work, Ats
  <2>4. CASE Unblock(t)
    BY <2>1, <2>4 DEF LTypeOK, Unblock, Ats
  <2>5. CASE Return(t)
    BY <2>1, <2>5 DEF LTypeOK, Return, Ats
  <2> QED
    BY <2>2, <2>3, <2>4, <2>5
<1>2. Apart'
  BY SMTT(20) DEF LocksInv, LTypeOK, Apart, Block, Work, Unblock, Return
<1>3. Holds'
  BY HoldsFrame DEF LocksInv, Holds, Block, Work, Unblock, Return
<1>4. BlockedPerLock'
  <2>1. LTypeOK /\ BlockedPerLock /\ Apart
    BY DEF LocksInv
  <2>2. CASE Block(t)
    BY <2>1, <2>2 DEF LTypeOK, BlockedPerLock, Block
  <2>3. CASE Work(t)
    BY <2>1, <2>3 DEF LTypeOK, BlockedPerLock, Work
  <2>4. CASE Unblock(t)
    BY <2>1, <2>4 DEF LTypeOK, BlockedPerLock, Unblock
  <2>5. CASE Return(t)
    BY <2>1, <2>5 DEF LTypeOK, BlockedPerLock, Return
  <2> QED
    BY <2>2, <2>3, <2>4, <2>5
<1> QED
  BY <1>1, <1>2, <1>3, <1>4 DEF LocksInv, Holds

\* A lock call returns, with hold x.
LEMMA TakenFacts ==
  ASSUME LTypeOK, Apart, BlockedPerLock, NEW t \in Thread, at[t] = "lock",
         NEW x \in Gots, x.lock = Head(todo[t]).lock, Taken(t, x)
  PROVE /\ \A u \in Thread \ {t} : got'[u] = got[u]
        /\ got' \in [Thread -> Seq(Gots)] /\ todo' \in [Thread -> Seq(Wants)]
        /\ at' \in [Thread -> Ats]
        /\ DOMAIN got[t] = 1 .. Len(got[t]) /\ Len(got[t]) \in Nat
        /\ DOMAIN got'[t] = 1 .. Len(got[t]) + 1
        /\ \A i \in 1 .. Len(got[t]) : got'[t][i] = got[t][i] /\ got[t][i].lock # x.lock
        /\ got'[t][Len(got[t]) + 1] = x
        /\ UNCHANGED <<kind, left>>
        /\ Apart' /\ BlockedPerLock'
<1>1. todo[t] \in Seq(Wants) /\ todo[t] # <<>> /\ got[t] \in Seq(Gots)
  BY DEF LTypeOK, Apart
<1>2. /\ got' = [got EXCEPT ![t] = Append(got[t], x)]
      /\ todo' = [todo EXCEPT ![t] = Tail(todo[t])]
      /\ at' = [at EXCEPT ![t] = "next"]
      /\ UNCHANGED <<kind, op, blocked, left>>
  BY DEF Taken, Goto
<1>3. /\ got'[t] = Append(got[t], x) /\ todo'[t] = Tail(todo[t]) /\ at'[t] = "next"
      /\ \A u \in Thread \ {t} : got'[u] = got[u] /\ todo'[u] = todo[u] /\ at'[u] = at[u]
  BY <1>2 DEF LTypeOK
<1>4. /\ Append(got[t], x) \in Seq(Gots)
      /\ Len(got'[t]) = Len(got[t]) + 1 /\ Len(got[t]) \in Nat
      /\ DOMAIN got'[t] = 1 .. (Len(got[t]) + 1) /\ DOMAIN got[t] = 1 .. Len(got[t])
      /\ \A i \in 1 .. Len(got[t]) : got'[t][i] = got[t][i]
      /\ got'[t][Len(got[t]) + 1] = x
  BY <1>1, <1>3, AppendFacts
<1>5. /\ Tail(todo[t]) \in Seq(Wants)
      /\ DOMAIN todo'[t] = 1 .. (Len(todo[t]) - 1) /\ DOMAIN todo[t] = 1 .. Len(todo[t])
      /\ Len(todo[t]) \in Nat \ {0} /\ Len(todo'[t]) = Len(todo[t]) - 1
      /\ \A i \in 1 .. (Len(todo[t]) - 1) : todo'[t][i] = todo[t][i + 1]
      /\ x.lock = todo[t][1].lock
  BY <1>1, <1>3, TailFacts
<1>6. \A i \in 1 .. Len(got[t]) : got[t][i].lock # x.lock
  BY <1>4, <1>5 DEF Apart
<1>7. Apart'
  <2>1. \A i, j \in DOMAIN got'[t] : got'[t][i].lock = got'[t][j].lock => i = j
    BY SMTT(20), <1>4, <1>6 DEF Apart
  <2>2. \A i, j \in DOMAIN todo'[t] : todo'[t][i].lock = todo'[t][j].lock => i = j
    <3> SUFFICES ASSUME NEW i \in DOMAIN todo'[t], NEW j \in DOMAIN todo'[t],
                        todo'[t][i].lock = todo'[t][j].lock
                 PROVE i = j
      OBVIOUS
    <3>a. i \in 1 .. (Len(todo[t]) - 1) /\ j \in 1 .. (Len(todo[t]) - 1)
      BY <1>5
    <3>b. /\ i + 1 \in DOMAIN todo[t] /\ j + 1 \in DOMAIN todo[t] /\ i \in Int /\ j \in Int
      BY <1>5, <3>a
    <3>c. todo'[t][i] = todo[t][i + 1] /\ todo'[t][j] = todo[t][j + 1]
      BY <1>5, <3>a
    <3>1. /\ i + 1 \in DOMAIN todo[t] /\ j + 1 \in DOMAIN todo[t] /\ i \in Int /\ j \in Int
          /\ todo[t][i + 1].lock = todo[t][j + 1].lock
      BY <3>b, <3>c
    <3>2. i + 1 = j + 1
      BY <3>1 DEF Apart
    <3> QED
      BY <3>1, <3>2
  <2>3. ASSUME NEW i \in DOMAIN got'[t], NEW j \in DOMAIN todo'[t]
        PROVE got'[t][i].lock # todo'[t][j].lock
    <3>1. j + 1 \in DOMAIN todo[t] /\ todo'[t][j] = todo[t][j + 1] /\ j + 1 # 1 /\ 1 \in DOMAIN todo[t]
      BY <1>5
    <3>2. todo[t][j + 1].lock # x.lock
      BY <1>5, <3>1 DEF Apart
    <3>3. CASE i = Len(got[t]) + 1
      BY <1>4, <3>1, <3>2, <3>3
    <3>4. CASE i # Len(got[t]) + 1
      BY <1>4, <3>1, <3>4 DEF Apart
    <3> QED
      BY <3>3, <3>4
  <2>4. op'[t] = "smainfo" => todo'[t] = <<>>
    <3>1. op[t] = "smainfo" => todo[t] = <<Write("sma")>>
      BY <1>1 DEF Apart
    <3>2. op[t] = "smainfo" => Len(todo[t]) = 1
      BY <3>1
    <3>3. op[t] = "smainfo" => Len(todo'[t]) = 0
      BY <1>5, <3>2
    <3>4. todo'[t] \in Seq(Wants)
      BY <1>3, <1>5
    <3> QED
      BY <1>2, <3>3, <3>4
  <2> QED
    BY <1>2, <1>3, <2>1, <2>2, <2>3, <2>4 DEF Apart
<1>8. BlockedPerLock'
  BY <1>2, <1>3, <1>4 DEF BlockedPerLock
<1>9. got' \in [Thread -> Seq(Gots)] /\ todo' \in [Thread -> Seq(Wants)] /\ at' \in [Thread -> Ats]
  BY <1>2, <1>3, <1>4, <1>5 DEF LTypeOK, Ats
<1> QED
  BY <1>2, <1>3, <1>4, <1>6, <1>7, <1>8, <1>9

\* Whom a lock that is given to t lets in beside it.
LEMMA FreeFacts ==
  ASSUME OwnLocks, LTypeOK, NEW t \in Thread, NEW x \in Wants, Free(t, x),
         NEW g \in held[x.lock], g.by # t
  PROVE g.mode = "r" /\ x.mode = "r" /\ kind \notin {"mutex", "spin"}
<1>1. kind \in AllKinds
  BY LocksAssumption DEF LTypeOK
<1>2. x.lock \in Lock /\ x.mode \in {"r", "w"}
  BY DEF Wants
<1>3. g \in Others(t, x.lock)
  BY <1>2, OwnerFacts
<1>4. CASE kind \in {"rwlock", "srw"}
  BY <1>2, <1>4 DEF Free, RwlockFree, SrwFree, ReadOnly
<1>5. CASE kind = "mutex"
  BY <1>3, <1>5 DEF Free, MutexFree
<1>6. CASE kind = "spin"
  BY <1>6 DEF Free, SpinFree
<1>7. CASE kind = "fcntl"
  BY <1>2, <1>3, <1>7 DEF Free, FcntlFree, ReadOnly
<1> QED
  BY <1>1, <1>4, <1>5, <1>6, <1>7 DEF AllKinds

\* A thread that was never thrown out has no hold of a lock it is to take.
LEMMA NotYetHeld ==
  ASSUME LocksInv, NEW t \in Thread \ left, at[t] = "lock",
         NEW h \in held[Head(todo[t]).lock]
  PROVE h.by # t
<1>2. Head(todo[t]) = todo[t][1] /\ 1 \in DOMAIN todo[t] /\ Head(todo[t]).lock \in Lock
  BY NextLock DEF LocksInv
<1> SUFFICES ASSUME h.by = t PROVE FALSE
  OBVIOUS
<1>3. PICK i \in DOMAIN got[t] : got[t][i] = [lock |-> Head(todo[t]).lock, mode |-> h.mode]
  BY <1>2 DEF LocksInv, Justified
<1> QED
  BY <1>2, <1>3 DEF LocksInv, Apart

\* A lock is given.
LEMMA GrantInv ==
  ASSUME OwnLocks, LocksInv, NEW t \in Thread, Grant(t) PROVE LocksInv'
<1> DEFINE x == Head(todo[t])
           l == x.lock
           h0 == [by |-> t, mode |-> x.mode]
<1>a. LTypeOK /\ Apart /\ Recorded /\ Justified /\ Exclusive /\ Depths /\ BlockedPerLock
  BY DEF LocksInv
<1>b. at[t] = "lock" /\ Free(t, x) /\ Acquire(t, x) /\ Taken(t, x)
  BY DEF Grant
<1>c. x \in Wants
  BY <1>a, <1>b, NextLock
<1>d. x \in Gots /\ l \in Lock /\ x.mode \in {"r", "w"} /\ x = [lock |-> l, mode |-> x.mode]
  BY <1>a, <1>b, NextLock
<1>e. \A g \in held[l] : g.by # t => g.mode = "r" /\ x.mode = "r" /\ kind \notin {"mutex", "spin"}
  BY <1>a, <1>b, <1>c, FreeFacts
<1>f. t \notin left => \A g \in held[l] : g.by # t
  BY <1>b, NotYetHeld
<1> HIDE DEF x
<1>1. /\ \A u \in Thread \ {t} : got'[u] = got[u]
      /\ got' \in [Thread -> Seq(Gots)] /\ todo' \in [Thread -> Seq(Wants)]
      /\ at' \in [Thread -> Ats]
      /\ DOMAIN got[t] = 1 .. Len(got[t]) /\ Len(got[t]) \in Nat
      /\ DOMAIN got'[t] = 1 .. Len(got[t]) + 1
      /\ \A i \in 1 .. Len(got[t]) : got'[t][i] = got[t][i] /\ got[t][i].lock # l
      /\ got'[t][Len(got[t]) + 1] = x
      /\ UNCHANGED <<kind, left>>
      /\ Apart' /\ BlockedPerLock'
  BY <1>a, <1>b, <1>d, TakenFacts DEF x
<1>2. /\ \A m \in Lock \ {l} : held'[m] = held[m] /\ depth'[m] = depth[m]
      /\ held'[l] = IF kind = "fcntl" THEN {h \in held[l] : h.by # t} \cup {h0} ELSE held[l] \cup {h0}
      /\ depth'[l] = IF kind = "mutex" THEN depth[l] + 1 ELSE depth[l]
  BY <1>a, <1>b, <1>d, OwnerFacts DEF Acquire, LTypeOK
<1>3. LTypeOK'
  <2>1. held' \in [Lock -> SUBSET [by : Thread, mode : {"r", "w"}]] /\ depth' \in [Lock -> Int]
    BY <1>a, <1>b, <1>d, OwnerFacts DEF Acquire, LTypeOK
  <2> QED
    BY <1>1, <1>a, <1>b, <2>1 DEF LTypeOK, Taken
<1>4. Recorded'
  <2>1. \A u \in Thread \ {t} : \A i \in DOMAIN got'[u] :
          IF got'[u][i].mode = "none" THEN kind' = "fcntl"
          ELSE [by |-> u, mode |-> got'[u][i].mode] \in held'[got'[u][i].lock]
    <3> SUFFICES ASSUME NEW u \in Thread \ {t}, NEW i \in DOMAIN got[u], got[u][i].mode # "none"
                 PROVE [by |-> u, mode |-> got[u][i].mode] \in held'[got[u][i].lock]
      BY ZenonT(40), <1>1, <1>a DEF Recorded
    <3>1. [by |-> u, mode |-> got[u][i].mode] \in held[got[u][i].lock]
      BY <1>a DEF Recorded
    <3>2. got[u][i].lock \in Lock
      BY <1>a, GotFacts
    <3> QED
      BY <1>2, <3>1, <3>2
  <2>2. \A i \in 1 .. Len(got[t]) : got[t][i].lock \in Lock \ {l}
    BY <1>1, <1>a, GotFacts
  <2>3. \A i \in DOMAIN got'[t] :
          IF got'[t][i].mode = "none" THEN kind' = "fcntl"
          ELSE [by |-> t, mode |-> got'[t][i].mode] \in held'[got'[t][i].lock]
    <3> SUFFICES ASSUME NEW i \in DOMAIN got'[t]
                 PROVE IF got'[t][i].mode = "none" THEN kind' = "fcntl"
                       ELSE [by |-> t, mode |-> got'[t][i].mode] \in held'[got'[t][i].lock]
      OBVIOUS
    <3>1. CASE i = Len(got[t]) + 1
      BY <1>1, <1>2, <1>d, <3>1
    <3>2. CASE i \in 1 .. Len(got[t])
      <4>1. got'[t][i] = got[t][i] /\ got[t][i].lock \in Lock \ {l} /\ i \in DOMAIN got[t] /\ kind' = kind
        BY <1>1, <2>2, <3>2
      <4>2. held'[got[t][i].lock] = held[got[t][i].lock]
        BY <1>2, <4>1
      <4> QED
        BY <1>a, <4>1, <4>2 DEF Recorded
    <3> QED
      BY <1>1, <3>1, <3>2
  <2> QED
    BY <2>1, <2>3 DEF Recorded
<1>5. Justified'
  <2> SUFFICES ASSUME NEW m \in Lock, NEW h \in held'[m], h.by \notin left
               PROVE \E i \in DOMAIN got'[h.by] : got'[h.by][i] = [lock |-> m, mode |-> h.mode]
    BY <1>1 DEF Justified
  <2>1. CASE m = l /\ h = h0
    <3>1. Len(got[t]) + 1 \in DOMAIN got'[t] /\ h.by = t
      BY <1>1, <2>1
    <3> QED
      BY <1>1, <1>d, <2>1, <3>1
  <2>2. CASE h \in held[m]
    <3>1. PICK i \in DOMAIN got[h.by] : got[h.by][i] = [lock |-> m, mode |-> h.mode]
      BY <1>a, <2>2 DEF Justified
    <3>2. h.by \in Thread
      BY <1>a, <2>2 DEF LTypeOK
    <3>3. CASE h.by # t
      BY <1>1, <3>1, <3>2, <3>3
    <3>4. CASE h.by = t
      <4>a. i \in 1 .. Len(got[t])
        BY <1>1, <3>1, <3>4
      <4>1. i \in DOMAIN got'[t] /\ got'[t][i] = got[t][i]
        BY <1>1, <4>a
      <4> QED
        BY <3>1, <3>4, <4>1
    <3> QED
      BY <3>3, <3>4
  <2> QED
    BY <1>2, <2>1, <2>2
<1>6. Exclusive'
  <2> SUFFICES ASSUME NEW m \in Lock, NEW g \in held'[m], NEW h \in held'[m], g.by # h.by
               PROVE g.mode = "r" /\ h.mode = "r" /\ kind \notin {"mutex", "spin"}
    BY <1>1 DEF Exclusive
  <2>1. CASE m # l
    BY <1>2, <1>a, <2>1 DEF Exclusive
  <2>2. CASE m = l
    <3>1. (g \in held[l] \/ g = h0) /\ (h \in held[l] \/ h = h0)
      BY <1>2, <2>2
    <3> QED
      BY <1>a, <1>d, <1>e, <3>1 DEF Exclusive
  <2> QED
    BY <2>1, <2>2
<1>7. Depths'
  <2> SUFFICES ASSUME kind = "mutex", NEW m \in Lock
               PROVE /\ depth'[m] >= 0
                     /\ depth'[m] = 0 <=> held'[m] = {}
                     /\ \A h \in held'[m] : h.by \notin left => depth'[m] = 1
    BY <1>1 DEF Depths
  <2>1. CASE m # l
    BY <1>2, <1>a, <2>1 DEF Depths
  <2>2. CASE m = l
    <3>1. depth[l] \in Int /\ depth[l] >= 0 /\ (depth[l] = 0 <=> held[l] = {})
      BY <1>a, <1>d DEF LTypeOK, Depths
    <3>2. \A g \in held[l] : g.by = t
      BY <1>e
    <3>3. t \notin left => held[l] = {}
      BY <1>f, <3>2
    <3>4. held'[l] = held[l] \cup {h0} /\ depth'[l] = depth[l] + 1
      BY <1>2
    <3>5. \A h \in held'[l] : h.by = t
      BY <3>2, <3>4
    <3>a. h0 \in held'[l]
      BY <3>4
    <3>b. depth'[l] > 0
      BY <3>1, <3>4
    <3>6. depth'[l] > 0 /\ held'[l] # {}
      BY <3>a, <3>b
    <3>7. t \notin left => depth'[l] = 1
      BY <3>1, <3>3, <3>4
    <3> QED
      BY <2>2, <3>1, <3>4, <3>5, <3>6, <3>7
  <2> QED
    BY <2>1, <2>2
<1> QED
  BY <1>1, <1>3, <1>4, <1>5, <1>6, <1>7 DEF LocksInv

\* A file lock call fails and the caller goes on.
LEMMA FcntlFailsInv ==
  ASSUME LocksInv, NEW t \in Thread, FcntlFails(t) PROVE LocksInv'
<1> DEFINE x == [Head(todo[t]) EXCEPT !.mode = "none"]
<1>a. LTypeOK /\ Apart /\ Recorded /\ Justified /\ Exclusive /\ Depths /\ BlockedPerLock
  BY DEF LocksInv
<1>b. at[t] = "lock" /\ kind = "fcntl" /\ Taken(t, x) /\ UNCHANGED <<held, depth>>
  BY DEF FcntlFails
<1>c. Head(todo[t]) \in Wants
  BY <1>a, <1>b, NextLock
<1>d. x \in Gots /\ x.lock = Head(todo[t]).lock /\ x.mode = "none"
  BY <1>c DEF Wants, Gots
<1> HIDE DEF x
<1>1. /\ \A u \in Thread \ {t} : got'[u] = got[u]
      /\ got' \in [Thread -> Seq(Gots)] /\ todo' \in [Thread -> Seq(Wants)]
      /\ at' \in [Thread -> Ats]
      /\ DOMAIN got[t] = 1 .. Len(got[t]) /\ Len(got[t]) \in Nat
      /\ DOMAIN got'[t] = 1 .. Len(got[t]) + 1
      /\ \A i \in 1 .. Len(got[t]) : got'[t][i] = got[t][i]
      /\ got'[t][Len(got[t]) + 1] = x
      /\ UNCHANGED <<kind, left>>
      /\ Apart' /\ BlockedPerLock'
  BY <1>a, <1>b, <1>d, TakenFacts
<1>2. LTypeOK'
  BY <1>1, <1>a, <1>b DEF LTypeOK, Taken
<1>3. Recorded'
  <2> SUFFICES ASSUME NEW u \in Thread, NEW i \in DOMAIN got'[u], got'[u][i].mode # "none"
               PROVE [by |-> u, mode |-> got'[u][i].mode] \in held[got'[u][i].lock]
    BY <1>1, <1>b DEF Recorded
  <2>1. CASE u # t
    BY <1>1, <1>a, <2>1 DEF Recorded
  <2>2. CASE u = t
    <3>1. i \in DOMAIN got[t] /\ got'[t][i] = got[t][i]
      BY <1>1, <1>d, <2>2
    <3> QED
      BY <1>a, <2>2, <3>1 DEF Recorded
  <2> QED
    BY <2>1, <2>2
<1>4. Justified'
  <2> SUFFICES ASSUME NEW m \in Lock, NEW h \in held[m], h.by \notin left
               PROVE \E i \in DOMAIN got'[h.by] : got'[h.by][i] = [lock |-> m, mode |-> h.mode]
    BY <1>1, <1>b DEF Justified
  <2>1. PICK i \in DOMAIN got[h.by] : got[h.by][i] = [lock |-> m, mode |-> h.mode]
    BY <1>a DEF Justified
  <2>2. h.by \in Thread
    BY <1>a DEF LTypeOK
  <2>3. i \in DOMAIN got'[h.by] /\ got'[h.by][i] = got[h.by][i]
    <3>1. CASE h.by # t
      BY <1>1, <2>1, <2>2, <3>1
    <3>2. CASE h.by = t
      <4>1. i \in 1 .. Len(got[t]) /\ i \in 1 .. Len(got[t]) + 1
        BY <1>1, <2>1, <3>2
      <4> QED
        BY <1>1, <3>2, <4>1
    <3> QED
      BY <3>1, <3>2
  <2> QED
    BY <2>1, <2>3
<1>5. Exclusive' /\ Depths'
  BY <1>1, <1>a, <1>b DEF Exclusive, Depths
<1> QED
  BY <1>1, <1>2, <1>3, <1>4, <1>5 DEF LocksInv

\* A lock call fails.  Only a thread that an earlier bailout left with the lock
\* is told EDEADLK.
LEMMA FailInv ==
  ASSUME OwnLocks, LocksInv, NEW t \in Thread, Fail(t) PROVE LocksInv'
<1>a. LTypeOK /\ Apart /\ Recorded /\ Justified /\ Exclusive /\ Depths /\ BlockedPerLock
  BY DEF LocksInv
<1>b. /\ at[t] = "lock" /\ Refused(t, Head(todo[t]))
      /\ blocked' = [blocked EXCEPT ![t] = blocked[t] - 1]
      /\ got' = IF op[t] = "smainfo" THEN [got EXCEPT ![t] = todo[t]] ELSE got
      /\ todo' = [todo EXCEPT ![t] = <<>>] /\ at' = [at EXCEPT ![t] = "release"]
      /\ UNCHANGED <<kind, held, depth, op, left, faults>>
  BY DEF Fail, Goto
<1>c. todo[t] # <<>> /\ Head(todo[t]).lock \in Lock
  BY <1>a, <1>b, NextLock
<1>1. CASE op[t] # "smainfo"
  <2>1. got' = got
    BY <1>1, <1>b
  <2>2. LTypeOK'
    BY <1>a, <1>b, <2>1 DEF LTypeOK, Ats
  <2>3. Apart'
    BY <1>a, <1>b, <2>1 DEF LTypeOK, Apart
  <2>4. Holds'
    BY <1>a, <1>b, <2>1, HoldsFrame DEF Holds
  <2>5. BlockedPerLock'
    BY <1>a, <1>b, <2>1 DEF LTypeOK, BlockedPerLock
  <2> QED
    BY <2>2, <2>3, <2>4, <2>5 DEF LocksInv, Holds
<1>2. CASE op[t] = "smainfo"
  <2>1. got[t] = <<>> /\ todo[t] = <<Write("sma")>> /\ Head(todo[t]) = Write("sma")
    BY <1>2, <1>a, <1>b, <1>c DEF Apart
  <2>2. kind = "rwlock" /\ [by |-> t, mode |-> "w"] \in held["sma"]
    BY <1>2, <1>a, <1>b, <2>1, OwnerFacts DEF Refused, Edeadlk, Write
  <2>3. t \in left
    BY <1>b, <2>1, <2>2, NotYetHeld DEF Write
  <2>4. got'[t] = <<Write("sma")>> /\ \A u \in Thread \ {t} : got'[u] = got[u]
    BY <1>2, <1>a, <1>b, <2>1 DEF LTypeOK
  <2>5. /\ got'[t] \in Seq(Gots) /\ DOMAIN got'[t] = {1}
        /\ got'[t][1] = [lock |-> "sma", mode |-> "w"]
    BY <2>4 DEF Write, Gots, Lock
  <2>6. LTypeOK'
    <3>1. got' \in [Thread -> Seq(Gots)]
      BY <1>2, <1>a, <1>b, <2>4, <2>5 DEF LTypeOK
    <3> QED
      BY <1>a, <1>b, <3>1 DEF LTypeOK, Ats
  <2>7. Apart'
    <3>1. todo'[t] = <<>> /\ at'[t] = "release" /\ \A u \in Thread \ {t} : todo'[u] = todo[u] /\ at'[u] = at[u]
      BY <1>a, <1>b DEF LTypeOK
    <3> QED
      BY <1>a, <1>b, <2>4, <2>5, <3>1 DEF Apart
  <2>8. Recorded'
    BY SMTT(20), <1>a, <1>b, <2>2, <2>4, <2>5 DEF Recorded
  <2>9. Justified'
    <3> SUFFICES ASSUME NEW m \in Lock, NEW h \in held[m], h.by \notin left
                 PROVE \E i \in DOMAIN got'[h.by] : got'[h.by][i] = [lock |-> m, mode |-> h.mode]
      BY ZenonT(40), <1>b DEF Justified
    <3>1. h.by \in Thread \ {t}
      BY <1>a, <2>3 DEF LTypeOK
    <3> QED
      BY <1>a, <2>4, <3>1 DEF Justified
  <2>10. Exclusive' /\ Depths'
    BY <1>a, <1>b DEF Exclusive, Depths
  <2>11. BlockedPerLock'
    BY <1>a, <1>b, <2>3, <2>4 DEF LTypeOK, BlockedPerLock
  <2> QED
    BY <2>6, <2>7, <2>8, <2>9, <2>10, <2>11 DEF LocksInv
<1> QED
  BY <1>1, <1>2

\* What a lock is left with when t unlocks the last one it took: only holds of
\* t are gone, and all of them unless an earlier bailout left some behind.
LEMMA UnlockFacts ==
  ASSUME OwnLocks, LocksInv, NEW t \in Thread, Unlock(t)
  PROVE LET x == Last(got[t]) IN
        /\ x.lock \in Lock
        /\ held' \in [Lock -> SUBSET [by : Thread, mode : {"r", "w"}]] /\ depth' \in [Lock -> Int]
        /\ \A m \in Lock \ {x.lock} : held'[m] = held[m] /\ depth'[m] = depth[m]
        /\ held'[x.lock] \subseteq held[x.lock]
        /\ \A h \in held[x.lock] \ held'[x.lock] : h.by = t
        /\ t \notin left => \A h \in held'[x.lock] : h.by # t
        /\ kind = "mutex" =>
             /\ depth'[x.lock] >= 0
             /\ depth'[x.lock] = 0 <=> held'[x.lock] = {}
             /\ \A h \in held'[x.lock] : h.by \notin left => depth'[x.lock] = 1
<1> DEFINE x == Last(got[t])
           l == x.lock
           h0 == [by |-> t, mode |-> x.mode]
<1>a. LTypeOK /\ Apart /\ Recorded /\ Justified /\ Exclusive /\ Depths
  BY DEF LocksInv
<1>b. got[t] \in Seq(Gots) /\ got[t] # <<>> /\ Release(t, x)
  BY <1>a DEF LTypeOK, Unlock
<1>c. Len(got[t]) \in DOMAIN got[t] /\ x = got[t][Len(got[t])] /\ x \in Gots
  BY <1>b, FrontFacts
<1>d. l \in Lock /\ x.mode \in {"r", "w", "none"} /\ x = [lock |-> l, mode |-> x.mode]
  BY <1>c DEF Gots
<1>e. kind # "fcntl" => h0 \in held[l]
  BY <1>a, <1>c DEF Recorded
<1>f. t \notin left => \A h \in held[l] : h.by = t => h = h0
  <2> SUFFICES ASSUME t \notin left, NEW h \in held[l], h.by = t PROVE h = h0
    OBVIOUS
  <2>1. PICK i \in DOMAIN got[t] : got[t][i] = [lock |-> l, mode |-> h.mode]
    BY <1>a, <1>d DEF Justified
  <2>2. i = Len(got[t])
    BY <1>a, <1>c, <1>d, <2>1 DEF Apart
  <2>3. h.mode = x.mode
    BY <1>c, <2>1, <2>2
  <2>4. h \in [by : Thread, mode : {"r", "w"}]
    BY <1>a, <1>d DEF LTypeOK
  <2> QED
    BY <2>3, <2>4
<1> HIDE DEF x
<1>1. /\ \A m \in Lock \ {l} : held'[m] = held[m] /\ depth'[m] = depth[m]
      /\ depth'[l] = IF kind = "mutex" THEN depth[l] - 1 ELSE depth[l]
      /\ held'[l] = CASE kind = "mutex" -> IF depth[l] > 1 THEN held[l] ELSE {}
                      [] kind = "spin"  -> {}
                      [] kind = "fcntl" -> {h \in held[l] : h.by # t}
                      [] OTHER          -> held[l] \ {h0}
  BY <1>a, <1>b, <1>d, OwnerFacts DEF Release, LTypeOK, MutexLeft, SpinLeft, FcntlLeft, RwlockLeft
<1>2. kind \in {"mutex", "spin"} => \A h \in held[l] : h.by = t
  BY <1>a, <1>d, <1>e DEF Exclusive
<1>3. held'[l] \subseteq held[l] /\ \A h \in held[l] \ held'[l] : h.by = t
  <2>1. CASE kind = "mutex"
    BY <1>1, <1>2, <2>1
  <2>2. CASE kind = "spin"
    BY <1>1, <1>2, <2>2
  <2>3. CASE kind = "fcntl"
    BY <1>1, <2>3
  <2>4. CASE kind \notin {"mutex", "spin", "fcntl"}
    BY <1>1, <2>4
  <2> QED
    BY <2>1, <2>2, <2>3, <2>4
<1>4. /\ held' \in [Lock -> SUBSET [by : Thread, mode : {"r", "w"}]] /\ depth' \in [Lock -> Int]
  <2>1. depth' \in [Lock -> Int]
    BY <1>a, <1>b, <1>d DEF Release, LTypeOK
  <2>2. \E S : held' = [held EXCEPT ![l] = S]
    BY <1>b DEF Release
  <2>3. held' = [held EXCEPT ![l] = held'[l]]
    BY <1>a, <1>d, <2>2 DEF LTypeOK
  <2> QED
    BY <1>3, <1>a, <1>d, <2>1, <2>3 DEF LTypeOK
<1>5. kind = "mutex" => depth[l] >= 1 /\ depth[l] \in Int /\ (t \notin left => depth[l] = 1)
  <2> SUFFICES ASSUME kind = "mutex" PROVE depth[l] >= 1 /\ depth[l] \in Int /\ (t \notin left => depth[l] = 1)
    OBVIOUS
  <2>1. h0 \in held[l] /\ held[l] # {}
    BY <1>e
  <2>2. depth[l] \in Int /\ depth[l] >= 0 /\ depth[l] # 0
    BY <1>a, <1>d, <2>1 DEF LTypeOK, Depths
  <2>3. t \notin left => depth[l] = 1
    BY <1>a, <1>d, <2>1 DEF Depths
  <2> QED
    BY <2>2, <2>3
<1>6. t \notin left => \A h \in held'[l] : h.by # t
  <2>1. CASE kind = "mutex"
    <3>1. t \notin left => ~(depth[l] > 1)
      BY <1>5, <2>1
    <3> QED
      BY <1>1, <2>1, <3>1
  <2>2. CASE kind = "spin"
    BY <1>1, <2>2
  <2>3. CASE kind = "fcntl"
    BY <1>1, <2>3
  <2>4. CASE kind \notin {"mutex", "spin", "fcntl"}
    BY <1>1, <1>f, <2>4
  <2> QED
    BY <2>1, <2>2, <2>3, <2>4
<1>7. ASSUME kind = "mutex"
      PROVE /\ depth'[l] >= 0
            /\ depth'[l] = 0 <=> held'[l] = {}
            /\ \A h \in held'[l] : h.by \notin left => depth'[l] = 1
  <2>1. depth'[l] = depth[l] - 1 /\ held'[l] = IF depth[l] > 1 THEN held[l] ELSE {}
    BY <1>1, <1>7
  <2>2. held[l] # {}
    BY <1>e, <1>7
  <2>3. depth'[l] >= 0 /\ (depth'[l] = 0 <=> ~(depth[l] > 1))
    BY <1>5, <1>7, <2>1
  <2>4. depth[l] > 1 => t \in left
    BY <1>5, <1>7
  <2> QED
    BY <1>2, <1>7, <2>1, <2>2, <2>3, <2>4
<1> QED
  BY <1>1, <1>3, <1>4, <1>6, <1>7, <1>d DEF x

\* The lock that was taken last is released first.
LEMMA UnlockInv ==
  ASSUME OwnLocks, LocksInv, NEW t \in Thread, Unlock(t) PROVE LocksInv'
<1> DEFINE x == Last(got[t])
           n == Len(got[t])
<1>a. LTypeOK /\ Apart /\ Recorded /\ Justified /\ Exclusive /\ Depths /\ BlockedPerLock
  BY DEF LocksInv
<1>b. /\ at[t] = "release" /\ got[t] # <<>> /\ got[t] \in Seq(Gots)
      /\ got' = [got EXCEPT ![t] = Front(got[t])] /\ at' = [at EXCEPT ![t] = "unblock"]
      /\ UNCHANGED <<kind, op, todo, blocked, left, faults>>
  BY <1>a DEF LTypeOK, Unlock, Goto
<1>c. /\ x.lock \in Lock
      /\ held' \in [Lock -> SUBSET [by : Thread, mode : {"r", "w"}]] /\ depth' \in [Lock -> Int]
      /\ \A m \in Lock \ {x.lock} : held'[m] = held[m] /\ depth'[m] = depth[m]
      /\ held'[x.lock] \subseteq held[x.lock]
      /\ \A h \in held[x.lock] \ held'[x.lock] : h.by = t
      /\ t \notin left => \A h \in held'[x.lock] : h.by # t
      /\ kind = "mutex" =>
           /\ depth'[x.lock] >= 0
           /\ depth'[x.lock] = 0 <=> held'[x.lock] = {}
           /\ \A h \in held'[x.lock] : h.by \notin left => depth'[x.lock] = 1
  BY UnlockFacts
<1>d. /\ got'[t] = Front(got[t]) /\ \A u \in Thread \ {t} : got'[u] = got[u]
      /\ at'[t] = "unblock" /\ \A u \in Thread \ {t} : at'[u] = at[u]
  BY <1>a, <1>b DEF LTypeOK
<1>e. /\ got'[t] \in Seq(Gots) /\ Len(got'[t]) = n - 1 /\ n \in Nat \ {0}
      /\ DOMAIN got'[t] = 1 .. n - 1 /\ DOMAIN got[t] = 1 .. n
      /\ \A i \in 1 .. n - 1 : got'[t][i] = got[t][i]
      /\ x = got[t][n]
  <2>1. /\ Front(got[t]) \in Seq(Gots)
        /\ Len(Front(got[t])) = n - 1 /\ n \in Nat \ {0}
        /\ DOMAIN Front(got[t]) = 1 .. (n - 1) /\ DOMAIN got[t] = 1 .. n
        /\ \A i \in 1 .. (n - 1) : Front(got[t])[i] = got[t][i]
        /\ x = got[t][n]
    BY <1>b, FrontFacts
  <2> QED
    BY <1>d, <2>1
<1> HIDE DEF x
<1>f. \A i \in 1 .. n - 1 : i \in DOMAIN got[t] /\ got[t][i].lock # x.lock /\ got[t][i].lock \in Lock
  <2> TAKE i \in 1 .. n - 1
  <2>1. i \in DOMAIN got[t] /\ n \in DOMAIN got[t] /\ i # n
    BY <1>e
  <2> QED
    BY <1>a, <1>e, <2>1, GotFacts DEF Apart
<1>1. LTypeOK'
  <2>1. got' \in [Thread -> Seq(Gots)]
    BY <1>a, <1>b, <1>d, <1>e DEF LTypeOK
  <2> QED
    BY <1>a, <1>b, <1>c, <2>1 DEF LTypeOK, Ats
<1>2. Apart'
  <2>1. ASSUME NEW i \in DOMAIN got'[t], NEW j \in DOMAIN got'[t], got'[t][i].lock = got'[t][j].lock
        PROVE i = j
    <3>1. /\ i \in DOMAIN got[t] /\ j \in DOMAIN got[t]
          /\ got'[t][i] = got[t][i] /\ got'[t][j] = got[t][j]
      BY <1>e, <1>f
    <3> QED
      BY <1>a, <2>1, <3>1 DEF Apart
  <2>2. \A i \in DOMAIN got'[t], j \in DOMAIN todo[t] : got'[t][i].lock # todo[t][j].lock
    <3>1. \A i \in DOMAIN got'[t] : i \in DOMAIN got[t] /\ got'[t][i] = got[t][i]
      BY <1>e, <1>f
    <3> QED
      BY <1>a, <3>1 DEF Apart
  <2> QED
    BY <1>a, <1>b, <1>d, <2>1, <2>2 DEF Apart
<1>3. Recorded'
  <2> SUFFICES ASSUME NEW u \in Thread, NEW i \in DOMAIN got'[u]
               PROVE IF got'[u][i].mode = "none" THEN kind = "fcntl"
                     ELSE [by |-> u, mode |-> got'[u][i].mode] \in held'[got'[u][i].lock]
    BY <1>b DEF Recorded
  <2>1. CASE u = t
    <3>1. got'[t][i] = got[t][i] /\ i \in DOMAIN got[t] /\ held'[got[t][i].lock] = held[got[t][i].lock]
      BY <1>c, <1>e, <1>f, <2>1
    <3> QED
      BY <1>a, <2>1, <3>1 DEF Recorded
  <2>2. CASE u # t
    <3>1. got'[u] = got[u] /\ got[u][i].lock \in Lock
      BY <1>a, <1>d, <2>2, GotFacts
    <3>2. IF got[u][i].mode = "none" THEN kind = "fcntl"
          ELSE [by |-> u, mode |-> got[u][i].mode] \in held[got[u][i].lock]
      BY <1>a, <3>1 DEF Recorded
    <3> QED
      BY <1>c, <2>2, <3>1, <3>2
  <2> QED
    BY <2>1, <2>2
<1>4. Justified'
  <2> SUFFICES ASSUME NEW m \in Lock, NEW h \in held'[m], h.by \notin left
               PROVE \E i \in DOMAIN got'[h.by] : got'[h.by][i] = [lock |-> m, mode |-> h.mode]
    BY <1>b DEF Justified
  <2>1. h \in held[m] /\ h.by \in Thread
    BY <1>c
  <2>2. PICK i \in DOMAIN got[h.by] : got[h.by][i] = [lock |-> m, mode |-> h.mode]
    BY <1>a, <2>1 DEF Justified
  <2>3. CASE h.by # t
    BY <1>d, <2>1, <2>2, <2>3
  <2>4. CASE h.by = t
    <3>1. m # x.lock
      BY <1>c, <2>4
    <3>2. i # n
      BY <1>e, <2>2, <2>4, <3>1
    <3>3. i \in DOMAIN got'[t] /\ got'[t][i] = got[t][i]
      BY <1>e, <2>2, <2>4, <3>2
    <3> QED
      BY <2>2, <2>4, <3>3
  <2> QED
    BY <2>3, <2>4
<1>5. Exclusive'
  <2> SUFFICES ASSUME NEW m \in Lock, NEW g \in held'[m], NEW h \in held'[m], g.by # h.by
               PROVE g.mode = "r" /\ h.mode = "r" /\ kind \notin {"mutex", "spin"}
    BY <1>b DEF Exclusive
  <2>1. g \in held[m] /\ h \in held[m]
    BY <1>c
  <2> QED
    BY <1>a, <2>1 DEF Exclusive
<1>6. Depths'
  <2> SUFFICES ASSUME kind = "mutex", NEW m \in Lock
               PROVE /\ depth'[m] >= 0
                     /\ depth'[m] = 0 <=> held'[m] = {}
                     /\ \A h \in held'[m] : h.by \notin left => depth'[m] = 1
    BY <1>b DEF Depths
  <2>1. CASE m # x.lock
    BY <1>a, <1>c, <2>1 DEF Depths
  <2>2. CASE m = x.lock
    BY <1>c, <2>2
  <2> QED
    BY <2>1, <2>2
<1>7. BlockedPerLock'
  BY <1>a, <1>b, <1>d, <1>e DEF BlockedPerLock
<1> QED
  BY <1>1, <1>2, <1>3, <1>4, <1>5, <1>6, <1>7 DEF LocksInv

\* Threads T get out of their calls, those of them that hold something into left.
LEMMA OutInv ==
  ASSUME LocksInv, NEW T \in SUBSET Thread, NEW a \in {"idle", "dead"}, Out(T),
         at' = [u \in Thread |-> IF u \in T THEN a ELSE at[u]],
         left' \in SUBSET Thread, left \subseteq left',
         \A u \in T \ left' : got[u] = <<>> /\ a = "idle",
         held' \in [Lock -> SUBSET [by : Thread, mode : {"r", "w"}]],
         \A l \in Lock : held'[l] \subseteq held[l] /\ \A h \in held[l] \ held'[l] : h.by \in T,
         kind = "mutex" => held' = held,
         depth' = depth
  PROVE LocksInv'
<1>a. LTypeOK /\ Apart /\ Recorded /\ Justified /\ Exclusive /\ Depths /\ BlockedPerLock
  BY DEF LocksInv
<1>b. /\ op' = [t \in Thread |-> IF t \in T THEN None ELSE op[t]]
      /\ todo' = [t \in Thread |-> IF t \in T THEN <<>> ELSE todo[t]]
      /\ got' = [t \in Thread |-> IF t \in T THEN <<>> ELSE got[t]]
      /\ blocked' = [t \in Thread |-> IF t \in T THEN 0 ELSE blocked[t]]
      /\ faults < MaxFaults /\ faults' = faults + 1
      /\ kind' = kind
  BY DEF Out
<1>c. <<>> \in Seq(Wants) /\ <<>> \in Seq(Gots) /\ Len(<<>>) = 0 /\ DOMAIN <<>> = {}
  OBVIOUS
<1>1. LTypeOK'
  <2>1. faults' \in 0 .. MaxFaults
    BY <1>a, <1>b, LocksAssumption DEF LTypeOK
  <2>2. todo' \in [Thread -> Seq(Wants)] /\ got' \in [Thread -> Seq(Gots)]
    BY <1>a, <1>b, <1>c DEF LTypeOK
  <2>3. op' \in [Thread -> AllOps \cup {None}] /\ at' \in [Thread -> Ats] /\ blocked' \in [Thread -> Int]
    BY <1>a, <1>b DEF LTypeOK, Ats
  <2> QED
    BY <1>a, <1>b, <2>1, <2>2, <2>3 DEF LTypeOK
<1>2. Apart'
  <2> SUFFICES ASSUME NEW t \in Thread
               PROVE /\ \A i, j \in DOMAIN got'[t] : got'[t][i].lock = got'[t][j].lock => i = j
                     /\ \A i, j \in DOMAIN todo'[t] : todo'[t][i].lock = todo'[t][j].lock => i = j
                     /\ \A i \in DOMAIN got'[t], j \in DOMAIN todo'[t] : got'[t][i].lock # todo'[t][j].lock
                     /\ at'[t] \in {"idle", "dead"} => got'[t] = <<>>
                     /\ at'[t] = "lock" => todo'[t] # <<>>
                     /\ op'[t] = "smainfo" /\ at'[t] \in {"next", "lock"} /\ todo'[t] # <<>> =>
                          got'[t] = <<>> /\ todo'[t] = <<Write("sma")>>
    BY DEF Apart
  <2>1. CASE t \in T
    BY <1>b, <1>c, <2>1
  <2>2. CASE t \notin T
    BY <1>a, <1>b, <2>2 DEF Apart
  <2> QED
    BY <2>1, <2>2
<1>3. Recorded'
  <2> SUFFICES ASSUME NEW u \in Thread, NEW i \in DOMAIN got'[u]
               PROVE IF got'[u][i].mode = "none" THEN kind = "fcntl"
                     ELSE [by |-> u, mode |-> got'[u][i].mode] \in held'[got'[u][i].lock]
    BY <1>b DEF Recorded
  <2>1. u \notin T /\ got'[u] = got[u]
    BY <1>b, <1>c
  <2>2. got[u][i].lock \in Lock
    BY <1>a, <2>1, GotFacts
  <2>3. IF got[u][i].mode = "none" THEN kind = "fcntl"
        ELSE [by |-> u, mode |-> got[u][i].mode] \in held[got[u][i].lock]
    BY <1>a, <2>1 DEF Recorded
  <2> QED
    BY <2>1, <2>2, <2>3
<1>4. Justified'
  <2> SUFFICES ASSUME NEW m \in Lock, NEW h \in held'[m], h.by \notin left'
               PROVE \E i \in DOMAIN got'[h.by] : got'[h.by][i] = [lock |-> m, mode |-> h.mode]
    BY DEF Justified
  <2>1. h \in held[m] /\ h.by \in Thread /\ h.by \notin left
    OBVIOUS
  <2>2. PICK i \in DOMAIN got[h.by] : got[h.by][i] = [lock |-> m, mode |-> h.mode]
    BY <1>a, <2>1 DEF Justified
  <2>3. h.by \notin T
    BY <1>c, <2>1, <2>2
  <2> QED
    BY <1>b, <2>1, <2>2, <2>3
<1>5. Exclusive'
  BY <1>a, <1>b DEF Exclusive
<1>6. Depths'
  BY <1>a, <1>b DEF Depths
<1>7. BlockedPerLock'
  <2> SUFFICES ASSUME NEW t \in Thread \ left'
               PROVE /\ at'[t] # "dead"
                     /\ at'[t] \in {"idle", "next", "release"} => blocked'[t] = Len(got'[t])
                     /\ at'[t] \in {"lock", "unblock"} => blocked'[t] = Len(got'[t]) + 1
    BY DEF BlockedPerLock
  <2>1. CASE t \in T
    BY <1>b, <1>c, <2>1
  <2>2. CASE t \notin T
    BY <1>a, <1>b, <2>2 DEF BlockedPerLock
  <2> QED
    BY <2>1, <2>2
<1> QED
  BY <1>1, <1>2, <1>3, <1>4, <1>5, <1>6, <1>7 DEF LocksInv

\* An interruption finds a thread that is not blocking it, and so without locks.
LEMMA InterruptInv ==
  ASSUME LocksInv, NEW t \in Thread, Interrupt(t) PROVE LocksInv'
<1>1. /\ at[t] \notin {"idle", "dead"} /\ blocked[t] = 0 /\ Out({t})
      /\ at' = [at EXCEPT ![t] = "idle"] /\ UNCHANGED <<held, depth, left>>
  BY DEF Interrupt, Goto
<1>2. at' = [u \in Thread |-> IF u \in {t} THEN "idle" ELSE at[u]]
  BY <1>1 DEF LocksInv, LTypeOK
<1>3. t \notin left => got[t] = <<>>
  <2>1. got[t] \in Seq(Gots) /\ Len(got[t]) \in Nat /\ at[t] \in Ats
    BY DEF LocksInv, LTypeOK
  <2>2. t \notin left => Len(got[t]) = 0
    BY <1>1, <2>1 DEF LocksInv, BlockedPerLock, Ats
  <2> QED
    BY <2>1, <2>2
<1> QED
  BY <1>1, <1>2, <1>3, OutInv DEF LocksInv, LTypeOK

\* A bailout leaves the lock of sma_info behind.
LEMMA BailoutInv ==
  ASSUME LocksInv, NEW t \in Thread, Bailout(t) PROVE LocksInv'
<1>1. /\ Out({t}) /\ at' = [at EXCEPT ![t] = "idle"] /\ left' = left \cup {t}
      /\ UNCHANGED <<held, depth>>
  BY DEF Bailout, Goto
<1>2. at' = [u \in Thread |-> IF u \in {t} THEN "idle" ELSE at[u]]
  BY <1>1 DEF LocksInv, LTypeOK
<1> QED
  BY <1>1, <1>2, OutInv DEF LocksInv, LTypeOK

\* A process is killed.
LEMMA KillInv ==
  ASSUME OwnLocks, LocksInv, NEW t \in Thread, Kill(t) PROVE LocksInv'
<1> DEFINE T == IF Zts THEN Thread ELSE {t}
<1>1. /\ Out(T) /\ at' = [u \in Thread |-> IF u \in T THEN "dead" ELSE at[u]]
      /\ left' = left \cup T /\ depth' = depth
      /\ held' = IF kind = "fcntl" THEN [l \in Lock |-> Others(t, l)] ELSE held
  BY DEF Kill
<1>2. T \in SUBSET Thread /\ t \in T
  OBVIOUS
<1>3. /\ held' \in [Lock -> SUBSET [by : Thread, mode : {"r", "w"}]]
      /\ \A l \in Lock : held'[l] \subseteq held[l] /\ \A h \in held[l] \ held'[l] : h.by \in T
      /\ kind = "mutex" => held' = held
  BY <1>1, <1>2, OwnerFacts DEF LocksInv, LTypeOK
<1> HIDE DEF T
<1> QED
  BY <1>1, <1>2, <1>3, OutInv DEF LocksInv, LTypeOK

-----------------------------------------------------------------------------
(* The theorems.                                                             *)

\* The invariant holds at the start.
LEMMA LocksInit == Init => LocksInv
<1> SUFFICES ASSUME Init PROVE LocksInv
  OBVIOUS
<1>1. <<>> \in Seq(Wants) /\ <<>> \in Seq(Gots) /\ Len(<<>>) = 0 /\ DOMAIN <<>> = {}
  OBVIOUS
<1>2. LTypeOK
  BY <1>1, LocksAssumption DEF Init, LTypeOK, Ats
<1>3. Apart /\ Recorded /\ BlockedPerLock
  BY <1>1 DEF Init, Apart, Recorded, BlockedPerLock
<1>4. Justified /\ Exclusive /\ Depths
  BY DEF Init, Justified, Exclusive, Depths
<1> QED
  BY <1>2, <1>3, <1>4 DEF LocksInv

\* Every step keeps it.
LEMMA LocksStep == OwnLocks /\ LocksInv /\ [Next]_vars => LocksInv'
<1> SUFFICES ASSUME OwnLocks, LocksInv, [Next]_vars PROVE LocksInv'
  OBVIOUS
<1>1. CASE UNCHANGED vars
  <2>1. /\ kind' = kind /\ held' = held /\ depth' = depth /\ op' = op /\ todo' = todo
        /\ got' = got /\ at' = at /\ blocked' = blocked /\ left' = left /\ faults' = faults
    BY <1>1 DEF vars
  <2>2. LTypeOK' /\ Apart' /\ BlockedPerLock'
    BY <2>1 DEF LocksInv, LTypeOK, Apart, BlockedPerLock
  <2> QED
    BY <2>1, <2>2, HoldsFrame DEF LocksInv, Holds
<1>2. ASSUME NEW t \in Thread, NEW o \in OpsOf[t], Begin(t, o) PROVE LocksInv'
  <2>1. o \in AllOps
    BY LocksAssumption
  <2> QED
    BY <1>2, <2>1, BeginInv
<1>3. ASSUME NEW t \in Thread, Step(t) PROVE LocksInv'
  BY <1>3, QuietInv, GrantInv, FcntlFailsInv, FailInv, UnlockInv DEF Step, Advance, FailEdeadlk
<1>4. ASSUME NEW t \in Thread, Interrupt(t) \/ Bailout(t) \/ Kill(t) PROVE LocksInv'
  BY <1>4, InterruptInv, BailoutInv, KillInv
<1> QED
  BY <1>1, <1>2, <1>3, <1>4 DEF Next

\* In every reachable state of every build, what the implementation has on record
\* and what the threads take themselves to hold agree (immutable_cache_lock.c).
THEOREM LocksInvariance == OwnLocks => (Spec => []LocksInv)
<1> SUFFICES ASSUME OwnLocks PROVE Spec => []LocksInv
  OBVIOUS
<1>1. LocksInv /\ [Next]_vars => LocksInv'
  BY LocksStep
<1> QED
  BY <1>1, LocksInit, PTL DEF Spec

\* A thread outside a call holds no lock and blocks no interruptions, in every
\* build, unless a bailout of sma_info threw it out under its lock
\* (HANDLE_BLOCK_INTERRUPTIONS in immutable_cache_lock_wlock, WUNLOCK).
THEOREM IdleThreadsHoldNothing == OwnLocks => (Spec => []IdleHoldsNothing)
<1>1. LocksInv => IdleHoldsNothing
  <2> SUFFICES ASSUME LocksInv, NEW t \in Thread \ left, at[t] = "idle"
               PROVE (\A l \in Lock : \A h \in held[l] : h.by # t) /\ blocked[t] = 0
    BY DEF IdleHoldsNothing
  <2>1. got[t] = <<>> /\ Len(<<>>) = 0 /\ DOMAIN <<>> = {}
    BY DEF LocksInv, Apart
  <2>2. blocked[t] = 0
    BY <2>1 DEF LocksInv, BlockedPerLock
  <2>3. \A l \in Lock : \A h \in held[l] : h.by # t
    BY <2>1 DEF LocksInv, Justified
  <2> QED
    BY <2>2, <2>3
<1> QED
  BY <1>1, LocksInvariance, PTL

-----------------------------------------------------------------------------
(* The locks implement RWLock.                                               *)

\* The abstract lock has a writer exactly if a thread works as one.
Agrees ==
  /\ AbsReaders \in [Lock -> SUBSET Thread]
  /\ AbsWriter \in [Lock -> Thread \cup {None}]
  /\ \A l \in Lock, t \in Thread :
       /\ t \in AbsReaders[l] <=> Works(t, Read(l))
       /\ AbsWriter[l] = t <=> Works(t, Write(l))

\* What a thread works under has its place in got.
LEMMA WorksFacts ==
  ASSUME LocksInv, NEW t \in Thread, NEW y \in Wants, Works(t, y)
  PROVE /\ \E i \in DOMAIN got[t] : got[t][i] = y
        /\ [by |-> t, mode |-> y.mode] \in held[y.lock]
<1>1. PICK i \in DOMAIN got[t] : got[t][i] = y
  BY DEF Works, ToSet
<1>2. y.mode # "none"
  BY DEF Wants
<1> QED
  BY <1>1, <1>2 DEF LocksInv, Recorded

\* Under one lock there works one writer, or there work readers.
LEMMA WorkersExclude ==
  ASSUME LocksInv, NEW t \in Thread, NEW u \in Thread, NEW l \in Lock, Works(t, Write(l)),
         Works(u, Write(l)) \/ Works(u, Read(l))
  PROVE t = u /\ ~Works(u, Read(l))
<1>1. /\ Write(l) \in Wants /\ Write(l).lock = l /\ Write(l).mode = "w"
      /\ Read(l) \in Wants /\ Read(l).lock = l /\ Read(l).mode = "r"
  BY DEF Write, Read, Wants
<1>2. [by |-> t, mode |-> "w"] \in held[l]
  BY <1>1, WorksFacts
<1>3. \E m \in {"r", "w"} : [by |-> u, mode |-> m] \in held[l]
  BY <1>1, WorksFacts
<1>4. t = u
  BY <1>2, <1>3 DEF LocksInv, Exclusive
<1>5. ASSUME Works(t, Read(l)) PROVE FALSE
  <2>1. PICK i \in DOMAIN got[t] : got[t][i] = Write(l)
    BY <1>1, WorksFacts
  <2>2. PICK j \in DOMAIN got[t] : got[t][j] = Read(l)
    BY <1>1, <1>5, WorksFacts
  <2>3. i = j
    BY <1>1, <2>1, <2>2 DEF LocksInv, Apart
  <2> QED
    BY <2>1, <2>2, <2>3 DEF Read, Write
<1> QED
  BY <1>4, <1>5

\* In every state of the invariant the abstract lock is what the threads work
\* under.
LEMMA AgreesFacts == LocksInv => Agrees
<1> SUFFICES ASSUME LocksInv PROVE Agrees
  OBVIOUS
<1>1. AbsReaders \in [Lock -> SUBSET Thread]
  BY DEF AbsReaders
<1>2. ASSUME NEW l \in Lock
      PROVE /\ AbsWriter[l] \in Thread \cup {None}
            /\ \A t \in Thread : AbsWriter[l] = t <=> Works(t, Write(l))
  <2>1. CASE \E t \in Thread : Works(t, Write(l))
    <3> DEFINE w == CHOOSE t \in Thread : Works(t, Write(l))
    <3>1. w \in Thread /\ Works(w, Write(l))
      BY <2>1
    <3>2. AbsWriter[l] = w
      BY <2>1 DEF AbsWriter
    <3> HIDE DEF w
    <3>3. \A t \in Thread : Works(t, Write(l)) => t = w
      BY <3>1, WorkersExclude
    <3> QED
      BY <3>1, <3>2, <3>3
  <2>2. CASE ~\E t \in Thread : Works(t, Write(l))
    BY <2>2, LocksAssumption DEF AbsWriter
  <2> QED
    BY <2>1, <2>2
<1>3. \A l \in Lock, t \in Thread : t \in AbsReaders[l] <=> Works(t, Read(l))
  BY DEF AbsReaders
<1>4. AbsWriter \in [Lock -> Thread \cup {None}]
  <2>1. DOMAIN AbsWriter = Lock /\ AbsWriter = [l \in Lock |-> AbsWriter[l]]
    BY DEF AbsWriter
  <2> QED
    BY <1>2, <2>1
<1> QED
  BY <1>1, <1>2, <1>3, <1>4 DEF Agrees

\* A thread that comes to work under a lock takes the abstract one.
LEMMA LockMapped ==
  ASSUME Agrees, Agrees', NEW t \in Thread, NEW x \in Wants,
         \A u \in Thread, y \in Wants : Works(u, y)' <=> Works(u, y) \/ (u = t /\ y = x),
         \A u \in Thread : ~Works(u, Write(x.lock)),
         x.mode = "w" => \A u \in Thread : ~Works(u, Read(x.lock))
  PROVE Abstract!Next
<1>1. x.lock \in Lock /\ x.mode \in {"r", "w"} /\ x = [lock |-> x.lock, mode |-> x.mode]
  BY DEF Wants
<1>2. \A l \in Lock : /\ Read(l) \in Wants /\ (Read(l) = x <=> l = x.lock /\ x.mode = "r")
                      /\ Write(l) \in Wants /\ (Write(l) = x <=> l = x.lock /\ x.mode = "w")
  BY <1>1 DEF Read, Write, Wants
<1>3. AbsWriter[x.lock] = None
  BY <1>1 DEF Agrees
<1>4. CASE x.mode = "r"
  <2>1. \A l \in Lock : AbsReaders'[l] = IF l = x.lock THEN AbsReaders[l] \cup {t} ELSE AbsReaders[l]
    <3> TAKE l \in Lock
    <3>1. \A u \in Thread : u \in AbsReaders'[l] <=> u \in AbsReaders[l] \/ (u = t /\ l = x.lock)
      BY <1>2, <1>4 DEF Agrees
    <3>2. AbsReaders'[l] \subseteq Thread /\ AbsReaders[l] \subseteq Thread
      BY DEF Agrees
    <3> QED
      BY <3>1, <3>2
  <2>2. \A l \in Lock : AbsWriter'[l] = AbsWriter[l]
    <3> TAKE l \in Lock
    <3>1. \A u \in Thread : AbsWriter'[l] = u <=> AbsWriter[l] = u
      BY <1>2, <1>4 DEF Agrees
    <3> QED
      BY <3>1 DEF Agrees
  <2>3. AbsReaders' = [AbsReaders EXCEPT ![x.lock] = @ \cup {t}] /\ AbsWriter' = AbsWriter
    BY <2>1, <2>2 DEF Agrees
  <2>4. Abstract!RLock(t, x.lock)
    BY <1>3, <2>3 DEF Abstract!RLock
  <2> QED
    BY <1>1, <2>4 DEF Abstract!Next
<1>5. CASE x.mode = "w"
  <2>1. \A l \in Lock : AbsReaders'[l] = AbsReaders[l]
    <3> TAKE l \in Lock
    <3>1. \A u \in Thread : u \in AbsReaders'[l] <=> u \in AbsReaders[l]
      BY <1>2, <1>5 DEF Agrees
    <3>2. AbsReaders'[l] \subseteq Thread /\ AbsReaders[l] \subseteq Thread
      BY DEF Agrees
    <3> QED
      BY <3>1, <3>2
  <2>2. \A l \in Lock : AbsWriter'[l] = IF l = x.lock THEN t ELSE AbsWriter[l]
    <3> TAKE l \in Lock
    <3>1. \A u \in Thread : AbsWriter'[l] = u <=> AbsWriter[l] = u \/ (u = t /\ l = x.lock)
      BY <1>2, <1>5 DEF Agrees
    <3> QED
      BY <3>1 DEF Agrees
  <2>3. AbsWriter' = [AbsWriter EXCEPT ![x.lock] = t] /\ AbsReaders' = AbsReaders
    BY <2>1, <2>2 DEF Agrees
  <2>4. AbsReaders[x.lock] = {}
    BY <1>1, <1>5 DEF Agrees
  <2>5. Abstract!WLock(t, x.lock)
    BY <1>3, <2>3, <2>4 DEF Abstract!WLock
  <2> QED
    BY <1>1, <2>5 DEF Abstract!Next
<1> QED
  BY <1>1, <1>4, <1>5

\* A thread that no longer works under a lock releases the abstract one.
LEMMA UnlockMapped ==
  ASSUME Agrees, Agrees', NEW t \in Thread, NEW x \in Wants, Works(t, x),
         \A u \in Thread, y \in Wants : Works(u, y)' <=> Works(u, y) /\ ~(u = t /\ y = x)
  PROVE Abstract!Next
<1>1. x.lock \in Lock /\ x.mode \in {"r", "w"} /\ x = [lock |-> x.lock, mode |-> x.mode]
  BY DEF Wants
<1>2. \A l \in Lock : /\ Read(l) \in Wants /\ (Read(l) = x <=> l = x.lock /\ x.mode = "r")
                      /\ Write(l) \in Wants /\ (Write(l) = x <=> l = x.lock /\ x.mode = "w")
  BY <1>1 DEF Read, Write, Wants
<1>4. CASE x.mode = "r"
  <2>1. \A l \in Lock : AbsReaders'[l] = IF l = x.lock THEN AbsReaders[l] \ {t} ELSE AbsReaders[l]
    <3> TAKE l \in Lock
    <3>1. \A u \in Thread : u \in AbsReaders'[l] <=> u \in AbsReaders[l] /\ ~(u = t /\ l = x.lock)
      BY <1>2, <1>4 DEF Agrees
    <3>2. AbsReaders'[l] \subseteq Thread /\ AbsReaders[l] \subseteq Thread
      BY DEF Agrees
    <3> QED
      BY <3>1, <3>2
  <2>2. \A l \in Lock : AbsWriter'[l] = AbsWriter[l]
    <3> TAKE l \in Lock
    <3>1. \A u \in Thread : AbsWriter'[l] = u <=> AbsWriter[l] = u
      BY <1>2, <1>4 DEF Agrees
    <3> QED
      BY <3>1 DEF Agrees
  <2>3. AbsReaders' = [AbsReaders EXCEPT ![x.lock] = @ \ {t}] /\ AbsWriter' = AbsWriter
    BY <2>1, <2>2 DEF Agrees
  <2>4. Abstract!RUnlock(t, x.lock)
    BY <1>1, <1>2, <1>4, <2>3 DEF Abstract!RUnlock, Agrees
  <2> QED
    BY <1>1, <2>4 DEF Abstract!Next
<1>5. CASE x.mode = "w"
  <2>1. \A l \in Lock : AbsReaders'[l] = AbsReaders[l]
    <3> TAKE l \in Lock
    <3>1. \A u \in Thread : u \in AbsReaders'[l] <=> u \in AbsReaders[l]
      BY <1>2, <1>5 DEF Agrees
    <3>2. AbsReaders'[l] \subseteq Thread /\ AbsReaders[l] \subseteq Thread
      BY DEF Agrees
    <3> QED
      BY <3>1, <3>2
  <2>2. AbsWriter[x.lock] = t
    BY <1>1, <1>2, <1>5 DEF Agrees
  <2>3. \A l \in Lock : AbsWriter'[l] = IF l = x.lock THEN None ELSE AbsWriter[l]
    <3> TAKE l \in Lock
    <3>1. \A u \in Thread : AbsWriter'[l] = u <=> AbsWriter[l] = u /\ ~(u = t /\ l = x.lock)
      BY <1>2, <1>5 DEF Agrees
    <3> QED
      BY <2>2, <3>1 DEF Agrees
  <2>4. AbsWriter' = [AbsWriter EXCEPT ![x.lock] = None] /\ AbsReaders' = AbsReaders
    BY <2>1, <2>3 DEF Agrees
  <2>5. Abstract!WUnlock(t, x.lock)
    BY <2>2, <2>4 DEF Abstract!WUnlock
  <2> QED
    BY <1>1, <2>5 DEF Abstract!Next
<1> QED
  BY <1>1, <1>4, <1>5

\* Threads that are out of their calls work under no lock.
LEMMA OutMapped ==
  ASSUME Agrees, Agrees', NEW T \in SUBSET Thread, Out(T) PROVE Abstract!Next
<1>1. \A u \in Thread, y \in Wants : Works(u, y)' <=> Works(u, y) /\ u \notin T
  BY DEF Out, Works, ToSet
<1>2. \A l \in Lock : Read(l) \in Wants /\ Write(l) \in Wants
  BY DEF Read, Write, Wants
<1>3. \A l \in Lock : AbsReaders'[l] = AbsReaders[l] \ T
  BY <1>1, <1>2 DEF Agrees
<1>4. \A l \in Lock : AbsWriter'[l] = IF AbsWriter[l] \in T THEN None ELSE AbsWriter[l]
  <2> TAKE l \in Lock
  <2>1. \A u \in Thread : AbsWriter'[l] = u <=> AbsWriter[l] = u /\ u \notin T
    BY <1>1, <1>2 DEF Agrees
  <2> QED
    BY <2>1 DEF Agrees
<1>5. Abstract!Cease(T)
  BY <1>3, <1>4 DEF Abstract!Cease, Agrees
<1> QED
  BY <1>5 DEF Abstract!Next

\* A step after which everybody works under what they did is none of RWLock's.
LEMMA StutterMapped ==
  ASSUME Agrees, Agrees',
         \A u \in Thread, y \in Wants : Works(u, y)' <=> Works(u, y)
  PROVE UNCHANGED <<AbsWriter, AbsReaders>>
<1>1. \A l \in Lock : Read(l) \in Wants /\ Write(l) \in Wants
  BY DEF Read, Write, Wants
<1>2. \A l \in Lock : AbsReaders'[l] = AbsReaders[l]
  BY <1>1 DEF Agrees
<1>3. \A l \in Lock : AbsWriter'[l] = AbsWriter[l]
  <2> TAKE l \in Lock
  <2>1. \A u \in Thread : AbsWriter'[l] = u <=> AbsWriter[l] = u
    BY <1>1 DEF Agrees
  <2> QED
    BY <2>1 DEF Agrees
<1> QED
  BY <1>2, <1>3 DEF Agrees

\* Every step of the locks is one of RWLock or none.
LEMMA LocksStepMapped ==
  ASSUME OwnLocks, LocksInv, LocksInv', [Next]_vars
  PROVE Abstract!Next \/ UNCHANGED <<AbsWriter, AbsReaders>>
<1>a. Agrees /\ Agrees'
  <2>1. Agrees
    BY AgreesFacts
  <2>2. (LocksInv => Agrees)'
    BY AgreesFacts, PTL
  <2> QED
    BY <2>1, <2>2
<1>b. LTypeOK /\ Apart /\ Recorded /\ Exclusive
  BY DEF LocksInv
<1>1. CASE got' = got
  <2>1. \A u \in Thread, y \in Wants : Works(u, y)' <=> Works(u, y)
    BY <1>1 DEF Works
  <2> QED
    BY <1>a, <2>1, StutterMapped
<1>2. ASSUME NEW t \in Thread, Grant(t) PROVE Abstract!Next
  <2> DEFINE x == Head(todo[t])
  <2>1. at[t] = "lock" /\ Free(t, x) /\ Taken(t, x)
    BY <1>2 DEF Grant
  <2>2. x \in Wants /\ x \in Gots /\ x.lock \in Lock /\ x = todo[t][1] /\ 1 \in DOMAIN todo[t]
    BY <1>b, <2>1, NextLock
  <2> HIDE DEF x
  <2>3. \A u \in Thread, y \in Wants : Works(u, y)' <=> Works(u, y) \/ (u = t /\ y = x)
    <3>1. /\ \A u \in Thread \ {t} : got'[u] = got[u]
          /\ DOMAIN got[t] = 1 .. Len(got[t]) /\ Len(got[t]) \in Nat
          /\ DOMAIN got'[t] = 1 .. Len(got[t]) + 1
          /\ \A i \in 1 .. Len(got[t]) : got'[t][i] = got[t][i]
          /\ got'[t][Len(got[t]) + 1] = x
      BY <1>b, <2>1, <2>2, TakenFacts DEF x, LocksInv
    <3>2. \A y : (\E i \in DOMAIN got'[t] : got'[t][i] = y) <=> (\E i \in DOMAIN got[t] : got[t][i] = y) \/ y = x
      BY <3>1
    <3> QED
      BY SMTT(30), <3>1, <3>2 DEF Works, ToSet
  <2>4. ASSUME NEW u \in Thread, NEW y \in Wants, y.lock = x.lock, Works(u, y)
        PROVE y.mode = "r" /\ x.mode = "r"
    <3>1. PICK i \in DOMAIN got[u] : got[u][i] = y
      BY <2>4, WorksFacts
    <3>2. u # t
      BY <1>b, <2>2, <2>4, <3>1 DEF Apart
    <3>3. [by |-> u, mode |-> y.mode] \in held[x.lock]
      BY <2>4, WorksFacts
    <3> QED
      BY <1>b, <2>1, <2>2, <3>2, <3>3, FreeFacts
  <2>5. /\ Read(x.lock) \in Wants /\ Read(x.lock).lock = x.lock
        /\ Write(x.lock) \in Wants /\ Write(x.lock).lock = x.lock /\ Write(x.lock).mode = "w"
    BY <2>2 DEF Read, Write, Wants
  <2>6. /\ \A u \in Thread : ~Works(u, Write(x.lock))
        /\ x.mode = "w" => \A u \in Thread : ~Works(u, Read(x.lock))
    BY <2>4, <2>5
  <2> QED
    BY <1>a, <2>2, <2>3, <2>6, LockMapped
<1>3. ASSUME NEW t \in Thread, Fail(t), op[t] = "smainfo" PROVE Abstract!Next
  <2> DEFINE x == Write("sma")
  <2>1. at[t] = "lock" /\ Refused(t, Head(todo[t])) /\ got' = [got EXCEPT ![t] = todo[t]]
    BY <1>3 DEF Fail
  <2>2. got[t] = <<>> /\ todo[t] = <<x>> /\ Head(todo[t]) = x
    BY <1>3, <1>b, <2>1, NextLock DEF Apart
  <2>3. [by |-> t, mode |-> "w"] \in held["sma"]
    BY <1>3, <1>b, <2>1, <2>2, OwnerFacts DEF Refused, Edeadlk, Write
  <2>4. x \in Wants /\ "sma" \in Lock /\ x.lock = "sma" /\ x.mode = "w"
    BY DEF Write, Wants, Lock
  <2> HIDE DEF x
  <2>5. \A u \in Thread, y \in Wants : Works(u, y)' <=> Works(u, y) \/ (u = t /\ y = x)
    <3>1. got'[t] = <<x>> /\ \A u \in Thread \ {t} : got'[u] = got[u]
      BY <1>b, <2>1, <2>2 DEF LTypeOK
    <3>2. ToSet(got[t]) = {} /\ ToSet(got'[t]) = {x}
      BY <2>2, <3>1 DEF ToSet
    <3> QED
      BY <3>1, <3>2 DEF Works
  <2>6. ASSUME NEW u \in Thread, NEW y \in Wants, y.lock = "sma" PROVE ~Works(u, y)
    <3> SUFFICES ASSUME Works(u, y) PROVE FALSE
      OBVIOUS
    <3>1. PICK i \in DOMAIN got[u] : got[u][i] = y
      BY WorksFacts
    <3>2. u # t
      BY <2>2, <3>1
    <3>3. [by |-> u, mode |-> y.mode] \in held["sma"]
      BY <2>6, WorksFacts
    <3> QED
      BY <1>b, <2>3, <2>4, <3>2, <3>3 DEF Exclusive
  <2>7. Read("sma") \in Wants /\ Read("sma").lock = "sma" /\ Write("sma") \in Wants /\ Write("sma").lock = "sma"
    BY <2>4 DEF Read, Write, Wants
  <2>8. \A u \in Thread : ~Works(u, Write(x.lock)) /\ ~Works(u, Read(x.lock))
    BY <2>4, <2>6, <2>7
  <2> QED
    BY <1>a, <2>4, <2>5, <2>8, LockMapped
<1>4. ASSUME NEW t \in Thread, Unlock(t) PROVE Abstract!Next \/ UNCHANGED <<AbsWriter, AbsReaders>>
  <2> DEFINE x == Last(got[t])
             n == Len(got[t])
  <2>1. got[t] \in Seq(Gots) /\ got[t] # <<>> /\ got' = [got EXCEPT ![t] = Front(got[t])]
    BY <1>4, <1>b DEF Unlock, LTypeOK
  <2>2. /\ n \in Nat \ {0} /\ DOMAIN Front(got[t]) = 1 .. (n - 1) /\ DOMAIN got[t] = 1 .. n
        /\ \A i \in 1 .. (n - 1) : Front(got[t])[i] = got[t][i]
        /\ x = got[t][n] /\ x \in Gots
    BY <2>1, FrontFacts
  <2> HIDE DEF x, n
  <2>3. got'[t] = Front(got[t]) /\ \A u \in Thread \ {t} : got'[u] = got[u]
    BY <1>b, <2>1 DEF LTypeOK
  <2>4. \A y : Works(t, y)' <=> Works(t, y) /\ y # x
    <3> TAKE y
    <3>1. Works(t, y)' <=> \E i \in 1 .. (n - 1) : got[t][i] = y
      BY <2>2, <2>3 DEF Works, ToSet
    <3>2. Works(t, y) <=> \E i \in 1 .. n : got[t][i] = y
      BY <2>2 DEF Works, ToSet
    <3>3. \A i \in 1 .. (n - 1) : got[t][i] # x
      <4> TAKE i \in 1 .. (n - 1)
      <4>1. i \in DOMAIN got[t] /\ n \in DOMAIN got[t] /\ i # n
        BY <2>2
      <4> QED
        BY <1>b, <2>2, <4>1 DEF Apart
    <3>4. \A i \in 1 .. n : i \in 1 .. (n - 1) \/ i = n
      BY <2>2
    <3>5. \A i \in 1 .. (n - 1) : i \in 1 .. n
      BY <2>2
    <3> QED
      BY <2>2, <3>1, <3>2, <3>3, <3>4, <3>5
  <2>5. Works(t, x)
    <3>1. n \in DOMAIN got[t]
      BY <2>2
    <3> QED
      BY <2>2, <3>1 DEF Works, ToSet
  <2>6. \A u \in Thread \ {t} : \A y : Works(u, y)' <=> Works(u, y)
    BY <2>3 DEF Works
  <2>7. CASE x \in Wants
    <3>1. \A u \in Thread, y \in Wants : Works(u, y)' <=> Works(u, y) /\ ~(u = t /\ y = x)
      BY <2>4, <2>6
    <3> QED
      BY <1>a, <2>5, <2>7, <3>1, UnlockMapped
  <2>8. CASE x \notin Wants
    <3>1. \A u \in Thread, y \in Wants : Works(u, y)' <=> Works(u, y)
      BY <2>4, <2>6, <2>8
    <3> QED
      BY <1>a, <3>1, StutterMapped
  <2> QED
    BY <2>7, <2>8
<1>5. ASSUME NEW t \in Thread, FcntlFails(t) PROVE UNCHANGED <<AbsWriter, AbsReaders>>
  <2> DEFINE x == [Head(todo[t]) EXCEPT !.mode = "none"]
  <2>1. got[t] \in Seq(Gots) /\ got' = [got EXCEPT ![t] = Append(got[t], x)] /\ at[t] = "lock"
    BY <1>5, <1>b DEF FcntlFails, Taken, LTypeOK
  <2>2. Head(todo[t]) \in Wants
    BY <1>b, <2>1, NextLock
  <2>3. x \in Gots /\ x \notin Wants
    BY <2>2 DEF Gots, Wants
  <2> HIDE DEF x
  <2>4. got'[t] = Append(got[t], x) /\ \A u \in Thread \ {t} : got'[u] = got[u]
    BY <1>b, <2>1 DEF LTypeOK
  <2>5. /\ DOMAIN got'[t] = 1 .. (Len(got[t]) + 1) /\ DOMAIN got[t] = 1 .. Len(got[t]) /\ Len(got[t]) \in Nat
        /\ \A i \in 1 .. Len(got[t]) : got'[t][i] = got[t][i]
        /\ got'[t][Len(got[t]) + 1] = x
    BY <2>1, <2>3, <2>4, AppendFacts
  <2>6. \A y : (\E i \in DOMAIN got'[t] : got'[t][i] = y) <=> (\E i \in DOMAIN got[t] : got[t][i] = y) \/ y = x
    BY <2>5
  <2>7. \A u \in Thread, y \in Wants : Works(u, y)' <=> Works(u, y)
    BY SMTT(20), <2>3, <2>4, <2>6 DEF Works, ToSet
  <2> QED
    BY <1>a, <2>7, StutterMapped
<1>6. ASSUME NEW t \in Thread, Interrupt(t) \/ Bailout(t) \/ Kill(t) PROVE Abstract!Next
  <2>1. \E T \in SUBSET Thread : Out(T)
    BY <1>6 DEF Interrupt, Bailout, Kill
  <2> QED
    BY <1>a, <2>1, OutMapped
<1>7. ASSUME NEW t \in Thread, Fail(t), op[t] # "smainfo" PROVE got' = got
  BY <1>7 DEF Fail
<1>8. ASSUME NEW t \in Thread, Block(t) \/ Work(t) \/ Unblock(t) \/ Return(t) \/ \E o \in OpsOf[t] : Begin(t, o)
      PROVE got' = got
  BY <1>8 DEF Block, Work, Unblock, Return, Begin
<1>9. UNCHANGED vars => got' = got
  BY DEF vars
<1> QED
  BY <1>1, <1>2, <1>3, <1>4, <1>5, <1>6, <1>7, <1>8, <1>9 DEF Next, Step, Advance, FailEdeadlk

\* The locks start free.
LEMMA LocksInitMapped == Init => Abstract!Init
<1> SUFFICES ASSUME Init PROVE Abstract!Init
  OBVIOUS
<1>1. \A t \in Thread : \A y : ~Works(t, y)
  BY DEF Init, Works, ToSet
<1> QED
  BY <1>1 DEF Abstract!Init, AbsWriter, AbsReaders

\* In every build (native, mutex, spin, file and Windows locks), for any number
\* of threads and whatever fails, bails out, is interrupted or dies, threads work
\* under the locks as the cache expects: a writer alone, readers with readers
\* (immutable_cache_lock_rlock, _wlock, _runlock, _wunlock).
THEOREM LocksImplementRWLock == OwnLocks => (Spec => ImplementsRWLock)
<1> SUFFICES ASSUME OwnLocks PROVE Spec => ImplementsRWLock
  OBVIOUS
<1>1. LocksInv /\ LocksInv' /\ [Next]_vars => [Abstract!Next]_<<AbsWriter, AbsReaders>>
  BY LocksStepMapped
<1>2. Spec => []LocksInv
  BY LocksInvariance
<1> QED
  BY <1>1, <1>2, LocksInitMapped, PTL DEF Spec, ImplementsRWLock, Abstract!Spec, Abstract!vars
=============================================================================
