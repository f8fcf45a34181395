------------------------------ MODULE SmaProofs ------------------------------
(* Proofs about Sma, for any number of workers and segments, any sizes of     *)
(* segments, headers, words and requests: blocks tile their segment, callers  *)
(* hold disjoint memory, the free list holds the free blocks, avail is their  *)
(* total, and memory that is freed can be found again.                        *)
EXTENDS Sma, FiniteSetTheorems, WellFoundedInduction, TLAPS

-----------------------------------------------------------------------------
(* Natural numbers.  Induction is over sets of numbers.                      *)

\* A set of natural numbers has a least element.
LEMMA LeastNatural ==
  ASSUME NEW T, T \subseteq Nat, T # {}
  PROVE \E x \in T : \A y \in T : x <= y
<1> DEFINE R == {ss \in Nat \X Nat : ss[1] < ss[2]}
<1>1. IsWellFoundedOn(R, Nat)
  BY NatLessThanWellFounded DEF OpToRel
<1> HIDE DEF R
<1>2. PICK x \in T : \A y \in T : ~(<<y, x>> \in R)
  BY <1>1, WFMin
<1>3. \A y \in T : ~(y < x)
  BY <1>2 DEF R
<1> QED
  BY <1>3

\* A set that holds 0 and with a number the next one holds all of them.
LEMMA SetInduction ==
  ASSUME NEW S, 0 \in S, \A n \in Nat : n \in S => n + 1 \in S
  PROVE Nat \subseteq S
<1> SUFFICES ASSUME NEW m \in Nat, m \notin S PROVE FALSE
  OBVIOUS
<1> DEFINE T == {n \in Nat : n \notin S}
<1>1. PICK x \in T : \A y \in T : x <= y
  <2>1. T \subseteq Nat /\ T # {}
    OBVIOUS
  <2> HIDE DEF T
  <2> QED
    BY <2>1, LeastNatural
<1>2. x \in Nat /\ x # 0 /\ x - 1 \in Nat /\ (x - 1) + 1 = x
  OBVIOUS
<1>3. x - 1 \in S
  BY <1>1, <1>2
<1> QED
  BY <1>2, <1>3

\* Multiples of the word size.
Aligned(x) == x % Word = 0

\* A multiple of the word size is aligned.
LEMMA MultipleAligned ==
  ASSUME NEW k \in Int PROVE Word * k \in Int /\ Aligned(Word * k)
<1> DEFINE q == (Word * k) \div Word
           r == (Word * k) % Word
<1>1. Word \in Nat /\ Word > 0
  BY SmaAssumption
<1>2. q \in Int /\ r \in 0 .. Word - 1 /\ Word * k = Word * q + r
  BY <1>1
<1>3. r = Word * (k - q)
  BY <1>1, <1>2
<1>4. k - q = 0
  <2>1. CASE k - q >= 1
    <3>1. Word * (k - q) >= Word
      BY <1>1, <1>2, <2>1
    <3> QED
      BY <1>1, <1>2, <1>3, <3>1
  <2>2. CASE k - q <= -1
    <3>1. Word * (k - q) <= -Word
      BY <1>1, <1>2, <2>2
    <3> QED
      BY <1>1, <1>2, <1>3, <3>1
  <2> QED
    BY <1>2, <2>1, <2>2
<1> QED
  BY <1>1, <1>2, <1>3, <1>4 DEF Aligned

\* Aligned numbers are multiples.
LEMMA AlignedMultiple ==
  ASSUME NEW x \in Int, Aligned(x) PROVE \E k \in Int : x = Word * k
<1> DEFINE q == x \div Word
           r == x % Word
<1>1. Word \in Nat /\ Word > 0
  BY SmaAssumption
<1>2. q \in Int /\ r \in 0 .. Word - 1 /\ x = Word * q + r
  BY <1>1
<1>3. r = 0
  BY DEF Aligned
<1> HIDE DEF q, r
<1>4. x = Word * q
  BY <1>1, <1>2, <1>3
<1> QED
  BY <1>2, <1>4

\* Sums and differences of aligned numbers are aligned.
LEMMA AlignedSum ==
  ASSUME NEW x \in Int, NEW y \in Int, Aligned(x), Aligned(y)
  PROVE Aligned(x + y) /\ Aligned(x - y)
<1>1. PICK k \in Int : x = Word * k
  BY AlignedMultiple
<1>2. PICK m \in Int : y = Word * m
  BY AlignedMultiple
<1>3. x + y = Word * (k + m) /\ x - y = Word * (k - m)
  BY <1>1, <1>2, SmaAssumption
<1>4. Aligned(Word * (k + m)) /\ Aligned(Word * (k - m))
  BY MultipleAligned
<1> QED
  BY <1>3, <1>4

\* ALIGNWORD pads up, by less than a word.
LEMMA AlignFacts ==
  ASSUME NEW x \in Nat \ {0}
  PROVE AlignWord(x) \in Nat /\ AlignWord(x) >= x /\ Aligned(AlignWord(x))
<1> DEFINE q == (x - 1) \div Word
           r == (x - 1) % Word
<1>1. Word \in Nat /\ Word > 0
  BY SmaAssumption
<1>2. q \in Nat /\ r \in 0 .. Word - 1 /\ x - 1 = Word * q + r
  BY <1>1
<1> HIDE DEF q, r
<1>3. Word * (1 + q) = Word + Word * q /\ Word * q \in Int
  BY <1>1, <1>2
<1>4. Word * (1 + q) >= x /\ Word * (1 + q) \in Int
  BY <1>1, <1>2, <1>3
<1>5. Aligned(Word * (1 + q))
  BY <1>2, MultipleAligned
<1> QED
  BY <1>4, <1>5 DEF AlignWord, q

\* The sizes and offsets a segment starts with.
LEMMA Layout ==
  /\ Hdr \in Nat \ {0} /\ MINBLOCKSIZE \in Nat /\ MINBLOCKSIZE > Hdr
  /\ First \in Nat \ {0} /\ Empty = First + Hdr /\ Last = SegSize - 2 * Hdr
  /\ Last \in Nat /\ Empty \in Nat /\ Last >= Empty + MINBLOCKSIZE /\ SegSize \in Nat
  /\ Aligned(Hdr) /\ Aligned(First) /\ Aligned(Empty)
<1>1. HdrSize \in Nat \ {0} /\ BlockSize \in Nat \ {0} /\ 1 \in Nat \ {0}
  BY SmaAssumption
<1>2. Hdr \in Nat \ {0} /\ First \in Nat \ {0} /\ Aligned(Hdr) /\ Aligned(First)
  BY <1>1, AlignFacts DEF Hdr, First
<1>3. AlignWord(1) \in Nat \ {0}
  BY <1>1, AlignFacts
<1>4. MINBLOCKSIZE \in Nat /\ MINBLOCKSIZE > Hdr
  BY <1>2, <1>3 DEF MINBLOCKSIZE
<1>5. SegSize \in Nat
  BY SmaAssumption
<1>6. Empty \in Nat /\ Aligned(Empty)
  BY <1>2, AlignedSum DEF Empty
<1>8. Last \in Int
  BY <1>2, <1>5 DEF Last
<1>9. Last >= Empty + MINBLOCKSIZE
  BY SmaAssumption
<1> QED
  BY <1>2, <1>4, <1>5, <1>6, <1>8, <1>9 DEF Empty, Last

\* What malloc looks for is large enough for the header and the caller's bytes,
\* and keeps offsets aligned.
LEMMA RealSizeFacts ==
  ASSUME NEW n \in Sizes
  PROVE RealSize(n) \in Nat /\ RealSize(n) >= n + Hdr /\ RealSize(n) >= MINBLOCKSIZE /\ Aligned(RealSize(n))
<1>1. n \in Nat \ {0}
  BY SmaAssumption
<1>2. n + Hdr \in Nat \ {0}
  BY <1>1, Layout
<1>3. RealSize(n) \in Nat /\ RealSize(n) >= n + Hdr /\ Aligned(RealSize(n))
  BY <1>2, AlignFacts DEF RealSize
<1> DEFINE d == RealSize(n) - Hdr
<1>4. d \in Int /\ d > 0 /\ Aligned(d)
  <2>1. Hdr \in Int /\ RealSize(n) \in Int /\ Aligned(Hdr)
    BY <1>3, Layout
  <2>2. Aligned(RealSize(n) - Hdr)
    BY <1>3, <2>1, AlignedSum
  <2> QED
    BY <1>1, <1>3, <2>1, <2>2
<1>5. PICK k \in Int : d = Word * k
  BY <1>4, AlignedMultiple
<1>6. Word \in Nat /\ Word > 0
  BY SmaAssumption
<1> HIDE DEF d
<1>7. k >= 1
  <2> SUFFICES ASSUME k <= 0 PROVE FALSE
    BY <1>5
  <2>1. Word * k <= 0
    BY <1>6
  <2> QED
    BY <1>4, <1>5, <2>1
<1>8. Word * k >= Word
  BY <1>6, <1>7
<1>9. AlignWord(1) = Word
  <2>1. (1 - 1) \div Word = 0
    BY <1>6
  <2> QED
    BY <1>6, <2>1 DEF AlignWord
<1> QED
  BY <1>3, <1>4, <1>5, <1>6, <1>8, <1>9, Layout DEF d, MINBLOCKSIZE

-----------------------------------------------------------------------------
(* Segments.                                                                 *)

Header   == [size : Int, prev : Int, fnext : Int, fprev : Int]
Bl(b)    == DOMAIN b \ {First, Last}
Frees(b) == {o \in Bl(b) : b[o].fnext # 0}

\* The list goes from the first sentinel through the blocks of F, each once, to
\* the last sentinel, and its back links go the other way.
IsPath(b, F, n, path) ==
  /\ path \in [0 .. n + 1 -> Int]
  /\ path[0] = First /\ path[n + 1] = Last
  /\ \A i, j \in 0 .. n + 1 : path[i] = path[j] => i = j
  /\ \A i \in 1 .. n : path[i] \in F
  /\ \A x \in F : \E i \in 1 .. n : path[i] = x
  /\ \A i \in 0 .. n : b[path[i]].fnext = path[i + 1]
  /\ \A i \in 0 .. n : b[path[i + 1]].fprev = path[i]

\* The sizes of the blocks on the way, added up.
IsSums(b, n, path, s) ==
  /\ s \in [0 .. n -> Int] /\ s[0] = 0
  /\ \A i \in 1 .. n : s[i] = s[i - 1] + b[path[i]].size

\* The list of b holds the blocks of F, t bytes in all.
Listed(b, F, t) ==
  \E n \in Nat : \E path, s : IsPath(b, F, n, path) /\ IsSums(b, n, path, s) /\ s[n] = t

-----------------------------------------------------------------------------
(* The free list.                                                            *)

\* Following the links goes along the path.
LEMMA HopsPath ==
  ASSUME NEW b, NEW F, NEW n \in Nat, NEW path, IsPath(b, F, n, path), 0 \notin F
  PROVE \A i \in Nat : Hops(b)[i] = IF i <= n THEN path[i + 1] ELSE 0
<1> DEFINE H == [i \in Nat |-> IF i <= n THEN path[i + 1] ELSE 0]
           D(h, i) == IF i = 0 THEN b[First].fnext ELSE IF h[i - 1] \in {0, Last} THEN 0 ELSE b[h[i - 1]].fnext
<1>1. \A i \in Nat : H[i] = D(H, i)
  <2> SUFFICES ASSUME NEW i \in Nat PROVE H[i] = D(H, i)
    OBVIOUS
  <2>1. CASE i = 0
    <3>1. 0 \in 0 .. n /\ path[0 + 1] = b[path[0]].fnext
      BY DEF IsPath
    <3> QED
      BY <2>1, <3>1 DEF IsPath
  <2>2. CASE i # 0 /\ i <= n
    <3>1. i \in 1 .. n /\ i - 1 \in Nat /\ i - 1 <= n /\ (i - 1) + 1 = i /\ i \in 0 .. n
      BY <2>2
    <3>2. H[i - 1] = path[i]
      BY <3>1
    <3>3. path[i] \in F /\ path[i] # Last
      <4>1. n + 1 \in 0 .. n + 1 /\ i \in 0 .. n + 1 /\ i # n + 1
        BY <3>1
      <4> QED
        BY <3>1, <4>1 DEF IsPath
    <3>4. b[path[i]].fnext = path[i + 1]
      BY <3>1 DEF IsPath
    <3> QED
      BY <2>2, <3>2, <3>3, <3>4
  <2>3. CASE i = n + 1
    <3>1. i # 0 /\ i - 1 \in Nat /\ i - 1 <= n /\ (i - 1) + 1 = n + 1 /\ ~(i <= n)
      BY <2>3
    <3>2. H[i - 1] = Last
      BY <3>1 DEF IsPath
    <3> QED
      BY <3>1, <3>2
  <2>4. CASE i > n + 1
    <3>1. i # 0 /\ i - 1 \in Nat /\ ~(i - 1 <= n) /\ ~(i <= n)
      BY <2>4
    <3>2. H[i - 1] = 0
      BY <3>1
    <3> QED
      BY <3>1, <3>2
  <2> QED
    BY <2>1, <2>2, <2>3, <2>4
<1>2. H = [i \in Nat |-> D(H, i)]
  BY <1>1
<1>3. Hops(b) = [i \in Nat |-> D(Hops(b), i)]
  <2> HIDE DEF H
  <2>1. Hops(b) = CHOOSE h : h = [i \in Nat |-> D(h, i)]
    BY DEF Hops
  <2> QED
    BY <1>2, <2>1
<1> HIDE DEF H
<1>4. \A i \in Nat : Hops(b)[i] = D(Hops(b), i)
  BY <1>3
<1> DEFINE S == {i \in Nat : Hops(b)[i] = H[i]}
<1>5. 0 \in S
  BY <1>1, <1>4
<1>6. ASSUME NEW i \in Nat, i \in S PROVE i + 1 \in S
  <2>1. i + 1 \in Nat /\ i + 1 # 0 /\ (i + 1) - 1 = i
    OBVIOUS
  <2>2. D(Hops(b), i + 1) = D(H, i + 1)
    BY <1>6, <2>1
  <2> QED
    BY <1>1, <1>4, <2>1, <2>2
<1>7. Nat \subseteq S
  <2> HIDE DEF S
  <2> QED
    BY <1>5, <1>6, SetInduction
<1> QED
  BY <1>7 DEF H

PathList(n, path) == [i \in 1 .. n |-> path[i]]

\* So the list that find_block and sma_info walk is the path.
LEMMA ListPath ==
  ASSUME NEW b, NEW F, NEW n \in Nat, NEW path, IsPath(b, F, n, path), 0 \notin F,
         F \subseteq DOMAIN b, Last \notin F, IsFiniteSet(DOMAIN b)
  PROVE /\ FreeList(b) = PathList(n, path)
        /\ IsFiniteSet(F) /\ n = Cardinality(F)
<1> DEFINE P == [i \in 1 .. n |-> path[i]]
           reached == {i \in 0 .. Cardinality(DOMAIN b) : Hops(b)[i] \notin {0, Last}}
<1>1. \A i \in 1 .. n : i \in 0 .. n + 1
  OBVIOUS
<1>2. P \in Bijection(1 .. n, F)
  <2>1. P \in [1 .. n -> F]
    BY DEF IsPath
  <2>2. \A i, j \in 1 .. n : P[i] = P[j] => i = j
    BY <1>1 DEF IsPath
  <2>3. \A x \in F : \E i \in 1 .. n : P[i] = x
    BY DEF IsPath
  <2> HIDE DEF P
  <2> QED
    BY <2>1, <2>2, <2>3 DEF Bijection, Injection, Surjection, IsInjective
<1>3. IsFiniteSet(1 .. n) /\ Cardinality(1 .. n) = n
  BY FS_Interval
<1>4. IsFiniteSet(F) /\ n = Cardinality(F)
  <2>1. ExistsBijection(1 .. n, F)
    BY <1>2 DEF ExistsBijection
  <2> QED
    BY <1>3, <2>1, FS_Bijection
<1>5. n <= Cardinality(DOMAIN b) /\ Cardinality(DOMAIN b) \in Nat
  BY <1>4, FS_Subset, FS_CardinalityType
<1>6. \A i \in 0 .. n - 1 : Hops(b)[i] = path[i + 1] /\ Hops(b)[i] \notin {0, Last}
  <2> TAKE i \in 0 .. n - 1
  <2>1. i \in Nat /\ i <= n /\ i + 1 \in 1 .. n
    OBVIOUS
  <2>2. Hops(b)[i] = path[i + 1]
    BY <2>1, HopsPath
  <2> QED
    BY <2>1, <2>2 DEF IsPath
<1>7. \A i \in Nat : i >= n => Hops(b)[i] \in {0, Last}
  <2> TAKE i \in Nat
  <2> HAVE i >= n
  <2>1. Hops(b)[i] = IF i <= n THEN path[i + 1] ELSE 0
    BY HopsPath
  <2> QED
    BY <2>1 DEF IsPath
<1>8. reached = 0 .. n - 1
  <2> DEFINE C == Cardinality(DOMAIN b)
  <2> HIDE DEF C
  <2>1. \A i \in 0 .. C : Hops(b)[i] \notin {0, Last} <=> i \in 0 .. n - 1
    BY <1>6, <1>7
  <2>2. \A i \in 0 .. n - 1 : i \in 0 .. C
    BY <1>5 DEF C
  <2> QED
    BY <2>1, <2>2 DEF C
<1>9. Cardinality(reached) = n
  <2>1. 0 \in Int /\ n - 1 \in Int
    OBVIOUS
  <2>2. Cardinality(0 .. n - 1) = IF 0 > n - 1 THEN 0 ELSE (n - 1) - 0 + 1
    BY <2>1, FS_Interval
  <2>3. Cardinality(0 .. n - 1) = n
    BY <2>2
  <2> QED
    BY <1>8, <2>3
<1>10. FreeList(b) = [i \in 1 .. n |-> Hops(b)[i - 1]]
  BY <1>9 DEF FreeList
<1>11. \A i \in 1 .. n : Hops(b)[i - 1] = path[i]
  <2> TAKE i \in 1 .. n
  <2>1. i - 1 \in 0 .. n - 1 /\ (i - 1) + 1 = i
    OBVIOUS
  <2> QED
    BY <1>6, <2>1
<1> QED
  BY <1>4, <1>10, <1>11 DEF PathList

\* Adding up sizes from the head of the list gives its total.
LEMMA TotalSums ==
  ASSUME NEW n \in Nat, NEW fl, Len(fl) = n, NEW s \in [0 .. n -> Int], s[0] = 0,
         \A i \in 1 .. n : s[i] = s[i - 1] + fl[i].size
  PROVE ListTotal(fl) = s[n]
<1> DEFINE D(h, i) == IF i = 0 THEN 0 ELSE h[i - 1] + fl[i].size
           sum == CHOOSE h : h = [i \in 0 .. n |-> D(h, i)]
<1>1. \A i \in 0 .. n : s[i] = D(s, i)
  <2> TAKE i \in 0 .. n
  <2>1. i = 0 \/ i \in 1 .. n
    OBVIOUS
  <2> QED
    BY <2>1
<1>2. s = [i \in 0 .. n |-> D(s, i)]
  BY <1>1
<1>3. sum = [i \in 0 .. n |-> D(sum, i)]
  BY <1>2
<1>4. ListTotal(fl) = sum[n]
  BY DEF ListTotal
<1> HIDE DEF sum
<1>5. \A i \in 0 .. n : sum[i] = D(sum, i)
  BY <1>3
<1> DEFINE S == {i \in Nat : i <= n => sum[i] = s[i]}
<1>6. 0 \in S
  <2>1. 0 \in 0 .. n
    OBVIOUS
  <2> QED
    BY <1>5, <2>1
<1>7. ASSUME NEW i \in Nat, i \in S PROVE i + 1 \in S
  <2> SUFFICES ASSUME i + 1 <= n PROVE sum[i + 1] = s[i + 1]
    OBVIOUS
  <2>1. i + 1 \in 0 .. n /\ i + 1 # 0 /\ (i + 1) - 1 = i /\ i <= n
    OBVIOUS
  <2>2. sum[i + 1] = sum[i] + fl[i + 1].size
    BY <1>5, <2>1
  <2>3. s[i + 1] = s[i] + fl[i + 1].size
    BY <1>1, <2>1
  <2> QED
    BY <1>7, <2>1, <2>2, <2>3
<1>8. Nat \subseteq S
  <2> HIDE DEF S
  <2> QED
    BY <1>6, <1>7, SetInduction
<1> QED
  BY <1>4, <1>8

\* The best fit exists: of the blocks near the first fit, one is smallest, and of
\* those one comes first.
LEMMA BestFit ==
  ASSUME NEW near, near \subseteq Nat, near # {}, NEW sz \in [near -> Nat]
  PROVE \E i \in near : \A j \in near : sz[i] < sz[j] \/ (sz[i] = sz[j] /\ i <= j)
<1> DEFINE V == {sz[i] : i \in near}
<1>1. PICK m \in V : \A v \in V : m <= v
  <2>1. V \subseteq Nat /\ V # {}
    OBVIOUS
  <2> HIDE DEF V
  <2> QED
    BY <2>1, LeastNatural
<1> DEFINE W == {i \in near : sz[i] = m}
<1>2. PICK i \in W : \A j \in W : i <= j
  <2>1. W \subseteq Nat /\ W # {}
    BY <1>1
  <2> HIDE DEF W
  <2> QED
    BY <2>1, LeastNatural
<1>3. ASSUME NEW j \in near PROVE sz[i] < sz[j] \/ (sz[i] = sz[j] /\ i <= j)
  <2>1. sz[i] = m /\ m <= sz[j] /\ sz[j] \in Nat /\ m \in Nat
    BY <1>1, <1>2
  <2>2. sz[j] = m => i <= j
    BY <1>2
  <2> QED
    BY <2>1, <2>2
<1> QED
  BY <1>2, <1>3

\* find_block returns a free block that is large enough, if there is one.
LEMMA FindBlock ==
  ASSUME NEW b, NEW F, NEW n \in Nat, NEW fl \in [1 .. n -> F], FreeList(b) = fl, 0 \notin F,
         \A x \in F : (\E i \in 1 .. n : fl[i] = x) /\ b[x].size \in Nat, NEW r \in Nat
  PROVE /\ find_block(b, r) # 0 => find_block(b, r) \in F /\ b[find_block(b, r)].size >= r
        /\ find_block(b, r) = 0 => \A x \in F : b[x].size < r
<1> DEFINE fits == {i \in DOMAIN fl : b[fl[i]].size >= r}
           near == {i \in fits : i <= Min(fits) + BEST_FIT_LIMIT}
           Best(i) == \A j \in near : \/ b[fl[i]].size < b[fl[j]].size
                                      \/ b[fl[i]].size = b[fl[j]].size /\ i <= j
           best == CHOOSE i \in near : Best(i)
<1>1. find_block(b, r) = IF fits = {} THEN 0 ELSE fl[best]
  BY DEF find_block
<1>2. CASE fits = {}
  <2>1. \A x \in F : b[x].size < r
    <3> TAKE x \in F
    <3>1. PICK i \in 1 .. n : fl[i] = x
      OBVIOUS
    <3>2. ~(b[fl[i]].size >= r)
      BY <1>2
    <3> QED
      BY <3>1, <3>2
  <2> HIDE DEF fits, best
  <2> QED
    BY <1>1, <1>2, <2>1
<1>3. CASE fits # {}
  <2>1. fits \subseteq 1 .. n /\ fits \subseteq Nat
    OBVIOUS
  <2>2. Min(fits) \in fits /\ \A y \in fits : Min(fits) <= y
    <3> HIDE DEF fits
    <3>1. \E x \in fits : \A y \in fits : x <= y
      BY <1>3, <2>1, LeastNatural
    <3> QED
      BY <3>1 DEF Min
  <2> DEFINE m == Min(fits)
  <2>3. m \in near
    <3> HIDE DEF m
    <3>1. m \in Nat
      BY <2>1, <2>2 DEF m
    <3> QED
      BY <2>2, <3>1 DEF m, BEST_FIT_LIMIT
  <2> DEFINE sz == [i \in near |-> b[fl[i]].size]
  <2>4. near \subseteq fits
    OBVIOUS
  <2>5. near \subseteq Nat /\ near # {} /\ near \subseteq 1 .. n
    BY <2>1, <2>3, <2>4
  <2>6. sz \in [near -> Nat]
    <3> HIDE DEF near
    <3> QED
      BY <2>5
  <2>7. \E i \in near : \A j \in near : sz[i] < sz[j] \/ (sz[i] = sz[j] /\ i <= j)
    <3> HIDE DEF near, sz
    <3> QED
      BY <2>5, <2>6, BestFit
  <2>8. \E i \in near : Best(i)
    <3> HIDE DEF near
    <3> QED
      BY <2>7
  <2>9. best \in near
    <3> HIDE DEF near, Best
    <3> QED
      BY <2>8
  <2>10. best \in 1 .. n /\ b[fl[best]].size >= r
    <3> HIDE DEF best
    <3> QED
      BY <2>9
  <2> HIDE DEF best, fits
  <2> QED
    BY <1>1, <1>3, <2>10
<1> QED
  BY <1>2, <1>3

\* Where the links of the list lead.
LEMMA LinkFacts ==
  ASSUME NEW b, NEW F, NEW t, Listed(b, F, t)
  PROVE /\ First \notin F /\ Last \notin F
        /\ b[First].fnext \in F \cup {Last}
        /\ b[b[First].fnext].fprev = First
        /\ \A o \in F : /\ b[o].fprev \in F \cup {First} /\ b[o].fnext \in F \cup {Last}
                        /\ b[o].fprev # o /\ b[o].fnext # o /\ b[o].fprev # b[o].fnext
                        /\ b[b[o].fprev].fnext = o /\ b[b[o].fnext].fprev = o
<1>p. PICK n \in Nat : \E path, s : IsPath(b, F, n, path)
  BY DEF Listed
<1>1. PICK path, s : IsPath(b, F, n, path)
  BY <1>p
<1>2. ASSUME NEW o \in F
      PROVE /\ o # First /\ o # Last
            /\ b[o].fprev \in F \cup {First} /\ b[o].fnext \in F \cup {Last}
            /\ b[o].fprev # o /\ b[o].fnext # o /\ b[o].fprev # b[o].fnext
            /\ b[b[o].fprev].fnext = o /\ b[b[o].fnext].fprev = o
  <2>1. PICK j \in 1 .. n : path[j] = o
    BY <1>1 DEF IsPath
  <2>2. /\ j \in 0 .. n /\ j - 1 \in 0 .. n /\ (j - 1) + 1 = j /\ 0 \in 0 .. n + 1 /\ n + 1 \in 0 .. n + 1
        /\ j \in 0 .. n + 1 /\ j - 1 \in 0 .. n + 1 /\ j + 1 \in 0 .. n + 1
        /\ j # j - 1 /\ j # j + 1 /\ j - 1 # j + 1 /\ j # 0 /\ j # n + 1
    OBVIOUS
  <2>3. b[o].fnext = path[j + 1] /\ b[o].fprev = path[j - 1]
    BY <1>1, <2>1, <2>2 DEF IsPath
  <2>4. path[j - 1] \in F \cup {First}
    <3>1. j - 1 = 0 \/ j - 1 \in 1 .. n
      OBVIOUS
    <3> QED
      BY <1>1, <3>1 DEF IsPath
  <2>5. path[j + 1] \in F \cup {Last}
    <3>1. j + 1 = n + 1 \/ j + 1 \in 1 .. n
      OBVIOUS
    <3> QED
      BY <1>1, <3>1 DEF IsPath
  <2>6. path[j - 1] # o /\ path[j + 1] # o /\ path[j - 1] # path[j + 1] /\ o # First /\ o # Last
    BY <1>1, <2>1, <2>2 DEF IsPath
  <2>7. b[path[j - 1]].fnext = o /\ b[path[j + 1]].fprev = o
    BY <1>1, <2>1, <2>2 DEF IsPath
  <2> QED
    BY <2>3, <2>4, <2>5, <2>6, <2>7
<1>3. b[First].fnext \in F \cup {Last} /\ b[b[First].fnext].fprev = First
  <2>1. 0 \in 0 .. n /\ 0 + 1 = 1
    OBVIOUS
  <2>2. b[First].fnext = path[1] /\ b[path[1]].fprev = First
    BY <1>1, <2>1 DEF IsPath
  <2>3. 1 = n + 1 \/ 1 \in 1 .. n
    OBVIOUS
  <2> QED
    BY <1>1, <2>2, <2>3 DEF IsPath
<1> QED
  BY <1>2, <1>3

\* A block is taken out of the list.
LEMMA RemoveBlock ==
  ASSUME NEW b, NEW F, NEW t \in Int, Listed(b, F, t), NEW o \in F, NEW c,
         c[b[o].fprev].fnext = b[o].fnext, c[b[o].fnext].fprev = b[o].fprev,
         \A x \in F \cup {First} : x \notin {o, b[o].fprev} => c[x].fnext = b[x].fnext,
         \A x \in F \cup {Last} : x \notin {o, b[o].fnext} => c[x].fprev = b[x].fprev,
         \A x \in F \ {o} : c[x].size = b[x].size,
         \A x \in F : b[x].size \in Int
  PROVE Listed(c, F \ {o}, t - b[o].size)
<1>p. PICK n \in Nat : \E path, s : IsPath(b, F, n, path) /\ IsSums(b, n, path, s) /\ s[n] = t
  BY DEF Listed
<1>1. PICK path, s : IsPath(b, F, n, path) /\ IsSums(b, n, path, s) /\ s[n] = t
  BY <1>p
<1>2. PICK j \in 1 .. n : path[j] = o
  BY <1>1 DEF IsPath
<1>3. n - 1 \in Nat /\ (n - 1) + 1 = n
  BY <1>2
<1> DEFINE q == [i \in 0 .. n |-> IF i < j THEN path[i] ELSE path[i + 1]]
           u == [i \in 0 .. n - 1 |-> IF i < j THEN s[i] ELSE s[i + 1] - b[o].size]
<1>4. IsPath(c, F \ {o}, n - 1, q)
  <2>1. \A i \in 0 .. n : i \in 0 .. n + 1 /\ i + 1 \in 0 .. n + 1
    OBVIOUS
  <2>2. j \in 0 .. n + 1 /\ 0 \in 0 .. n /\ 0 < j /\ ~(n < j) /\ n \in 0 .. n
    BY <1>2
  <2>3. q \in [0 .. (n - 1) + 1 -> Int]
    BY <1>1, <1>3, <2>1 DEF IsPath
  <2>4. q[0] = First /\ q[(n - 1) + 1] = Last
    BY <1>1, <1>3, <2>2 DEF IsPath
  <2>5. \A i \in 0 .. n : q[i] # o
    <3> TAKE i \in 0 .. n
    <3>1. i < j => q[i] = path[i] /\ i # j
      OBVIOUS
    <3>2. ~(i < j) => q[i] = path[i + 1] /\ i + 1 # j
      OBVIOUS
    <3> QED
      BY <1>1, <1>2, <2>1, <2>2, <3>1, <3>2 DEF IsPath
  <2>6. \A i, k \in 0 .. (n - 1) + 1 : q[i] = q[k] => i = k
    <3> SUFFICES ASSUME NEW i \in 0 .. n, NEW k \in 0 .. n, q[i] = q[k] PROVE i = k
      BY <1>3
    <3>1. PICK a \in 0 .. n + 1 : q[i] = path[a] /\ a = IF i < j THEN i ELSE i + 1
      BY <2>1
    <3>2. PICK d \in 0 .. n + 1 : q[k] = path[d] /\ d = IF k < j THEN k ELSE k + 1
      BY <2>1
    <3>3. a = d
      BY <1>1, <3>1, <3>2 DEF IsPath
    <3> HIDE DEF q
    <3> QED
      BY <3>1, <3>2, <3>3
  <2>7. \A i \in 1 .. n - 1 : q[i] \in F \ {o}
    <3> TAKE i \in 1 .. n - 1
    <3>1. i \in 0 .. n /\ i \in 1 .. n /\ i + 1 \in 1 .. n
      OBVIOUS
    <3>2. q[i] \in F
      BY <1>1, <3>1 DEF IsPath
    <3> QED
      BY <2>5, <3>1, <3>2
  <2>8. \A x \in F \ {o} : \E i \in 1 .. n - 1 : q[i] = x
    <3> TAKE x \in F \ {o}
    <3>1. PICK i \in 1 .. n : path[i] = x
      BY <1>1 DEF IsPath
    <3>2. i # j
      BY <1>2, <3>1
    <3>3. CASE i < j
      <4>1. i \in 1 .. n - 1 /\ i \in 0 .. n /\ q[i] = x
        BY <1>2, <3>1, <3>3
      <4> QED
        BY <4>1
    <3>4. CASE i > j
      <4>1. i - 1 \in 1 .. n - 1 /\ i - 1 \in 0 .. n /\ ~(i - 1 < j) /\ (i - 1) + 1 = i
        BY <1>2, <3>1, <3>4
      <4>2. q[i - 1] = x
        BY <3>1, <4>1
      <4> QED
        BY <4>1, <4>2
    <3>5. i < j \/ i > j
      BY <3>2
    <3> HIDE DEF q
    <3> QED
      BY <3>3, <3>4, <3>5
  <2>9. b[o].fprev = path[j - 1] /\ b[o].fnext = path[j + 1]
    <3>1. j \in 0 .. n /\ j - 1 \in 0 .. n /\ (j - 1) + 1 = j
      OBVIOUS
    <3> QED
      BY <1>1, <1>2, <3>1 DEF IsPath
  <2>10. ASSUME NEW i \in 0 .. n - 1
         PROVE c[q[i]].fnext = q[i + 1] /\ c[q[i + 1]].fprev = q[i]
    <3>1. i \in 0 .. n /\ i + 1 \in 0 .. n /\ i \in 0 .. n + 1 /\ i + 1 \in 0 .. n + 1 /\ (i + 1) + 1 \in 0 .. n + 1
      OBVIOUS
    <3>2. j - 1 \in 0 .. n + 1 /\ j + 1 \in 0 .. n + 1
      OBVIOUS
    <3>3. CASE i + 1 = j
      <4>1. q[i] = path[j - 1] /\ q[i + 1] = path[j + 1]
        BY <3>1, <3>3
      <4> QED
        BY <2>9, <4>1
    <3>4. CASE i + 1 # j
      <4>1. PICK a \in 0 .. n : q[i] = path[a] /\ q[i + 1] = path[a + 1] /\ a \notin {j, j - 1}
        <5>1. CASE i < j
          <6>1. i + 1 < j
            BY <3>4, <5>1
          <6> QED
            BY <3>1, <5>1, <6>1
        <5>2. CASE ~(i < j)
          <6>1. ~(i + 1 < j) /\ i + 1 \notin {j, j - 1}
            BY <5>2
          <6> QED
            BY <3>1, <5>2, <6>1
        <5> QED
          BY <5>1, <5>2
      <4>2. a \in 0 .. n + 1 /\ a + 1 \in 0 .. n + 1 /\ a + 1 # j /\ a + 1 # j + 1
        BY <4>1
      <4>3. path[a] \notin {o, path[j - 1]} /\ path[a + 1] \notin {o, path[j + 1]}
        BY <1>1, <1>2, <2>2, <3>2, <4>1, <4>2 DEF IsPath
      <4>4. path[a] \in F \cup {First} /\ path[a + 1] \in F \cup {Last}
        <5>1. a = 0 \/ a \in 1 .. n
          OBVIOUS
        <5>2. a + 1 = n + 1 \/ a + 1 \in 1 .. n
          OBVIOUS
        <5> QED
          BY <1>1, <5>1, <5>2 DEF IsPath
      <4>5. c[path[a]].fnext = b[path[a]].fnext /\ c[path[a + 1]].fprev = b[path[a + 1]].fprev
        BY <2>9, <4>3, <4>4
      <4> QED
        BY <1>1, <4>1, <4>5 DEF IsPath
    <3> QED
      BY <3>3, <3>4
  <2> HIDE DEF q
  <2> QED
    BY <2>3, <2>4, <2>6, <2>7, <2>8, <2>10 DEF IsPath
<1>5. IsSums(c, n - 1, q, u) /\ u[n - 1] = t - b[o].size
  <2>1. \A i \in 0 .. n - 1 : i \in 0 .. n /\ i + 1 \in 0 .. n
    OBVIOUS
  <2>2. b[o].size \in Int /\ s \in [0 .. n -> Int] /\ s[0] = 0
    BY <1>1 DEF IsSums
  <2>3. u \in [0 .. n - 1 -> Int] /\ u[0] = 0
    <3>1. 0 \in 0 .. n - 1 /\ 0 < j
      BY <1>3
    <3> QED
      BY <2>1, <2>2, <3>1
  <2>4. s[j] = s[j - 1] + b[o].size
    BY <1>1, <1>2 DEF IsSums
  <2>5. ASSUME NEW i \in 1 .. n - 1 PROVE u[i] = u[i - 1] + c[q[i]].size
    <3>1. i \in 0 .. n - 1 /\ i - 1 \in 0 .. n - 1 /\ i \in 0 .. n /\ i \in 1 .. n /\ i + 1 \in 1 .. n /\ (i + 1) - 1 = i /\ (i - 1) + 1 = i
      OBVIOUS
    <3>2. s[i] = s[i - 1] + b[path[i]].size /\ s[i + 1] = s[i] + b[path[i + 1]].size
      BY <1>1, <3>1 DEF IsSums
    <3>3. q[i] \in F \ {o}
      <4>1. i \in 1 .. (n - 1)
        OBVIOUS
      <4> HIDE DEF q
      <4> QED
        BY <1>4, <4>1 DEF IsPath
    <3>4. c[q[i]].size = b[q[i]].size /\ b[q[i]].size \in Int
      BY <3>3
    <3>5. s[i] \in Int /\ s[i - 1] \in Int /\ s[i + 1] \in Int
      BY <2>2, <3>1
    <3>6. CASE i < j
      <4>1. u[i] = s[i] /\ u[i - 1] = s[i - 1] /\ q[i] = path[i]
        BY <3>1, <3>6
      <4> QED
        BY <3>2, <3>4, <4>1
    <3>7. CASE i = j
      <4>1. u[i] = s[i + 1] - b[o].size /\ u[i - 1] = s[i - 1] /\ q[i] = path[i + 1]
        BY <3>1, <3>7
      <4>2. s[i + 1] = s[i - 1] + b[o].size + b[q[i]].size
        BY <2>2, <2>4, <3>2, <3>4, <3>5, <3>7, <4>1
      <4> HIDE DEF q, u
      <4>3. u[i] = s[i - 1] + b[q[i]].size
        <5> DEFINE x == s[i - 1]
                   v == b[o].size
                   w == b[q[i]].size
        <5>1. u[i] = (x + v + w) - v
          BY <4>1, <4>2
        <5>2. x \in Int /\ v \in Int /\ w \in Int
          BY <2>2, <3>4, <3>5
        <5> HIDE DEF x, v, w
        <5>3. (x + v + w) - v = x + w
          BY <5>2
        <5> QED
          BY <5>1, <5>3 DEF x, w
      <4> QED
        BY <3>4, <4>1, <4>3
    <3>8. CASE i > j
      <4>1. u[i] = s[i + 1] - b[o].size /\ u[i - 1] = s[i] - b[o].size /\ q[i] = path[i + 1]
        BY <3>1, <3>8
      <4> HIDE DEF q, u
      <4>2. s[i + 1] = s[i] + b[q[i]].size
        BY <3>2, <4>1
      <4>3. u[i] = u[i - 1] + b[q[i]].size
        BY <2>2, <3>4, <3>5, <4>1, <4>2
      <4> QED
        BY <3>4, <4>3
    <3> QED
      BY <3>6, <3>7, <3>8
  <2>6. u[n - 1] = t - b[o].size
    <3>1. n - 1 \in 0 .. n - 1 /\ (n - 1) + 1 = n
      BY <1>3
    <3>2. CASE n - 1 < j
      <4>1. n = j
        BY <3>2
      <4>2. u[n - 1] = s[n - 1]
        BY <3>1, <3>2
      <4>3. s[n - 1] \in Int
        BY <2>2, <3>1
      <4> QED
        BY <1>1, <2>2, <2>4, <4>1, <4>2, <4>3
    <3>3. CASE ~(n - 1 < j)
      BY <1>1, <3>1, <3>3
    <3> QED
      BY <3>2, <3>3
  <2> HIDE DEF q, u
  <2> QED
    BY <2>3, <2>5, <2>6 DEF IsSums
<1> HIDE DEF q, u
<1> QED
  BY <1>3, <1>4, <1>5 DEF Listed

\* A block takes the place of another in the list.
LEMMA ReplaceBlock ==
  ASSUME NEW b, NEW F, NEW t \in Int, Listed(b, F, t), NEW o \in F, NEW c,
         NEW y \in Int, y \notin F, y # First, y # Last,
         c[y].fnext = b[o].fnext, c[y].fprev = b[o].fprev,
         c[b[o].fprev].fnext = y, c[b[o].fnext].fprev = y,
         \A x \in F \cup {First} : x \notin {o, b[o].fprev} => c[x].fnext = b[x].fnext,
         \A x \in F \cup {Last} : x \notin {o, b[o].fnext} => c[x].fprev = b[x].fprev,
         \A x \in F \ {o} : c[x].size = b[x].size,
         \A x \in F : b[x].size \in Int, c[y].size \in Int
  PROVE Listed(c, (F \ {o}) \cup {y}, t - b[o].size + c[y].size)
<1>p. PICK n \in Nat : \E path, s : IsPath(b, F, n, path) /\ IsSums(b, n, path, s) /\ s[n] = t
  BY DEF Listed
<1>1. PICK path, s : IsPath(b, F, n, path) /\ IsSums(b, n, path, s) /\ s[n] = t
  BY <1>p
<1>2. PICK j \in 1 .. n : path[j] = o
  BY <1>1 DEF IsPath
<1> DEFINE d == c[y].size - b[o].size
           q == [i \in 0 .. n + 1 |-> IF i = j THEN y ELSE path[i]]
           u == [i \in 0 .. n |-> IF i < j THEN s[i] ELSE s[i] + d]
<1>3. \A i \in 0 .. n + 1 : path[i] # y
  <2> TAKE i \in 0 .. n + 1
  <2>1. i = 0 \/ i = n + 1 \/ i \in 1 .. n
    OBVIOUS
  <2> QED
    BY <1>1, <2>1 DEF IsPath
<1>4. IsPath(c, (F \ {o}) \cup {y}, n, q)
  <2>1. j \in 0 .. n + 1 /\ 0 \in 0 .. n + 1 /\ n + 1 \in 0 .. n + 1 /\ j # 0 /\ j # n + 1
    BY <1>2
  <2>2. q \in [0 .. n + 1 -> Int] /\ q[0] = First /\ q[n + 1] = Last
    BY <1>1, <2>1 DEF IsPath
  <2>3. \A i, k \in 0 .. n + 1 : q[i] = q[k] => i = k
    BY <1>1, <1>3 DEF IsPath
  <2>4. \A i \in 1 .. n : q[i] \in (F \ {o}) \cup {y}
    <3> TAKE i \in 1 .. n
    <3>1. i \in 0 .. n + 1
      OBVIOUS
    <3> QED
      BY <1>1, <1>2, <2>1, <3>1 DEF IsPath
  <2>5. \A x \in (F \ {o}) \cup {y} : \E i \in 1 .. n : q[i] = x
    <3> TAKE x \in (F \ {o}) \cup {y}
    <3>1. CASE x = y
      BY <1>2, <2>1, <3>1
    <3>2. CASE x # y
      <4>1. PICK i \in 1 .. n : path[i] = x
        BY <1>1, <3>2 DEF IsPath
      <4>2. i \in 0 .. n + 1 /\ i # j
        BY <1>2, <3>2, <4>1
      <4> QED
        BY <4>1, <4>2
    <3> QED
      BY <3>1, <3>2
  <2>6. b[o].fprev = path[j - 1] /\ b[o].fnext = path[j + 1]
    <3>1. j \in 0 .. n /\ j - 1 \in 0 .. n /\ (j - 1) + 1 = j
      OBVIOUS
    <3> QED
      BY <1>1, <1>2, <3>1 DEF IsPath
  <2>7. ASSUME NEW i \in 0 .. n
        PROVE c[q[i]].fnext = q[i + 1] /\ c[q[i + 1]].fprev = q[i]
    <3>1. /\ i \in 0 .. n + 1 /\ i + 1 \in 0 .. n + 1 /\ j - 1 \in 0 .. n + 1 /\ j + 1 \in 0 .. n + 1
          /\ j + 1 # j /\ j - 1 # j /\ i + 1 # i
      OBVIOUS
    <3>2. CASE i = j
      <4>1. q[i] = y /\ q[i + 1] = path[j + 1]
        BY <3>1, <3>2
      <4> HIDE DEF q
      <4> QED
        BY <2>6, <4>1
    <3>3. CASE i + 1 = j
      <4>1. q[i + 1] = y /\ q[i] = path[j - 1]
        BY <3>1, <3>3
      <4> HIDE DEF q
      <4> QED
        BY <2>6, <4>1
    <3>4. CASE i # j /\ i + 1 # j
      <4>1. q[i] = path[i] /\ q[i + 1] = path[i + 1]
        BY <3>1, <3>4
      <4>2. i # j - 1 /\ i + 1 # j + 1
        BY <3>4
      <4>3. path[i] \notin {o, path[j - 1]} /\ path[i + 1] \notin {o, path[j + 1]}
        BY <1>1, <1>2, <2>1, <3>1, <3>4, <4>2 DEF IsPath
      <4>4. path[i] \in F \cup {First} /\ path[i + 1] \in F \cup {Last}
        <5>1. i = 0 \/ i \in 1 .. n
          OBVIOUS
        <5>2. i + 1 = n + 1 \/ i + 1 \in 1 .. n
          OBVIOUS
        <5> QED
          BY <1>1, <5>1, <5>2 DEF IsPath
      <4>5. c[path[i]].fnext = b[path[i]].fnext /\ c[path[i + 1]].fprev = b[path[i + 1]].fprev
        BY <2>6, <4>3, <4>4
      <4> HIDE DEF q
      <4> QED
        BY <1>1, <4>1, <4>5 DEF IsPath
    <3> QED
      BY <3>2, <3>3, <3>4
  <2> HIDE DEF q
  <2> QED
    BY <2>2, <2>3, <2>4, <2>5, <2>7 DEF IsPath
<1>5. IsSums(c, n, q, u) /\ u[n] = t - b[o].size + c[y].size
  <2>1. b[o].size \in Int /\ d \in Int /\ s \in [0 .. n -> Int] /\ s[0] = 0
    BY <1>1 DEF IsSums
  <2>2. d = c[y].size - b[o].size
    OBVIOUS
  <2> HIDE DEF d
  <2>3. u \in [0 .. n -> Int] /\ u[0] = 0
    <3>1. 0 \in 0 .. n /\ 0 < j
      BY <1>2
    <3> QED
      BY <2>1, <3>1
  <2>4. ASSUME NEW i \in 1 .. n PROVE u[i] = u[i - 1] + c[q[i]].size
    <3>1. i \in 0 .. n /\ i - 1 \in 0 .. n /\ i \in 0 .. n + 1
      OBVIOUS
    <3>2. s[i] = s[i - 1] + b[path[i]].size /\ s[i] \in Int /\ s[i - 1] \in Int
      BY <1>1, <3>1 DEF IsSums
    <3>3. CASE i = j
      <4>1. u[i] = s[i] + d /\ u[i - 1] = s[i - 1] /\ q[i] = y /\ s[i] = s[i - 1] + b[o].size
        BY <1>2, <3>1, <3>2, <3>3
      <4> HIDE DEF q, u
      <4>2. u[i] = s[i - 1] + c[y].size
        BY <2>1, <2>2, <3>2, <4>1, SMTT(30)
      <4> QED
        BY <4>1, <4>2
    <3>4. CASE i # j
      <4>1. q[i] = path[i]
        BY <3>1, <3>4
      <4>0. j \in 0 .. n + 1
        BY <1>2
      <4>2. path[i] \in F /\ path[i] # o
        <5> HIDE DEF q, u
        <5> QED
          BY <1>1, <1>2, <3>1, <3>4, <4>0 DEF IsPath
      <4>3. c[q[i]].size = b[path[i]].size /\ b[path[i]].size \in Int
        BY <4>1, <4>2
      <4>4. \/ u[i] = s[i] /\ u[i - 1] = s[i - 1]
            \/ u[i] = s[i] + d /\ u[i - 1] = s[i - 1] + d
        BY <3>1, <3>4
      <4> HIDE DEF q, u
      <4>5. u[i] = u[i - 1] + b[path[i]].size
        BY <2>1, <3>2, <4>3, <4>4
      <4> QED
        BY <4>3, <4>5
    <3> QED
      BY <3>3, <3>4
  <2>5. u[n] = t + d
    <3>1. n \in 0 .. n /\ ~(n < j)
      OBVIOUS
    <3> QED
      BY <1>1, <3>1
  <2>6. u[n] = t - b[o].size + c[y].size
    <3> HIDE DEF u
    <3> QED
      BY <2>1, <2>2, <2>5
  <2> HIDE DEF q, u
  <2> QED
    BY <2>3, <2>4, <2>6 DEF IsSums
<1> HIDE DEF q, u
<1> QED
  BY <1>4, <1>5 DEF Listed

\* A block goes to the head of the list.
LEMMA InsertBlock ==
  ASSUME NEW b, NEW F, NEW t \in Int, Listed(b, F, t), NEW c,
         NEW y \in Int, y \notin F, y # First, y # Last,
         c[First].fnext = y, c[y].fnext = b[First].fnext,
         c[y].fprev = First, c[b[First].fnext].fprev = y,
         \A x \in F : c[x].fnext = b[x].fnext,
         \A x \in F \cup {Last} : x # b[First].fnext => c[x].fprev = b[x].fprev,
         \A x \in F : c[x].size = b[x].size /\ b[x].size \in Int, c[y].size \in Int
  PROVE Listed(c, F \cup {y}, t + c[y].size)
<1>p. PICK n \in Nat : \E path, s : IsPath(b, F, n, path) /\ IsSums(b, n, path, s) /\ s[n] = t
  BY DEF Listed
<1>1. PICK path, s : IsPath(b, F, n, path) /\ IsSums(b, n, path, s) /\ s[n] = t
  BY <1>p
<1> DEFINE z == c[y].size
           q == [i \in 0 .. (n + 1) + 1 |-> IF i = 0 THEN First ELSE IF i = 1 THEN y ELSE path[i - 1]]
           u == [i \in 0 .. n + 1 |-> IF i = 0 THEN 0 ELSE s[i - 1] + z]
<1>2. \A i \in 0 .. n + 1 : path[i] # y
  <2> TAKE i \in 0 .. n + 1
  <2>1. i = 0 \/ i = n + 1 \/ i \in 1 .. n
    OBVIOUS
  <2> QED
    BY <1>1, <2>1 DEF IsPath
<1>3. b[First].fnext = path[1]
  <2>1. 0 \in 0 .. n /\ 0 + 1 = 1
    OBVIOUS
  <2> QED
    BY <1>1, <2>1 DEF IsPath
<1>4. \A i \in 0 .. (n + 1) + 1 : i = 0 \/ i = 1 \/ (i - 1 \in 0 .. n + 1 /\ i - 1 # 0)
  OBVIOUS
<1>5. IsPath(c, F \cup {y}, n + 1, q)
  <2>1. q \in [0 .. (n + 1) + 1 -> Int]
    BY <1>1, <1>4, Layout DEF IsPath
  <2>2. q[0] = First /\ q[(n + 1) + 1] = Last
    BY <1>1 DEF IsPath
  <2>3. \A i, k \in 0 .. (n + 1) + 1 : q[i] = q[k] => i = k
    <3> SUFFICES ASSUME NEW i \in 0 .. (n + 1) + 1, NEW k \in 0 .. (n + 1) + 1, q[i] = q[k] PROVE i = k
      OBVIOUS
    <3>1. \A a \in 0 .. n + 1 : a # 0 => path[a] # First
      <4>1. 0 \in 0 .. n + 1
        OBVIOUS
      <4> QED
        BY <1>1, <4>1 DEF IsPath
    <3>2. i > 1 => q[i] = path[i - 1] /\ i - 1 \in 0 .. n + 1 /\ i - 1 # 0
      OBVIOUS
    <3>3. k > 1 => q[k] = path[k - 1] /\ k - 1 \in 0 .. n + 1 /\ k - 1 # 0
      OBVIOUS
    <3>4. /\ i = 0 => q[i] = First
          /\ i = 1 => q[i] = y
          /\ k = 0 => q[k] = First
          /\ k = 1 => q[k] = y
      OBVIOUS
    <3>5. i > 1 /\ k > 1 => i - 1 = k - 1
      BY <1>1, <3>2, <3>3 DEF IsPath
    <3> HIDE DEF q
    <3>6. i > 1 <=> k > 1
      BY <1>2, <3>1, <3>2, <3>3, <3>4
    <3>7. CASE i > 1
      BY <3>5, <3>6, <3>7
    <3>8. CASE ~(i > 1)
      BY <3>4, <3>6, <3>8
    <3> QED
      BY <3>7, <3>8
  <2>4. \A i \in 1 .. n + 1 : q[i] \in F \cup {y}
    <3> TAKE i \in 1 .. n + 1
    <3>1. i = 1 \/ i - 1 \in 1 .. n
      OBVIOUS
    <3>2. i \in 0 .. (n + 1) + 1 /\ i # 0
      OBVIOUS
    <3> QED
      BY <1>1, <3>1, <3>2 DEF IsPath
  <2>5. \A x \in F \cup {y} : \E i \in 1 .. n + 1 : q[i] = x
    <3> TAKE x \in F \cup {y}
    <3>1. CASE x = y
      <4>1. 1 \in 1 .. n + 1 /\ q[1] = y
        OBVIOUS
      <4> QED
        BY <3>1, <4>1
    <3>2. CASE x # y
      <4>1. PICK i \in 1 .. n : path[i] = x
        BY <1>1, <3>2 DEF IsPath
      <4>2. i + 1 \in 1 .. n + 1 /\ i + 1 \in 0 .. (n + 1) + 1 /\ i + 1 # 0 /\ i + 1 # 1 /\ (i + 1) - 1 = i
        OBVIOUS
      <4>3. q[i + 1] = x
        BY <4>1, <4>2
      <4> HIDE DEF q
      <4> QED
        BY <4>2, <4>3
    <3> QED
      BY <3>1, <3>2
  <2>6. ASSUME NEW i \in 0 .. n + 1
        PROVE c[q[i]].fnext = q[i + 1] /\ c[q[i + 1]].fprev = q[i]
    <3>1. i \in 0 .. (n + 1) + 1 /\ i + 1 \in 0 .. (n + 1) + 1
      OBVIOUS
    <3>2. CASE i = 0
      <4>1. q[i] = First /\ q[i + 1] = y
        BY <3>1, <3>2
      <4> HIDE DEF q
      <4> QED
        BY <4>1
    <3>3. CASE i = 1
      <4>1. q[i] = y /\ q[i + 1] = path[1]
        BY <3>1, <3>3
      <4> HIDE DEF q
      <4> QED
        BY <1>3, <4>1
    <3>4. CASE i > 1
      <4>1. i - 1 \in 1 .. n /\ (i - 1) + 1 = i /\ i \in 0 .. n + 1 /\ 1 \in 0 .. n + 1 /\ i # 1 /\ i - 1 \in 0 .. n
        BY <3>4
      <4>2. q[i] = path[i - 1] /\ q[i + 1] = path[i]
        BY <3>1, <3>4
      <4>3. path[i - 1] \in F /\ path[i] \in F \cup {Last} /\ path[i] # path[1]
        <5>1. i = n + 1 \/ i \in 1 .. n
          BY <4>1
        <5> QED
          BY <1>1, <4>1, <5>1 DEF IsPath
      <4>4. b[path[i - 1]].fnext = path[i] /\ b[path[i]].fprev = path[i - 1]
        BY <1>1, <4>1, SMTT(30) DEF IsPath
      <4> HIDE DEF q
      <4> QED
        BY <1>3, <4>2, <4>3, <4>4
    <3> QED
      BY <3>2, <3>3, <3>4
  <2> HIDE DEF q
  <2> QED
    BY <2>1, <2>2, <2>3, <2>4, <2>5, <2>6 DEF IsPath
<1>6. IsSums(c, n + 1, q, u) /\ u[n + 1] = t + c[y].size
  <2>1. z \in Int /\ s \in [0 .. n -> Int] /\ s[0] = 0 /\ z = c[y].size
    BY <1>1 DEF IsSums
  <2> HIDE DEF z
  <2>2. u \in [0 .. n + 1 -> Int] /\ u[0] = 0
    <3>1. \A i \in 0 .. n + 1 : i = 0 \/ i - 1 \in 0 .. n
      OBVIOUS
    <3> QED
      BY <2>1, <3>1
  <2>3. ASSUME NEW i \in 1 .. n + 1 PROVE u[i] = u[i - 1] + c[q[i]].size
    <3>1. i \in 0 .. n + 1 /\ i - 1 \in 0 .. n + 1 /\ i - 1 \in 0 .. n /\ i # 0 /\ i \in 0 .. (n + 1) + 1
      OBVIOUS
    <3>2. u[i] = s[i - 1] + z /\ s[i - 1] \in Int
      BY <2>1, <3>1
    <3>3. CASE i = 1
      <4>1. u[i - 1] = 0 /\ q[i] = y /\ i - 1 = 0
        BY <3>1, <3>3
      <4> HIDE DEF q, u
      <4> QED
        BY <2>1, <3>2, <4>1
    <3>4. CASE i # 1
      <4>1. i - 1 \in 1 .. n /\ (i - 1) - 1 \in 0 .. n /\ i - 1 # 0
        BY <3>4
      <4>2. u[i - 1] = s[(i - 1) - 1] + z /\ q[i] = path[i - 1]
        BY <3>1, <3>4, <4>1
      <4>3. s[i - 1] = s[(i - 1) - 1] + b[path[i - 1]].size /\ s[(i - 1) - 1] \in Int
        BY <1>1, <2>1, <4>1 DEF IsSums
      <4>4. path[i - 1] \in F
        BY <1>1, <4>1 DEF IsPath
      <4>5. c[path[i - 1]].size = b[path[i - 1]].size /\ b[path[i - 1]].size \in Int
        BY <4>4
      <4> HIDE DEF q, u
      <4>6. u[i] = u[i - 1] + b[path[i - 1]].size
        BY <2>1, <3>2, <4>2, <4>3, <4>5, SMTT(30)
      <4> QED
        BY <4>2, <4>5, <4>6
    <3> QED
      BY <3>3, <3>4
  <2>4. u[n + 1] = t + z
    <3>1. n + 1 \in 0 .. n + 1 /\ n + 1 # 0 /\ (n + 1) - 1 = n
      OBVIOUS
    <3> QED
      BY <1>1, <3>1
  <2> HIDE DEF q, u
  <2> QED
    BY <2>1, <2>2, <2>3, <2>4 DEF IsSums
<1>7. n + 1 \in Nat
  OBVIOUS
<1> HIDE DEF q, u
<1> QED
  BY <1>5, <1>6, <1>7 DEF Listed

-----------------------------------------------------------------------------
(* The blocks of a segment.                                                  *)

\* Headers lie at word boundaries, except that a segment of any number of bytes
\* has its last sentinel anywhere.
Placed(x) == Aligned(x) \/ x = Last

\* Blocks tile the segment between the sentinels.
Shape(b) ==
  /\ b \in [DOMAIN b -> Header] /\ {First, Empty, Last} \subseteq DOMAIN b
  /\ \A x \in DOMAIN b : x \in Int /\ Placed(x) /\ (x = First \/ (Empty <= x /\ x <= Last))
  /\ b[First].size = 0 /\ b[First].prev = 0 /\ b[First].fprev = 0
  /\ b[Last].size = 0 /\ b[Last].fnext = 0 /\ b[Empty].prev = 0
  /\ \A o \in Bl(b) :
       /\ b[o].size >= MINBLOCKSIZE /\ o + b[o].size \in Bl(b) \cup {Last}
       /\ \A x \in DOMAIN b : x <= o \/ o + b[o].size <= x

\* A block knows whether the block before it is free; free blocks are not
\* neighbours; an allocated block is not in the list.
Tagged(b) ==
  \A o \in Bl(b) :
    /\ b[o + b[o].size].prev = IF o \in Frees(b) THEN b[o].size ELSE 0
    /\ o \in Frees(b) => o + b[o].size \notin Frees(b)

\* How many bytes before an offset are free: t in all, and never more than there
\* are bytes.
IsBelow(b, t, f) ==
  /\ f \in [DOMAIN b -> Int] /\ f[Empty] = 0 /\ f[Last] = t
  /\ \A o \in Bl(b) : f[o + b[o].size] = f[o] + (IF o \in Frees(b) THEN b[o].size ELSE 0)
  /\ \A x, y \in DOMAIN b \ {First} : x <= y => 0 <= f[y] - f[x] /\ f[y] - f[x] <= y - x
Below(b, t) == \E f : IsBelow(b, t, f)

\* The back link of an allocated block is forgotten.
Forgotten(b) == \A x \in Bl(b) \ Frees(b) : b[x].fprev = 0

\* A segment between two calls.
SegmentOK(b, a) ==
  /\ Shape(b) /\ Tagged(b) /\ Forgotten(b) /\ a \in Int
  /\ Listed(b, Frees(b), a - Hdr) /\ Below(b, a - Hdr)

\* A tiled segment has finitely many blocks, which lie between the sentinels.
LEMMA ShapeFacts ==
  ASSUME NEW b, Shape(b)
  PROVE /\ IsFiniteSet(DOMAIN b) /\ 0 \notin DOMAIN b /\ DOMAIN b \subseteq Nat
        /\ \A x \in DOMAIN b : /\ b[x].size \in Int /\ b[x].prev \in Int /\ b[x].fnext \in Int /\ b[x].fprev \in Int
                               /\ x \in Nat /\ First <= x /\ x <= Last
        /\ Empty \in Bl(b)
        /\ \A o \in Bl(b) : /\ Empty <= o /\ o < Last /\ b[o].size \in Nat /\ b[o].size > 0
                            /\ o + b[o].size \in DOMAIN b /\ o + b[o].size <= Last
                            /\ o + b[o].size # First /\ o + b[o].size # o
<1>1. \A x \in DOMAIN b : /\ b[x].size \in Int /\ b[x].prev \in Int /\ b[x].fnext \in Int /\ b[x].fprev \in Int
                          /\ x \in Nat /\ First <= x /\ x <= Last /\ x # 0
  <2> TAKE x \in DOMAIN b
  <2>1. b[x] \in Header
    BY DEF Shape
  <2>2. x \in Int /\ (x = First \/ (Empty <= x /\ x <= Last))
    BY DEF Shape
  <2> QED
    BY <2>1, <2>2, Layout DEF Header
<1>2. IsFiniteSet(DOMAIN b)
  <2>1. DOMAIN b \in SUBSET Nat /\ Last \in Nat /\ \A x \in DOMAIN b : x <= Last
    BY <1>1, Layout
  <2> QED
    BY <2>1, FS_BoundedSetOfNaturals
<1>3. Empty \in Bl(b)
  BY Layout DEF Shape, Bl
<1>4. ASSUME NEW o \in Bl(b)
      PROVE /\ Empty <= o /\ o < Last /\ b[o].size \in Nat /\ b[o].size > 0
            /\ o + b[o].size \in DOMAIN b /\ o + b[o].size <= Last
            /\ o + b[o].size # First /\ o + b[o].size # o
  <2>1. o \in DOMAIN b /\ o # First /\ o # Last
    BY DEF Bl
  <2>2. o \in Int /\ Empty <= o /\ o < Last /\ b[o].size \in Int /\ b[o].size >= MINBLOCKSIZE
    BY <1>1, <2>1, Layout DEF Shape
  <2>3. o + b[o].size \in Bl(b) \cup {Last}
    BY DEF Shape
  <2>4. o + b[o].size \in DOMAIN b
    BY <2>3 DEF Bl, Shape
  <2> QED
    BY <1>1, <2>2, <2>4, Layout
<1> QED
  BY <1>1, <1>2, <1>3, <1>4

\* Every block but the first has a block that ends where it begins: blocks go
\* on from one to the next, so the largest start before it is that block.
LEMMA Predecessor ==
  ASSUME NEW b, Shape(b), NEW x \in DOMAIN b, x # First, x # Empty
  PROVE \E o \in Bl(b) : o + b[o].size = x
<1> DEFINE T == {d \in Nat : x - d \in Bl(b) /\ d > 0}
<1>1. T \subseteq Nat /\ T # {}
  <2>1. x \in Nat /\ x > Empty /\ Empty \in Nat
    BY ShapeFacts, Layout DEF Shape
  <2>2. x - Empty \in Nat /\ x - Empty > 0 /\ x - (x - Empty) = Empty
    BY <2>1
  <2> QED
    BY <2>2, ShapeFacts
<1>2. PICK d \in T : \A e \in T : d <= e
  <2> HIDE DEF T
  <2> QED
    BY <1>1, LeastNatural
<1> DEFINE o == x - d
<1>3. o \in Bl(b) /\ o < x /\ o \in Nat /\ x \in Nat /\ x <= Last /\ d = x - o
  <2>1. d \in Nat /\ d > 0 /\ x - d \in Bl(b)
    OBVIOUS
  <2>2. x \in Nat /\ x <= Last /\ x - d \in Nat
    BY <2>1, ShapeFacts DEF Bl
  <2> QED
    BY <2>1, <2>2
<1> HIDE DEF o
<1>4. /\ o + b[o].size <= x /\ o + b[o].size \in Bl(b) \cup {Last}
      /\ o + b[o].size \in Nat /\ o + b[o].size > o
  <2>1. x <= o \/ o + b[o].size <= x
    BY <1>3 DEF Shape
  <2> QED
    BY <1>3, <2>1, ShapeFacts DEF Shape
<1>5. ASSUME o + b[o].size # x PROVE FALSE
  <2> DEFINE e == o + b[o].size
  <2>1. e \in Nat /\ e > o /\ e < x /\ e \in Bl(b) \cup {Last}
    BY <1>3, <1>4, <1>5
  <2> HIDE DEF e
  <2>2. e \in Bl(b)
    BY <1>3, <2>1, Layout
  <2>3. x - e \in Nat /\ x - e > 0 /\ x - (x - e) = e /\ x - e < d
    BY <1>3, <2>1
  <2>4. x - e \in T
    BY <2>2, <2>3
  <2> HIDE DEF T
  <2>5. d <= x - e
    BY <1>2, <2>4
  <2> QED
    BY <1>3, <2>3, <2>5
<1> QED
  BY <1>3, <1>5

-----------------------------------------------------------------------------
(* What freeing and taking do to the blocks, their links aside.              *)

\* In c the blocks of b from lo to hi are one free block.
Merged(b, c, lo, hi) ==
  /\ c \in [DOMAIN c -> Header] /\ c[First].fprev = 0 /\ c[Last].fnext = 0
  /\ DOMAIN c = {x \in DOMAIN b : x <= lo \/ hi <= x}
  /\ c[lo].size = hi - lo /\ \A x \in DOMAIN c \ {lo} : c[x].size = b[x].size
  /\ c[hi].prev = hi - lo /\ \A x \in DOMAIN c \ {hi} : c[x].prev = b[x].prev
  /\ \A x \in Bl(c) : x \in Frees(c) <=> x \in Frees(b) \/ x = lo

\* In c the first r bytes of block o of b are allocated, the rest is free.
TakenFrom(b, c, o, r) ==
  LET e == o + b[o].size IN
  /\ c \in [DOMAIN c -> Header] /\ c[First].fprev = 0 /\ c[Last].fnext = 0
  /\ DOMAIN c = DOMAIN b \cup {o + r}
  /\ c[o].size = r /\ \A x \in DOMAIN b \ {o} : c[x].size = b[x].size
  /\ r < b[o].size => c[o + r].size = b[o].size - r /\ c[o + r].prev = 0
  /\ c[e].prev = b[o].size - r /\ \A x \in DOMAIN b \ {e} : c[x].prev = b[x].prev
  /\ \A x \in Bl(c) : x \in Frees(c) <=> (x \in Frees(b) /\ x # o) \/ (r < b[o].size /\ x = o + r)

\* Merging keeps a segment tiled and tagged.
LEMMA MergedShape ==
  ASSUME NEW b, NEW c, NEW lo \in Bl(b), NEW hi \in Bl(b) \cup {Last},
         Shape(b), Tagged(b), Merged(b, c, lo, hi),
         lo + MINBLOCKSIZE <= hi, b[lo].prev = 0, hi \notin Frees(b)
  PROVE Shape(c) /\ Tagged(c)
<1> DEFINE D == DOMAIN b
           C == DOMAIN c
<1>1. /\ lo \in D /\ hi \in D /\ lo \in Nat /\ hi \in Nat /\ lo < hi /\ hi <= Last /\ Empty <= lo
      /\ lo # First /\ lo # Last /\ hi # First
  BY ShapeFacts, Layout DEF Bl, Shape
<1>2. /\ \A x \in C : x \in D /\ (x <= lo \/ hi <= x)
      /\ \A x \in D : x <= lo \/ hi <= x => x \in C
  BY DEF Merged
<1>3. {First, Empty, Last, lo, hi} \subseteq C
  BY <1>1, <1>2, Layout DEF Shape
<1>4. ASSUME NEW o \in Bl(c), o # lo
      PROVE /\ o \in Bl(b) /\ c[o].size = b[o].size /\ o + b[o].size \in C /\ o + b[o].size # hi
            /\ o + b[o].size = lo \/ o + b[o].size # lo
            /\ o < lo \/ o + b[o].size > hi
            /\ o \in Nat
  <2>1. o \in Bl(b) /\ o \in C /\ o \in Nat /\ c[o].size = b[o].size
    BY <1>2, <1>4, ShapeFacts DEF Bl, Merged
  <2>2. o < lo \/ hi <= o
    BY <1>1, <1>2, <1>4, <2>1
  <2>3. o + b[o].size \in D /\ b[o].size \in Nat /\ b[o].size > 0
    BY <2>1, ShapeFacts
  <2>4. o < lo => o + b[o].size <= lo
    BY <1>1, <2>1 DEF Shape
  <2> QED
    BY <1>1, <1>2, <2>1, <2>2, <2>3, <2>4
<1>5. Shape(c)
  <2>1. c \in [C -> Header] /\ c[First].fprev = 0 /\ c[Last].fnext = 0
    BY DEF Merged
  <2>2. \A x \in C : x \in Int /\ Placed(x) /\ (x = First \/ (Empty <= x /\ x <= Last))
    BY <1>2 DEF Shape
  <2>3. c[First].size = 0 /\ c[First].prev = 0 /\ c[Last].size = 0 /\ c[Empty].prev = 0
    <3>1. First # lo /\ Last # lo /\ First # hi /\ Empty # hi
      BY <1>1, Layout
    <3> QED
      BY <1>3, <3>1 DEF Merged, Shape
  <2>4. ASSUME NEW o \in Bl(c)
        PROVE /\ c[o].size >= MINBLOCKSIZE /\ o + c[o].size \in Bl(c) \cup {Last}
              /\ \A x \in C : x <= o \/ o + c[o].size <= x
    <3>1. CASE o = lo
      <4>1. c[o].size = hi - lo /\ o + c[o].size = hi
        BY <1>1, <3>1 DEF Merged
      <4>2. hi \in Bl(c) \cup {Last}
        BY <1>1, <1>3 DEF Bl
      <4> QED
        BY <1>1, <1>2, <3>1, <4>1, <4>2, Layout
    <3>2. CASE o # lo
      <4>1. o \in Bl(b) /\ c[o].size = b[o].size /\ o + b[o].size \in C
        BY <1>4, <3>2
      <4>2. o + b[o].size # First
        BY <4>1, ShapeFacts
      <4>3. b[o].size >= MINBLOCKSIZE /\ \A x \in D : x <= o \/ o + b[o].size <= x
        BY <4>1 DEF Shape
      <4> QED
        BY <1>2, <4>1, <4>2, <4>3 DEF Bl
    <3> QED
      BY <3>1, <3>2
  <2> QED
    BY <1>3, <2>1, <2>2, <2>3, <2>4 DEF Shape
<1>6. Tagged(c)
  <2> SUFFICES ASSUME NEW o \in Bl(c)
               PROVE /\ c[o + c[o].size].prev = IF o \in Frees(c) THEN c[o].size ELSE 0
                     /\ o \in Frees(c) => o + c[o].size \notin Frees(c)
    BY DEF Tagged
  <2>1. CASE o = lo
    <3>1. c[o].size = hi - lo /\ o + c[o].size = hi
      BY <1>1, <2>1 DEF Merged
    <3>2. lo \in Frees(c)
      BY <2>1 DEF Merged
    <3>3. hi \notin Frees(c)
      BY <1>1 DEF Merged, Frees
    <3> QED
      BY <2>1, <3>1, <3>2, <3>3 DEF Merged
  <2>2. CASE o # lo
    <3> DEFINE e == o + b[o].size
    <3>1. o \in Bl(b) /\ c[o].size = b[o].size /\ e \in C /\ e # hi
      BY <1>4, <2>2
    <3>2. c[e].prev = b[e].prev
      BY <3>1 DEF Merged
    <3>3. b[e].prev = (IF o \in Frees(b) THEN b[o].size ELSE 0) /\ (o \in Frees(b) => e \notin Frees(b))
      BY <3>1 DEF Tagged
    <3>4. o \in Frees(c) <=> o \in Frees(b)
      BY <2>2, <3>1 DEF Merged
    <3>5. b[o].size \in Nat /\ b[o].size > 0
      BY <3>1, ShapeFacts
    <3>6. o \in Frees(b) => e # lo
      BY <3>3, <3>5
    <3>7. o \in Frees(b) => e \notin Frees(c)
      BY <3>3, <3>6 DEF Merged, Frees
    <3> HIDE DEF e
    <3>8. o + c[o].size = e
      BY <3>1 DEF e
    <3> QED
      BY <3>1, <3>2, <3>3, <3>4, <3>7, <3>8
  <2> QED
    BY <2>1, <2>2
<1> QED
  BY <1>5, <1>6

\* Merging adds the bytes that were not free between lo and hi.
LEMMA MergedBelow ==
  ASSUME NEW b, NEW c, NEW lo \in Bl(b), NEW hi \in Bl(b) \cup {Last},
         Shape(b), Merged(b, c, lo, hi), lo < hi, hi \notin Frees(b),
         NEW t \in Int, NEW z \in Nat, NEW f, IsBelow(b, t, f), f[hi] - f[lo] = (hi - lo) - z
  PROVE Below(c, t + z)
<1> DEFINE D == DOMAIN b
           C == DOMAIN c
           g == [x \in C |-> IF x <= lo THEN f[x] ELSE f[x] + z]
<1>1. /\ lo \in D /\ hi \in D /\ lo \in Nat /\ hi \in Nat /\ hi <= Last /\ Empty <= lo
      /\ lo # First /\ hi # First /\ Empty \in D /\ Last \in D /\ lo < Last
  BY ShapeFacts, Layout DEF Bl, Shape
<1>2. \A x \in C : x \in D /\ (x <= lo \/ hi <= x) /\ x \in Nat /\ f[x] \in Int
  BY ShapeFacts DEF Merged, IsBelow
<1>3. {Empty, Last, lo, hi} \subseteq C
  BY <1>1, Layout DEF Merged
<1>4. g \in [C -> Int]
  BY <1>2
<1>5. g[Empty] = 0 /\ g[Last] = t + z
  BY <1>1, <1>3, Layout DEF IsBelow
<1>6. ASSUME NEW o \in Bl(c)
      PROVE g[o + c[o].size] = g[o] + (IF o \in Frees(c) THEN c[o].size ELSE 0)
  <2>1. CASE o = lo
    <3>1. o + c[o].size = hi /\ c[o].size = hi - lo
      BY <1>1, <2>1 DEF Merged
    <3>2. lo \in Frees(c)
      BY <2>1 DEF Merged
    <3>3. g[lo] = f[lo] /\ g[hi] = f[hi] + z
      BY <1>1, <1>3
    <3>4. f[lo] \in Int /\ f[hi] \in Int
      BY <1>2, <1>3
    <3> HIDE DEF g
    <3>5. g[hi] = g[lo] + (hi - lo)
      BY <1>1, <3>3, <3>4
    <3> QED
      BY <2>1, <3>1, <3>2, <3>5
  <2>2. CASE o # lo
    <3> DEFINE e == o + b[o].size
    <3>1. o \in Bl(b) /\ o \in C /\ o \in Nat /\ c[o].size = b[o].size
      BY <1>2, <2>2 DEF Bl, Merged
    <3>2. o < lo \/ hi <= o
      BY <1>1, <1>2, <2>2, <3>1
    <3>3. e \in D /\ b[o].size \in Nat /\ b[o].size > 0 /\ e \in Nat /\ e > o
      BY <3>1, ShapeFacts
    <3>4. o < lo => e <= lo
      BY <1>1, <3>1 DEF Shape
    <3> HIDE DEF e
    <3>5. e \in C
      BY <1>1, <3>1, <3>2, <3>3, <3>4 DEF Merged
    <3>6. f[e] = f[o] + (IF o \in Frees(b) THEN b[o].size ELSE 0)
      BY <3>1 DEF IsBelow, e
    <3>7. o \in Frees(c) <=> o \in Frees(b)
      BY <2>2, <3>1 DEF Merged
    <3>8. \/ g[e] = f[e] /\ g[o] = f[o]
          \/ g[e] = f[e] + z /\ g[o] = f[o] + z
      BY <1>1, <3>1, <3>2, <3>3, <3>4, <3>5
    <3>9. f[e] \in Int /\ f[o] \in Int
      BY <1>2, <3>1, <3>5
    <3> HIDE DEF g
    <3>10. g[e] = g[o] + (IF o \in Frees(b) THEN b[o].size ELSE 0)
      BY <3>3, <3>6, <3>8, <3>9
    <3> QED
      BY <3>1, <3>7, <3>10 DEF e
  <2> QED
    BY <2>1, <2>2
<1>7. ASSUME NEW x \in C \ {First}, NEW y \in C \ {First}, x <= y
      PROVE 0 <= g[y] - g[x] /\ g[y] - g[x] <= y - x
  <2>1. x \in D \ {First} /\ y \in D \ {First} /\ x \in Nat /\ y \in Nat /\ f[x] \in Int /\ f[y] \in Int
    BY <1>2, <1>7
  <2>2. 0 <= f[y] - f[x] /\ f[y] - f[x] <= y - x
    BY <1>7, <2>1 DEF IsBelow
  <2>3. CASE x <= lo /\ hi <= y
    <3>1. lo \in D \ {First} /\ hi \in D \ {First} /\ f[lo] \in Int /\ f[hi] \in Int
      BY <1>1, <1>2, <1>3
    <3>2. f[lo] - f[x] <= lo - x /\ f[y] - f[hi] <= y - hi
      BY <2>1, <2>3, <3>1 DEF IsBelow
    <3>3. g[x] = f[x] /\ g[y] = f[y] + z
      BY <1>1, <2>1, <2>3
    <3> HIDE DEF g
    <3> QED
      BY <1>1, <2>1, <2>2, <3>1, <3>2, <3>3
  <2>4. CASE ~(x <= lo /\ hi <= y)
    <3>1. \/ g[x] = f[x] /\ g[y] = f[y]
          \/ g[x] = f[x] + z /\ g[y] = f[y] + z
      BY <1>1, <1>2, <1>7, <2>1, <2>4
    <3> HIDE DEF g
    <3> QED
      BY <2>1, <2>2, <3>1
  <2> QED
    BY <2>3, <2>4
<1>8. IsBelow(c, t + z, g)
  <2> HIDE DEF g
  <2> QED
    BY <1>4, <1>5, <1>6, <1>7 DEF IsBelow
<1> HIDE DEF g
<1> QED
  BY <1>8 DEF Below

\* The other blocks of the segment lie before block o or after it.
Aside(b, c, o, r) ==
  /\ o \in Bl(b) /\ o \in Nat /\ b[o].size \in Nat /\ o + r \in Nat /\ o < o + r
  /\ r = b[o].size \/ o + r \notin DOMAIN b
  /\ \A x \in Bl(c) : x = o \/ x \in Bl(b) \/ (r < b[o].size /\ x = o + r)
  /\ \A x \in Bl(b) : x # o =>
       /\ x \in Bl(c) /\ c[x].size = b[x].size
       /\ x + b[x].size \in DOMAIN b /\ x + b[x].size # o + b[o].size
       /\ x + b[x].size # o + r
       /\ x + b[x].size <= o \/ o + b[o].size <= x

\* Taking leaves the other blocks of the segment alone.
LEMMA TakenOthers ==
  ASSUME NEW b, NEW c, NEW o \in Frees(b), NEW r \in Nat, Shape(b), TakenFrom(b, c, o, r),
         r >= MINBLOCKSIZE, r <= b[o].size
  PROVE Aside(b, c, o, r)
<1>1. o \in Bl(b) /\ o \in Nat /\ b[o].size \in Nat /\ o + r \in Nat /\ o < o + r
  <2>1. o \in Bl(b)
    BY DEF Frees
  <2> QED
    BY <2>1, ShapeFacts, Layout DEF Bl
<1>2. r = b[o].size \/ o + r \notin DOMAIN b
  <2> SUFFICES ASSUME r < b[o].size, o + r \in DOMAIN b PROVE FALSE
    BY <1>1
  <2>1. o + r <= o \/ o + b[o].size <= o + r
    BY <1>1 DEF Shape
  <2> QED
    BY <1>1, <2>1
<1>3. \A x \in Bl(c) : x = o \/ x \in Bl(b) \/ (r < b[o].size /\ x = o + r)
  <2> TAKE x \in Bl(c)
  <2>1. x \in DOMAIN b \cup {o + r} /\ x # First /\ x # Last
    BY DEF Bl, TakenFrom
  <2>2. o + b[o].size \in Bl(b) \cup {Last}
    BY <1>1 DEF Shape
  <2> QED
    BY <1>1, <2>1, <2>2 DEF Bl
<1>4. ASSUME NEW x \in Bl(b), x # o
      PROVE /\ x \in Bl(c) /\ c[x].size = b[x].size
            /\ x + b[x].size \in DOMAIN b /\ x + b[x].size # o + b[o].size
            /\ x + b[x].size # o + r
            /\ x + b[x].size <= o \/ o + b[o].size <= x
  <2>1. x \in Bl(c) /\ c[x].size = b[x].size
    BY <1>4 DEF Bl, TakenFrom
  <2>2. x \in Nat /\ b[x].size \in Nat /\ b[x].size > 0 /\ x + b[x].size \in DOMAIN b
    BY ShapeFacts DEF Bl
  <2>3. o \in DOMAIN b /\ x \in DOMAIN b
    BY <1>1 DEF Bl
  <2>4. (o <= x \/ x + b[x].size <= o) /\ (x <= o \/ o + b[o].size <= x)
    BY <1>1, <2>3 DEF Shape
  <2> QED
    BY <1>1, <1>4, <2>1, <2>2, <2>4
<1> QED
  BY <1>1, <1>2, <1>3, <1>4 DEF Aside

\* A block is taken whole, whatever its size, or an aligned part of it that
\* leaves a block.
PartOf(b, o, r) == r = b[o].size \/ (Aligned(r) /\ r + MINBLOCKSIZE <= b[o].size)

\* Taking keeps a segment tiled and tagged.
LEMMA TakenShape ==
  ASSUME NEW b, NEW c, NEW o \in Frees(b), NEW r \in Nat,
         Shape(b), Tagged(b), TakenFrom(b, c, o, r),
         r >= MINBLOCKSIZE, PartOf(b, o, r)
  PROVE Shape(c) /\ Tagged(c)
<1> DEFINE D == DOMAIN b
           C == DOMAIN c
           z == b[o].size
           e == o + z
<1>1. o \in Bl(b) /\ o \in Nat /\ z \in Nat /\ z > 0 /\ e \in D /\ e \in Nat /\ e <= Last /\ Empty <= o
  <2>1. o \in Bl(b)
    BY DEF Frees
  <2> QED
    BY <2>1, ShapeFacts, Layout DEF Bl
<1>2. r <= z
  BY <1>1, Layout DEF PartOf
<1>3. /\ r = z \/ o + r \notin D
      /\ \A x \in Bl(c) : x = o \/ x \in Bl(b) \/ (r < z /\ x = o + r)
      /\ \A x \in Bl(b) : x # o =>
             /\ x \in Bl(c) /\ c[x].size = b[x].size
             /\ x + b[x].size \in D /\ x + b[x].size # e
             /\ x + b[x].size # o + r
             /\ x + b[x].size <= o \/ e <= x
  <2>1. r <= b[o].size
    BY <1>2
  <2>2. Aside(b, c, o, r)
    BY <2>1, TakenOthers
  <2> QED
    BY <2>2 DEF Aside
<1>4. C = D \cup {o + r} /\ o \in C /\ e \in C /\ o + r \in C
  BY <1>1 DEF TakenFrom, Bl
<1>5. o + r \in Nat /\ o < o + r /\ o + r <= e /\ Placed(o + r)
  <2>1. Aligned(o) /\ o \in Int /\ r \in Int
    BY <1>1 DEF Shape, Placed, Bl
  <2>2. ASSUME r = z PROVE Placed(o + r)
    BY <1>1, <2>2 DEF Shape
  <2>3. ASSUME Aligned(r) PROVE Placed(o + r)
    BY <2>1, <2>3, AlignedSum DEF Placed
  <2>4. o + r \in Nat /\ o < o + r /\ o + r <= e
    BY <1>1, <1>2, Layout
  <2> QED
    BY <2>2, <2>3, <2>4 DEF PartOf
<1>6. \A x \in D : x <= o \/ e <= x
  BY <1>1 DEF Shape
<1>7. c[o].size = r /\ (r < z => c[o + r].size = z - r /\ c[o + r].prev = 0) /\ c[e].prev = z - r
  BY DEF TakenFrom
<1>8. r < z => o + r # First /\ o + r # Last /\ o + r \in Bl(c) /\ (o + r) + (z - r) = e
  <2> HAVE r < z
  <2>1. o + r < e
    BY <1>1
  <2> QED
    BY <1>1, <1>4, <1>5, <2>1, Layout DEF Bl
<1>9. e \in Bl(c) \cup {Last} /\ o \in Bl(c)
  BY <1>1, <1>4 DEF Bl, Shape
<1>10. o + r \in Bl(c) \cup {Last}
  BY <1>1, <1>2, <1>8, <1>9
<1> HIDE DEF z, e
<1>11. Shape(c)
  <2>1. c \in [C -> Header] /\ {First, Empty, Last} \subseteq C
    BY <1>4 DEF TakenFrom, Shape
  <2>2. \A x \in C : x \in Int /\ Placed(x) /\ (x = First \/ (Empty <= x /\ x <= Last))
    <3>1. Empty <= o + r /\ o + r <= Last
      BY <1>1, <1>5, Layout
    <3> QED
      BY <1>4, <1>5, <3>1 DEF Shape
  <2>3. /\ c[First].size = 0 /\ c[First].prev = 0 /\ c[First].fprev = 0
        /\ c[Last].size = 0 /\ c[Last].fnext = 0 /\ c[Empty].prev = 0
    <3>1. First # o /\ Last # o /\ First # e /\ Empty # e
      BY <1>1, <1>2, Layout DEF Bl, e, z
    <3> QED
      BY <3>1 DEF TakenFrom, Shape, e, z
  <2>4. ASSUME NEW x \in Bl(c)
        PROVE /\ c[x].size >= MINBLOCKSIZE /\ x + c[x].size \in Bl(c) \cup {Last}
              /\ \A y \in C : y <= x \/ x + c[x].size <= y
    <3>1. CASE x = o
      <4>1. \A y \in C : y <= o \/ o + r <= y
        <5> TAKE y \in C
        <5>1. y \in Int
          BY <2>2
        <5>2. y <= o \/ e <= y \/ y = o + r
          BY <1>4, <1>6
        <5> QED
          BY <1>1, <1>5, <5>1, <5>2
      <4> QED
        BY <1>7, <1>10, <3>1, <4>1
    <3>2. CASE r < z /\ x = o + r
      <4>1. c[x].size = z - r /\ x + c[x].size = e
        BY <1>7, <1>8, <3>2
      <4>2. z - r >= MINBLOCKSIZE
        BY <1>1, <3>2, Layout DEF z, PartOf
      <4>3. \A y \in C : y <= o + r \/ e <= y
        <5> TAKE y \in C
        <5>1. y \in Int
          BY <2>2
        <5>2. y <= o \/ e <= y \/ y = o + r
          BY <1>4, <1>6
        <5> QED
          BY <1>1, <1>5, <5>1, <5>2
      <4> QED
        BY <1>9, <3>2, <4>1, <4>2, <4>3
    <3>3. CASE x \in Bl(b) /\ x # o
      <4>1. c[x].size = b[x].size /\ (x + b[x].size <= o \/ e <= x)
        BY <1>3, <3>3
      <4>2. b[x].size >= MINBLOCKSIZE /\ x + b[x].size \in Bl(b) \cup {Last} /\ \A y \in D : y <= x \/ x + b[x].size <= y
        BY <3>3 DEF Shape
      <4>3. x + b[x].size \in Bl(c) \cup {Last}
        BY <1>4, <4>2 DEF Bl
      <4>4. o + r <= x \/ x + b[x].size <= o + r
        <5>1. x \in Nat /\ b[x].size \in Nat
          BY <3>3, ShapeFacts DEF Bl
        <5> QED
          BY <1>1, <1>5, <4>1, <5>1
      <4> QED
        BY <1>4, <4>1, <4>2, <4>3, <4>4
    <3> QED
      BY <1>3, <3>1, <3>2, <3>3
  <2> QED
    BY <2>1, <2>2, <2>3, <2>4 DEF Shape
<1>12. Tagged(c)
  <2>0. \A x \in Bl(c) : x \in Frees(c) <=> (x \in Frees(b) /\ x # o) \/ (r < z /\ x = o + r)
    BY DEF TakenFrom, z
  <2>1. \A x \in D \ {e} : c[x].prev = b[x].prev
    BY DEF TakenFrom, e, z
  <2> SUFFICES ASSUME NEW x \in Bl(c)
               PROVE /\ c[x + c[x].size].prev = IF x \in Frees(c) THEN c[x].size ELSE 0
                     /\ x \in Frees(c) => x + c[x].size \notin Frees(c)
    BY DEF Tagged
  <2>2. CASE x = o
    <3>1. x \notin Frees(c) /\ x + c[x].size = o + r
      BY <1>1, <1>5, <1>7, <2>0, <2>2
    <3>2. c[o + r].prev = 0
      <4>1. CASE r < z
        BY <1>7, <4>1
      <4>2. CASE r = z
        BY <1>1, <1>7, <4>2 DEF e
      <4> QED
        BY <1>1, <1>2, <4>1, <4>2 DEF z
    <3> QED
      BY <3>1, <3>2
  <2>3. CASE r < z /\ x = o + r
    <3>1. x \in Frees(c) /\ c[x].size = z - r /\ x + c[x].size = e
      BY <1>7, <1>8, <2>0, <2>3
    <3>2. e \notin Frees(b)
      BY <1>1 DEF Tagged, e, z
    <3>3. e # o + r
      BY <1>1, <2>3 DEF e
    <3>4. e \notin Frees(c)
      BY <2>0, <3>2, <3>3 DEF Frees
    <3> QED
      BY <1>7, <3>1, <3>4
  <2>4. CASE x \in Bl(b) /\ x # o
    <3> DEFINE y == x + b[x].size
    <3>1. c[x].size = b[x].size /\ y \in D /\ y # e /\ y # o + r
      BY <1>3, <2>4
    <3>2. b[y].prev = (IF x \in Frees(b) THEN b[x].size ELSE 0) /\ (x \in Frees(b) => y \notin Frees(b))
      BY <2>4 DEF Tagged
    <3>3. x # o + r \/ r = z
      BY <1>1, <1>3, <2>4 DEF Bl
    <3>4. x \in Frees(c) <=> x \in Frees(b)
      BY <1>1, <2>0, <2>4, <3>3
    <3>5. c[y].prev = b[y].prev
      BY <2>1, <3>1
    <3>6. x \in Frees(b) => y \notin Frees(c)
      BY <2>0, <3>1, <3>2 DEF Frees
    <3> HIDE DEF y
    <3>7. x + c[x].size = y
      BY <3>1 DEF y
    <3> QED
      BY <3>1, <3>2, <3>4, <3>5, <3>6, <3>7
  <2> QED
    BY <1>3, <2>2, <2>3, <2>4
<1> QED
  BY <1>11, <1>12

\* Taking takes r bytes from what is free.
LEMMA TakenBelow ==
  ASSUME NEW b, NEW c, NEW o \in Frees(b), NEW r \in Nat, Shape(b), TakenFrom(b, c, o, r),
         r >= MINBLOCKSIZE, r <= b[o].size, NEW t \in Int, Below(b, t)
  PROVE Below(c, t - r)
<1> DEFINE D == DOMAIN b
           C == DOMAIN c
           z == b[o].size
           e == o + z
<1>1. o \in Bl(b) /\ o \in D /\ o \in Nat /\ z \in Nat /\ z > 0 /\ e \in D /\ e \in Nat /\ e <= Last /\ Empty <= o /\ o # First /\ e # First
  <2>1. o \in Bl(b)
    BY DEF Frees
  <2> QED
    BY <2>1, ShapeFacts, Layout DEF Bl
<1>3. /\ r = z \/ o + r \notin D
      /\ \A x \in Bl(c) : x = o \/ x \in Bl(b) \/ (r < z /\ x = o + r)
      /\ \A x \in Bl(b) : x # o =>
             /\ x \in Bl(c) /\ c[x].size = b[x].size
             /\ x + b[x].size \in D /\ x + b[x].size # e
             /\ x + b[x].size # o + r
             /\ x + b[x].size <= o \/ e <= x
  <2>1. Aside(b, c, o, r)
    BY TakenOthers
  <2> QED
    BY <2>1 DEF Aside
<1>4. C = D \cup {o + r} /\ o \in C /\ e \in C
  BY <1>1 DEF TakenFrom, Bl
<1>5. o + r \in Nat /\ o < o + r /\ o + r <= e
  BY <1>1, Layout
<1>6. \A x \in D : x <= o \/ e <= x
  BY <1>1 DEF Shape
<1>7. c[o].size = r /\ (r < z => c[o + r].size = z - r)
  BY DEF TakenFrom
<1>8. PICK f : IsBelow(b, t, f)
  BY DEF Below
<1>9. \A x \in D : f[x] \in Int /\ x \in Nat
  BY <1>8, ShapeFacts DEF IsBelow
<1>10. f[e] = f[o] + z
  BY <1>1, <1>8 DEF IsBelow
<1> HIDE DEF z, e
<1> DEFINE g == [x \in C |-> IF x <= o THEN f[x] ELSE IF e <= x THEN f[x] - r ELSE f[o]]
<1>11. g \in [C -> Int]
  <2>1. \A x \in C : x \in D \/ (x = o + r /\ ~(x <= o))
    BY <1>1, <1>4, <1>5
  <2>2. e <= o + r => o + r \in D
    <3> HAVE e <= o + r
    <3>1. o + r = e
      BY <1>1, <1>5
    <3> QED
      BY <1>1, <3>1
  <2> QED
    BY <1>1, <1>9, <2>1, <2>2
<1>12. g[Empty] = 0 /\ g[Last] = t - r
  <2>0. Empty \in D /\ Last \in D /\ o <= Last /\ o # Last
    BY <1>1, Layout DEF Shape, Bl
  <2>1. Empty \in C /\ Last \in C /\ Empty <= o /\ ~(Last <= o) /\ e <= Last
    BY <1>1, <1>4, <2>0, Layout
  <2> QED
    BY <1>8, <2>1 DEF IsBelow
<1>13. /\ g[o] = f[o] /\ g[e] = f[e] - r /\ g[o + r] = f[o]
       /\ \A x \in D : x <= o => g[x] = f[x]
       /\ \A x \in D : e <= x => g[x] = f[x] - r
  <2>1. ~(e <= o) /\ o + r \in C /\ ~(o + r <= o)
    BY <1>1, <1>4, <1>5
  <2>2. \A x \in D : e <= x => ~(x <= o)
    BY <1>1, <1>5, <1>9
  <2>3. g[e] = f[e] - r
    BY <1>1, <1>4, <2>1, <2>2
  <2>4. g[o + r] = f[o]
    <3>1. CASE e <= o + r
      <4>1. o + r = e /\ r = z
        BY <1>1, <1>5, <3>1 DEF e
      <4>2. f[e] - r = f[o]
        BY <1>1, <1>9, <1>10, <4>1
      <4> HIDE DEF g
      <4> QED
        BY <2>3, <4>1, <4>2
    <3>2. CASE ~(e <= o + r)
      BY <2>1, <3>2
    <3> QED
      BY <3>1, <3>2
  <2> QED
    BY <1>1, <1>4, <2>1, <2>2, <2>3, <2>4
<1>14. \A x \in Bl(c) : x \in Frees(c) <=> (x \in Frees(b) /\ x # o) \/ (r < z /\ x = o + r)
  BY DEF TakenFrom, z
<1> HIDE DEF g
<1>15. ASSUME NEW x \in Bl(c)
       PROVE g[x + c[x].size] = g[x] + (IF x \in Frees(c) THEN c[x].size ELSE 0)
  <2>1. CASE x = o
    <3>1. x \notin Frees(c) /\ x + c[x].size = o + r /\ g[o] \in Int
      BY <1>1, <1>4, <1>5, <1>7, <1>11, <1>14, <2>1
    <3> QED
      BY <1>13, <2>1, <3>1
  <2>2. CASE r < z /\ x = o + r
    <3>1. x \in Frees(c) /\ c[x].size = z - r /\ x + c[x].size = e
      BY <1>1, <1>5, <1>7, <1>14, <2>2 DEF e
    <3>2. g[e] = g[o + r] + (z - r)
      BY <1>1, <1>9, <1>10, <1>13
    <3> QED
      BY <2>2, <3>1, <3>2
  <2>3. CASE x \in Bl(b) /\ x # o
    <3> DEFINE y == x + b[x].size
    <3>1. c[x].size = b[x].size /\ y \in D /\ (y <= o \/ e <= x) /\ x \in D /\ x \in Nat /\ b[x].size \in Nat
      BY <1>3, <1>9, <2>3, ShapeFacts DEF Bl
    <3>2. f[y] = f[x] + (IF x \in Frees(b) THEN b[x].size ELSE 0)
      BY <1>8, <2>3 DEF IsBelow
    <3>3. x # o + r \/ r = z
      BY <1>1, <1>3, <2>3 DEF Bl
    <3>4. x \in Frees(c) <=> x \in Frees(b)
      BY <1>1, <1>14, <2>3, <3>3
    <3>5. y \in Nat /\ x <= y
      BY <3>1
    <3> HIDE DEF y
    <3>6. \/ g[x] = f[x] /\ g[y] = f[y]
          \/ g[x] = f[x] - r /\ g[y] = f[y] - r
      <4>1. CASE y <= o
        <5>1. x <= o
          BY <1>1, <3>1, <3>5, <4>1
        <5> QED
          BY <1>13, <3>1, <4>1, <5>1
      <4>2. CASE e <= x
        <5>1. e <= y
          BY <1>1, <3>1, <3>5, <4>2
        <5> QED
          BY <1>13, <3>1, <4>2, <5>1
      <4> QED
        BY <3>1, <4>1, <4>2
    <3>7. f[x] \in Int /\ f[y] \in Int
      BY <1>9, <3>1
    <3>8. g[y] = g[x] + (IF x \in Frees(b) THEN b[x].size ELSE 0)
      BY <3>1, <3>2, <3>6, <3>7
    <3> QED
      BY <3>1, <3>4, <3>8 DEF y
  <2> QED
    BY <1>3, <2>1, <2>2, <2>3
<1>16. ASSUME NEW x \in C \ {First}, NEW y \in C \ {First}, x <= y
       PROVE 0 <= g[y] - g[x] /\ g[y] - g[x] <= y - x
  <2>1. ASSUME NEW v \in C \ {First}
        PROVE /\ v \in Nat /\ g[v] \in Int
              /\ \/ v \in D \ {First} /\ v <= o /\ g[v] = f[v]
                 \/ v \in D \ {First} /\ e <= v /\ g[v] = f[v] - r
                 \/ v = o + r /\ g[v] = f[o]
    <3>1. v \in D \/ v = o + r
      BY <1>4, <2>1
    <3> QED
      BY <1>5, <1>6, <1>9, <1>11, <1>13, <2>1, <3>1
  <2>2. \A v, w \in D \ {First} : v <= w => 0 <= f[w] - f[v] /\ f[w] - f[v] <= w - v
    BY <1>8 DEF IsBelow
  <2>3. o \in D \ {First} /\ e \in D \ {First} /\ f[o] \in Int /\ f[e] \in Int /\ e = o + z
    BY <1>1, <1>9 DEF e
  <2>4. x \in D => f[x] \in Int
    BY <1>9
  <2>5. y \in D => f[y] \in Int
    BY <1>9
  <2>6. CASE x \in D \ {First} /\ x <= o /\ g[x] = f[x]
    <3>1. 0 <= f[o] - f[x] /\ f[o] - f[x] <= o - x
      BY <2>2, <2>3, <2>6
    <3>2. CASE y \in D \ {First} /\ y <= o /\ g[y] = f[y]
      BY <1>16, <2>2, <2>6, <3>2
    <3>3. CASE y \in D \ {First} /\ e <= y /\ g[y] = f[y] - r
      <4>1. 0 <= f[y] - f[e] /\ f[y] - f[e] <= y - e
        BY <2>2, <2>3, <3>3
      <4> QED
        BY <1>1, <1>5, <1>10, <2>1, <2>3, <2>4, <2>5, <2>6, <3>1, <3>3, <4>1
    <3>4. CASE y = o + r /\ g[y] = f[o]
      BY <1>1, <1>5, <2>1, <2>3, <2>4, <2>6, <3>1, <3>4
    <3> QED
      BY <2>1, <3>2, <3>3, <3>4
  <2>7. CASE x \in D \ {First} /\ e <= x /\ g[x] = f[x] - r
    <3>1. y >= e /\ y \in Nat /\ x \in Nat
      BY <1>1, <1>16, <2>1, <2>7
    <3>2. CASE y \in D \ {First} /\ e <= y /\ g[y] = f[y] - r
      <4>1. 0 <= f[y] - f[x] /\ f[y] - f[x] <= y - x
        BY <1>16, <2>2, <2>7, <3>2
      <4> QED
        BY <2>4, <2>5, <2>7, <3>1, <3>2, <4>1
    <3>3. CASE y \in D \ {First} /\ y <= o /\ g[y] = f[y]
      BY <1>1, <1>5, <3>1, <3>3
    <3>4. CASE y = o + r /\ g[y] = f[o]
      <4>1. y = e /\ x = e
        BY <1>1, <1>5, <1>16, <2>7, <3>1, <3>4
      <4>2. g[y] - g[x] = 0
        <5>1. g[x] \in Int
          BY <2>1
        <5> QED
          BY <4>1, <5>1
      <4> QED
        BY <4>1, <4>2, <1>1
    <3> QED
      BY <2>1, <3>2, <3>3, <3>4
  <2>8. CASE x = o + r /\ g[x] = f[o]
    <3>1. CASE y \in D \ {First} /\ y <= o /\ g[y] = f[y]
      BY <1>1, <1>5, <1>16, <2>1, <2>8, <3>1
    <3>2. CASE y \in D \ {First} /\ e <= y /\ g[y] = f[y] - r
      <4>1. 0 <= f[y] - f[e] /\ f[y] - f[e] <= y - e
        BY <2>2, <2>3, <3>2
      <4> QED
        BY <1>1, <1>5, <1>10, <2>1, <2>3, <2>5, <2>8, <3>2, <4>1
    <3>3. CASE y = o + r /\ g[y] = f[o]
      BY <1>5, <2>3, <2>8, <3>3
    <3> QED
      BY <2>1, <3>1, <3>2, <3>3
  <2> QED
    BY <2>1, <2>6, <2>7, <2>8
<1>17. IsBelow(c, t - r, g)
  BY <1>11, <1>12, <1>15, <1>16 DEF IsBelow
<1> QED
  BY <1>17 DEF Below


-----------------------------------------------------------------------------
(* What the steps of sma_allocate and sma_deallocate write into the headers. *)

\* One field of one header changes.
LEMMA WriteSize ==
  ASSUME NEW b, b \in [DOMAIN b -> Header], NEW x \in DOMAIN b, NEW v \in Int
  PROVE LET c == [b EXCEPT ![x].size = v] IN
        /\ c \in [DOMAIN b -> Header]
        /\ \A y \in DOMAIN b : /\ c[y].size = (IF y = x THEN v ELSE b[y].size) /\ c[y].prev = b[y].prev
                               /\ c[y].fnext = b[y].fnext /\ c[y].fprev = b[y].fprev
BY DEF Header

\* The same for the size of the block before.
LEMMA WritePrev ==
  ASSUME NEW b, b \in [DOMAIN b -> Header], NEW x \in DOMAIN b, NEW v \in Int
  PROVE LET c == [b EXCEPT ![x].prev = v] IN
        /\ c \in [DOMAIN b -> Header]
        /\ \A y \in DOMAIN b : /\ c[y].size = b[y].size /\ c[y].prev = (IF y = x THEN v ELSE b[y].prev)
                               /\ c[y].fnext = b[y].fnext /\ c[y].fprev = b[y].fprev
BY DEF Header

\* The same for the link to the next free block.
LEMMA WriteNext ==
  ASSUME NEW b, b \in [DOMAIN b -> Header], NEW x \in DOMAIN b, NEW v \in Int
  PROVE LET c == [b EXCEPT ![x].fnext = v] IN
        /\ c \in [DOMAIN b -> Header]
        /\ \A y \in DOMAIN b : /\ c[y].size = b[y].size /\ c[y].prev = b[y].prev
                               /\ c[y].fnext = (IF y = x THEN v ELSE b[y].fnext) /\ c[y].fprev = b[y].fprev
BY DEF Header

\* The same for the link back.
LEMMA WriteBack ==
  ASSUME NEW b, b \in [DOMAIN b -> Header], NEW x \in DOMAIN b, NEW v \in Int
  PROVE LET c == [b EXCEPT ![x].fprev = v] IN
        /\ c \in [DOMAIN b -> Header]
        /\ \A y \in DOMAIN b : /\ c[y].size = b[y].size /\ c[y].prev = b[y].prev
                               /\ c[y].fnext = b[y].fnext /\ c[y].fprev = (IF y = x THEN v ELSE b[y].fprev)
BY DEF Header

\* In c block o of b has been taken out of the list; its own links stay.
IsUnlinked(b, c, o) ==
  /\ c \in [DOMAIN b -> Header] /\ DOMAIN c = DOMAIN b
  /\ \A x \in DOMAIN b :
       /\ c[x].size = b[x].size /\ c[x].prev = b[x].prev
       /\ c[x].fnext = (IF x = b[o].fprev THEN b[o].fnext ELSE b[x].fnext)
       /\ c[x].fprev = (IF x = b[o].fnext THEN b[o].fprev ELSE b[x].fprev)

\* The headers of Unlink.
LEMMA UnlinkFields ==
  ASSUME NEW b, b \in [DOMAIN b -> Header], NEW o \in DOMAIN b, b[o].fprev \in DOMAIN b, b[o].fnext \in DOMAIN b
  PROVE IsUnlinked(b, Unlink(b, o), o)
<1> DEFINE p == b[o].fprev
           n == b[o].fnext
           c1 == [b EXCEPT ![p].fnext = n]
           c2 == [c1 EXCEPT ![n].fprev = p]
<1>1. p \in Int /\ n \in Int
  BY DEF Header
<1>2. Unlink(b, o) = c2
  BY DEF Unlink
<1> HIDE DEF p, n
<1>3. /\ c1 \in [DOMAIN b -> Header]
      /\ \A y \in DOMAIN b : /\ c1[y].size = b[y].size /\ c1[y].prev = b[y].prev
                             /\ c1[y].fnext = (IF y = p THEN n ELSE b[y].fnext) /\ c1[y].fprev = b[y].fprev
  BY <1>1, WriteNext DEF p
<1> HIDE DEF c1
<1>4. DOMAIN c1 = DOMAIN b
  BY <1>3
<1>5. /\ c2 \in [DOMAIN b -> Header]
      /\ \A y \in DOMAIN b : /\ c2[y].size = c1[y].size /\ c2[y].prev = c1[y].prev
                             /\ c2[y].fnext = c1[y].fnext /\ c2[y].fprev = (IF y = n THEN p ELSE c1[y].fprev)
  BY <1>1, <1>3, <1>4, WriteBack DEF n
<1> HIDE DEF c2
<1> QED
  BY <1>2, <1>3, <1>5 DEF IsUnlinked, p, n

\* The headers of TakeWhole.
LEMMA TakeWholeFields ==
  ASSUME NEW b, b \in [DOMAIN b -> Header], NEW o \in DOMAIN b, b[o].fprev \in DOMAIN b, b[o].fnext \in DOMAIN b,
         o + b[o].size \in DOMAIN b
  PROVE LET c == TakeWhole(b, o) IN
        /\ c \in [DOMAIN b -> Header] /\ DOMAIN c = DOMAIN b
        /\ \A x \in DOMAIN b :
             /\ c[x].size = b[x].size
             /\ c[x].prev = (IF x = o + b[o].size THEN 0 ELSE b[x].prev)
             /\ c[x].fnext = (IF x = o THEN 0 ELSE IF x = b[o].fprev THEN b[o].fnext ELSE b[x].fnext)
             /\ c[x].fprev = (IF x = o THEN 0 ELSE IF x = b[o].fnext THEN b[o].fprev ELSE b[x].fprev)
<1> DEFINE k  == 0
           u  == Unlink(b, o)
           e  == o + b[o].size
           c1 == [u EXCEPT ![e].prev = k]
           c2 == [c1 EXCEPT ![o].fnext = k]
           c3 == [c2 EXCEPT ![o].fprev = k]
<1>0. k \in Int
  OBVIOUS
<1>1. TakeWhole(b, o) = c3
  BY DEF TakeWhole
<1>2. /\ u \in [DOMAIN b -> Header] /\ DOMAIN u = DOMAIN b
      /\ \A x \in DOMAIN b :
           /\ u[x].size = b[x].size /\ u[x].prev = b[x].prev
           /\ u[x].fnext = (IF x = b[o].fprev THEN b[o].fnext ELSE b[x].fnext)
           /\ u[x].fprev = (IF x = b[o].fnext THEN b[o].fprev ELSE b[x].fprev)
  <2>1. IsUnlinked(b, u, o)
    BY UnlinkFields
  <2> QED
    BY <2>1 DEF IsUnlinked
<1>3. e \in DOMAIN b
  OBVIOUS
<1> HIDE DEF u, e, k
<1>4. /\ c1 \in [DOMAIN b -> Header]
      /\ \A y \in DOMAIN b : /\ c1[y].size = u[y].size /\ c1[y].prev = (IF y = e THEN k ELSE u[y].prev)
                             /\ c1[y].fnext = u[y].fnext /\ c1[y].fprev = u[y].fprev
  BY <1>0, <1>2, <1>3, WritePrev
<1> HIDE DEF c1
<1>5. DOMAIN c1 = DOMAIN b
  BY <1>4
<1>6. /\ c2 \in [DOMAIN b -> Header]
      /\ \A y \in DOMAIN b : /\ c2[y].size = c1[y].size /\ c2[y].prev = c1[y].prev
                             /\ c2[y].fnext = (IF y = o THEN k ELSE c1[y].fnext) /\ c2[y].fprev = c1[y].fprev
  BY <1>0, <1>4, <1>5, WriteNext
<1> HIDE DEF c2
<1>7. DOMAIN c2 = DOMAIN b
  BY <1>6
<1>8. /\ c3 \in [DOMAIN b -> Header]
      /\ \A y \in DOMAIN b : /\ c3[y].size = c2[y].size /\ c3[y].prev = c2[y].prev
                             /\ c3[y].fnext = c2[y].fnext /\ c3[y].fprev = (IF y = o THEN k ELSE c2[y].fprev)
  BY <1>0, <1>6, <1>7, WriteBack
<1> HIDE DEF c3
<1>9. \A x \in DOMAIN b :
        /\ c3[x].size = b[x].size
        /\ c3[x].prev = (IF x = e THEN k ELSE b[x].prev)
        /\ c3[x].fnext = (IF x = o THEN k ELSE IF x = b[o].fprev THEN b[o].fnext ELSE b[x].fnext)
        /\ c3[x].fprev = (IF x = o THEN k ELSE IF x = b[o].fnext THEN b[o].fprev ELSE b[x].fprev)
  BY <1>2, <1>4, <1>6, <1>8
<1> QED
  BY <1>1, <1>8, <1>9 DEF k, e

\* In c block o of b has been cut to r bytes, and the rest has its place in the list.
IsSplit(b, c, o, r) ==
  LET y == o + r
      z == b[o].size - r
  IN
  /\ c \in [DOMAIN b \cup {y} -> Header] /\ DOMAIN c = DOMAIN b \cup {y}
  /\ c[y] = [size |-> z, prev |-> 0, fnext |-> b[o].fnext, fprev |-> b[o].fprev]
  /\ \A x \in DOMAIN b :
       /\ c[x].size = (IF x = o THEN r ELSE b[x].size)
       /\ c[x].prev = (IF x = o + b[o].size THEN z ELSE b[x].prev)
       /\ c[x].fnext = (IF x = o THEN 0 ELSE IF x = b[o].fprev THEN y ELSE b[x].fnext)
       /\ c[x].fprev = (IF x = o THEN 0 ELSE IF x = b[o].fnext THEN y ELSE b[x].fprev)

\* The headers of SplitBlock.
LEMMA SplitFields ==
  ASSUME NEW b, b \in [DOMAIN b -> Header], NEW o \in DOMAIN b, b[o].fprev \in DOMAIN b, b[o].fnext \in DOMAIN b,
         o + b[o].size \in DOMAIN b, NEW r \in Nat, o \in Nat, o + r \notin DOMAIN b
  PROVE IsSplit(b, SplitBlock(b, o, r), o, r)
<1> DEFINE k  == 0
           y  == o + r
           z  == b[o].size - r
           e  == o + b[o].size
           p  == b[o].fprev
           n  == b[o].fnext
           D  == DOMAIN b \cup {y}
           h  == [size |-> z, prev |-> 0, fnext |-> n, fprev |-> p]
           c0 == [x \in D |-> IF x = y THEN h ELSE b[x]]
           c1 == [c0 EXCEPT ![e].prev = z]
           c2 == [c1 EXCEPT ![n].fprev = y]
           c3 == [c2 EXCEPT ![p].fnext = y]
           c4 == [c3 EXCEPT ![o].size = r]
           c5 == [c4 EXCEPT ![o].fnext = k]
           c6 == [c5 EXCEPT ![o].fprev = k]
<1>0. k \in Int
  OBVIOUS
<1>1. p \in Int /\ n \in Int /\ z \in Int /\ y \in Int /\ b[o].size \in Int
  BY DEF Header
<1>2. y + z = e
  BY <1>1
<1>3. SplitBlock(b, o, r) = c6
  BY <1>2 DEF SplitBlock
<1>4. e \in DOMAIN b /\ p \in DOMAIN b /\ n \in DOMAIN b /\ y \notin DOMAIN b
  OBVIOUS
<1>5. h \in Header
  BY <1>1 DEF Header
<1>6. e \in D /\ p \in D /\ n \in D /\ o \in D /\ y \in D
  BY <1>4
<1>7. h.size = z /\ h.prev = 0 /\ h.fnext = n /\ h.fprev = p
  OBVIOUS
<1> HIDE DEF y, z, e, p, n, h, k
<1>8. c0 \in [D -> Header] /\ DOMAIN c0 = D /\ c0[y] = h /\ \A x \in DOMAIN b : c0[x] = b[x]
  BY <1>4, <1>5
<1> HIDE DEF D, c0
<1>9. /\ c1 \in [D -> Header]
      /\ \A v \in D : /\ c1[v].size = c0[v].size /\ c1[v].prev = (IF v = e THEN z ELSE c0[v].prev)
                      /\ c1[v].fnext = c0[v].fnext /\ c1[v].fprev = c0[v].fprev
  BY <1>1, <1>6, <1>8, WritePrev
<1> HIDE DEF c1
<1>10. DOMAIN c1 = D
  BY <1>9
<1>11. /\ c2 \in [D -> Header]
       /\ \A v \in D : /\ c2[v].size = c1[v].size /\ c2[v].prev = c1[v].prev
                       /\ c2[v].fnext = c1[v].fnext /\ c2[v].fprev = (IF v = n THEN y ELSE c1[v].fprev)
  BY <1>1, <1>6, <1>9, <1>10, WriteBack
<1> HIDE DEF c2
<1>12. DOMAIN c2 = D
  BY <1>11
<1>13. /\ c3 \in [D -> Header]
       /\ \A v \in D : /\ c3[v].size = c2[v].size /\ c3[v].prev = c2[v].prev
                       /\ c3[v].fnext = (IF v = p THEN y ELSE c2[v].fnext) /\ c3[v].fprev = c2[v].fprev
  BY <1>1, <1>6, <1>11, <1>12, WriteNext
<1> HIDE DEF c3
<1>14. DOMAIN c3 = D
  BY <1>13
<1>15. /\ c4 \in [D -> Header]
       /\ \A v \in D : /\ c4[v].size = (IF v = o THEN r ELSE c3[v].size) /\ c4[v].prev = c3[v].prev
                       /\ c4[v].fnext = c3[v].fnext /\ c4[v].fprev = c3[v].fprev
  BY <1>1, <1>6, <1>13, <1>14, WriteSize
<1> HIDE DEF c4
<1>16. DOMAIN c4 = D
  BY <1>15
<1>17. /\ c5 \in [D -> Header]
       /\ \A v \in D : /\ c5[v].size = c4[v].size /\ c5[v].prev = c4[v].prev
                       /\ c5[v].fnext = (IF v = o THEN k ELSE c4[v].fnext) /\ c5[v].fprev = c4[v].fprev
  BY <1>0, <1>6, <1>15, <1>16, WriteNext
<1> HIDE DEF c5
<1>18. DOMAIN c5 = D
  BY <1>17
<1>19. /\ c6 \in [D -> Header]
       /\ \A v \in D : /\ c6[v].size = c5[v].size /\ c6[v].prev = c5[v].prev
                       /\ c6[v].fnext = c5[v].fnext /\ c6[v].fprev = (IF v = o THEN k ELSE c5[v].fprev)
  BY <1>0, <1>6, <1>17, <1>18, WriteBack
<1> HIDE DEF c6
<1>20. ASSUME NEW x \in DOMAIN b
       PROVE /\ c6[x].size = (IF x = o THEN r ELSE b[x].size)
             /\ c6[x].prev = (IF x = e THEN z ELSE b[x].prev)
             /\ c6[x].fnext = (IF x = o THEN k ELSE IF x = p THEN y ELSE b[x].fnext)
             /\ c6[x].fprev = (IF x = o THEN k ELSE IF x = n THEN y ELSE b[x].fprev)
  <2>1. x \in D /\ c0[x] = b[x]
    BY <1>8 DEF D
  <2> QED
    BY <1>9, <1>11, <1>13, <1>15, <1>17, <1>19, <2>1
<1>21. c6[y] = h
  <2>1. y # o /\ y # e /\ y # n /\ y # p
    BY <1>4
  <2>2. c6[y].size = h.size /\ c6[y].prev = h.prev /\ c6[y].fnext = h.fnext /\ c6[y].fprev = h.fprev
    BY <1>6, <1>8, <1>9, <1>11, <1>13, <1>15, <1>17, <1>19, <2>1
  <2>3. c6[y] \in Header
    BY <1>6, <1>19
  <2> QED
    BY <1>5, <2>2, <2>3 DEF Header
<1>22. DOMAIN c6 = D
  BY <1>19
<1> QED
  BY <1>3, <1>19, <1>20, <1>21, <1>22 DEF IsSplit, k, y, z, e, p, n, h, D

\* The headers of InsertFirst.
LEMMA InsertFields ==
  ASSUME NEW b, b \in [DOMAIN b -> Header], NEW o \in DOMAIN b, First \in DOMAIN b, b[First].fnext \in DOMAIN b,
         o + b[o].size \in DOMAIN b, o \in Int, b[First].fnext # o, o # First
  PROVE LET c == InsertFirst(b, o) IN
        /\ c \in [DOMAIN b -> Header] /\ DOMAIN c = DOMAIN b
        /\ \A x \in DOMAIN b :
             /\ c[x].size = b[x].size
             /\ c[x].prev = (IF x = o + b[o].size THEN b[o].size ELSE b[x].prev)
             /\ c[x].fnext = (IF x = First THEN o ELSE IF x = o THEN b[First].fnext ELSE b[x].fnext)
             /\ c[x].fprev = (IF x = b[First].fnext THEN o ELSE IF x = o THEN First ELSE b[x].fprev)
<1> DEFINE e  == o + b[o].size
           z  == b[o].size
           n  == b[First].fnext
           D  == DOMAIN b
           c1 == [b EXCEPT ![e].prev = z]
           c2 == [c1 EXCEPT ![o].fnext = n]
           c3 == [c2 EXCEPT ![o].fprev = First]
           c4 == [c3 EXCEPT ![n].fprev = o]
           c5 == [c4 EXCEPT ![First].fnext = o]
<1>1. n \in Int /\ z \in Int /\ First \in Int
  BY Layout DEF Header
<1>2. InsertFirst(b, o) = c5
  BY DEF InsertFirst
<1>3. e \in D /\ n \in D /\ b \in [D -> Header] /\ First \in D
  OBVIOUS
<1> HIDE DEF e, z, n
<1>4. /\ c1 \in [D -> Header]
      /\ \A v \in D : /\ c1[v].size = b[v].size /\ c1[v].prev = (IF v = e THEN z ELSE b[v].prev)
                      /\ c1[v].fnext = b[v].fnext /\ c1[v].fprev = b[v].fprev
  BY <1>1, <1>3, WritePrev
<1> HIDE DEF c1
<1>5. DOMAIN c1 = D
  BY <1>4
<1>6. /\ c2 \in [D -> Header]
      /\ \A v \in D : /\ c2[v].size = c1[v].size /\ c2[v].prev = c1[v].prev
                      /\ c2[v].fnext = (IF v = o THEN n ELSE c1[v].fnext) /\ c2[v].fprev = c1[v].fprev
  BY <1>1, <1>4, <1>5, WriteNext
<1> HIDE DEF c2
<1>7. DOMAIN c2 = D
  BY <1>6
<1>8. /\ c3 \in [D -> Header]
      /\ \A v \in D : /\ c3[v].size = c2[v].size /\ c3[v].prev = c2[v].prev
                      /\ c3[v].fnext = c2[v].fnext /\ c3[v].fprev = (IF v = o THEN First ELSE c2[v].fprev)
  BY <1>1, <1>6, <1>7, WriteBack
<1> HIDE DEF c3
<1>9. DOMAIN c3 = D
  BY <1>8
<1>10. /\ c4 \in [D -> Header]
       /\ \A v \in D : /\ c4[v].size = c3[v].size /\ c4[v].prev = c3[v].prev
                       /\ c4[v].fnext = c3[v].fnext /\ c4[v].fprev = (IF v = n THEN o ELSE c3[v].fprev)
  BY <1>1, <1>3, <1>8, <1>9, WriteBack
<1> HIDE DEF c4
<1>11. DOMAIN c4 = D
  BY <1>10
<1>12. /\ c5 \in [D -> Header]
       /\ \A v \in D : /\ c5[v].size = c4[v].size /\ c5[v].prev = c4[v].prev
                       /\ c5[v].fnext = (IF v = First THEN o ELSE c4[v].fnext) /\ c5[v].fprev = c4[v].fprev
  BY <1>1, <1>3, <1>10, <1>11, WriteNext
<1> HIDE DEF c5
<1>13. ASSUME NEW x \in D
       PROVE /\ c5[x].size = b[x].size
             /\ c5[x].prev = (IF x = e THEN z ELSE b[x].prev)
             /\ c5[x].fnext = (IF x = First THEN o ELSE IF x = o THEN n ELSE b[x].fnext)
             /\ c5[x].fprev = (IF x = n THEN o ELSE IF x = o THEN First ELSE b[x].fprev)
  BY <1>4, <1>6, <1>8, <1>10, <1>12
<1>14. DOMAIN c5 = D
  BY <1>12
<1> QED
  BY <1>2, <1>12, <1>13, <1>14 DEF e, z, n

-----------------------------------------------------------------------------
(* sma_allocate and sma_deallocate keep a segment sound.                     *)

\* Where the links of a sound segment lead.
LEMMA SegmentLinks ==
  ASSUME NEW b, NEW a, SegmentOK(b, a)
  PROVE /\ b \in [DOMAIN b -> Header] /\ {First, Empty, Last} \subseteq DOMAIN b /\ 0 \notin DOMAIN b
        /\ Frees(b) \subseteq Bl(b) /\ Bl(b) \subseteq DOMAIN b /\ First \notin Bl(b) /\ Last \notin Bl(b)
        /\ b[First].fnext \in Frees(b) \cup {Last} /\ b[b[First].fnext].fprev = First
        /\ \A o \in Frees(b) :
             /\ b[o].fprev \in Frees(b) \cup {First} /\ b[o].fnext \in Frees(b) \cup {Last}
             /\ b[o].fprev # o /\ b[o].fnext # o /\ b[o].fprev # b[o].fnext
             /\ b[b[o].fprev].fnext = o /\ b[b[o].fnext].fprev = o
             /\ b[o].fprev \in DOMAIN b /\ b[o].fnext \in DOMAIN b /\ b[o].size \in Int
        /\ b[First].fnext \in DOMAIN b /\ First # Last
<1>1. Shape(b) /\ Listed(b, Frees(b), a - Hdr)
  BY DEF SegmentOK
<1>2. b \in [DOMAIN b -> Header] /\ {First, Empty, Last} \subseteq DOMAIN b /\ 0 \notin DOMAIN b
  BY <1>1, ShapeFacts DEF Shape
<1>3. Frees(b) \subseteq Bl(b) /\ Bl(b) \subseteq DOMAIN b /\ First \notin Bl(b) /\ Last \notin Bl(b)
  BY DEF Frees, Bl
<1>4. /\ b[First].fnext \in Frees(b) \cup {Last} /\ b[b[First].fnext].fprev = First
      /\ \A o \in Frees(b) :
             /\ b[o].fprev \in Frees(b) \cup {First} /\ b[o].fnext \in Frees(b) \cup {Last}
             /\ b[o].fprev # o /\ b[o].fnext # o /\ b[o].fprev # b[o].fnext
             /\ b[b[o].fprev].fnext = o /\ b[b[o].fnext].fprev = o
  BY <1>1, LinkFacts
<1>5. \A o \in Frees(b) : b[o].fprev \in DOMAIN b /\ b[o].fnext \in DOMAIN b /\ b[o].size \in Int
  <2> TAKE o \in Frees(b)
  <2>1. b[o] \in Header
    BY <1>2, <1>3
  <2> QED
    BY <1>2, <1>3, <1>4, <2>1 DEF Header
<1>6. b[First].fnext \in DOMAIN b
  BY <1>2, <1>3, <1>4
<1>7. First # Last
  BY Layout
<1> QED
  BY <1>2, <1>3, <1>4, <1>5, <1>6, <1>7

\* A segment from which a block has been taken is sound if its list is.
LEMMA TakenSegment ==
  ASSUME NEW b, NEW a, SegmentOK(b, a), NEW o \in Frees(b), NEW c, NEW r \in Nat, TakenFrom(b, c, o, r),
         r >= MINBLOCKSIZE, PartOf(b, o, r),
         Listed(c, Frees(c), (a - Hdr) - r), Forgotten(c)
  PROVE SegmentOK(c, a - r)
<1>1. Shape(b) /\ Tagged(b) /\ a \in Int /\ Below(b, a - Hdr)
  BY DEF SegmentOK
<1>2. Shape(c) /\ Tagged(c)
  BY <1>1, TakenShape
<1>3. b[o].size \in Int /\ Hdr \in Int
  BY SegmentLinks, Layout
<1>4. r <= b[o].size /\ a - Hdr \in Int /\ (a - r) - Hdr = (a - Hdr) - r /\ a - r \in Int
  BY <1>1, <1>3, Layout DEF PartOf
<1>5. Below(c, (a - Hdr) - r)
  BY <1>1, <1>4, TakenBelow
<1> QED
  BY <1>2, <1>4, <1>5 DEF SegmentOK

\* A free block that is large enough is taken as it is, or split.
LEMMA CarveSegment ==
  ASSUME NEW b, NEW a, SegmentOK(b, a), NEW o \in Frees(b), NEW r \in Nat,
         r >= MINBLOCKSIZE, Aligned(r), r <= b[o].size
  PROVE \E s \in Nat : /\ s >= r /\ s >= MINBLOCKSIZE
                       /\ TakenFrom(b, Carve(b, o, r), o, s) /\ SegmentOK(Carve(b, o, r), a - s)
                       /\ s <= b[o].size
<1> DEFINE F == Frees(b)
           p == b[o].fprev
           n == b[o].fnext
           e == o + b[o].size
           c == Carve(b, o, r)
<1>1. /\ b \in [DOMAIN b -> Header] /\ {First, Empty, Last} \subseteq DOMAIN b /\ 0 \notin DOMAIN b
      /\ F \subseteq Bl(b) /\ Bl(b) \subseteq DOMAIN b /\ First \notin Bl(b) /\ Last \notin Bl(b)
      /\ p \in F \cup {First} /\ n \in F \cup {Last} /\ p # o /\ n # o /\ p # n
      /\ b[p].fnext = o /\ b[n].fprev = o /\ p \in DOMAIN b /\ n \in DOMAIN b /\ First # Last
  BY SegmentLinks
<1>2. /\ Shape(b) /\ Listed(b, F, a - Hdr) /\ a - Hdr \in Int /\ Forgotten(b) /\ a \in Int
  BY Layout DEF SegmentOK
<1>3. /\ o \in Bl(b) /\ o \in DOMAIN b /\ o \in Nat /\ b[o].size \in Nat /\ e \in DOMAIN b /\ e # o /\ o # First /\ o # Last /\ e # First
      /\ \A x \in F : b[x].size \in Int
  <2>1. o \in Bl(b) /\ o \in DOMAIN b
    BY <1>1
  <2> QED
    BY <1>1, <1>2, <2>1, ShapeFacts DEF Bl
<1>4. \A x \in Bl(b) : x \in F <=> b[x].fnext # 0
  BY DEF Frees
<1>5. b[First].fprev = 0 /\ b[Last].fnext = 0
  BY <1>2 DEF Shape
<1>6. CASE TooSmallToSplit(b[o].size, r)
  <2>1. c = TakeWhole(b, o)
    BY <1>6 DEF Carve
  <2> HIDE DEF c
  <2>2. /\ c \in [DOMAIN b -> Header] /\ DOMAIN c = DOMAIN b
        /\ \A x \in DOMAIN b :
             /\ c[x].size = b[x].size
             /\ c[x].prev = (IF x = e THEN 0 ELSE b[x].prev)
             /\ c[x].fnext = (IF x = o THEN 0 ELSE IF x = p THEN n ELSE b[x].fnext)
             /\ c[x].fprev = (IF x = o THEN 0 ELSE IF x = n THEN p ELSE b[x].fprev)
    BY <1>1, <1>3, <2>1, TakeWholeFields
  <2> HIDE DEF F, p, n, e
  <2>3. Frees(c) = F \ {o} /\ Bl(c) = Bl(b)
    <3>1. Bl(c) = Bl(b)
      BY <2>2 DEF Bl
    <3>2. n # 0 /\ o # 0
      BY <1>1, <1>3
    <3>3. \A x \in Bl(b) : c[x].fnext # 0 <=> b[x].fnext # 0 /\ x # o
      BY <1>1, <2>2, <3>2
    <3>4. \A x : x \in Frees(c) <=> x \in Bl(b) /\ c[x].fnext # 0
      BY <3>1 DEF Frees
    <3>5. \A x : x \in F \ {o} <=> x \in Bl(b) /\ b[x].fnext # 0 /\ x # o
      BY <1>1, <1>4
    <3> QED
      BY <3>1, <3>3, <3>4, <3>5
  <2>4. TakenFrom(b, c, o, b[o].size)
    <3>1. c[First].fprev = 0 /\ c[Last].fnext = 0
      BY <1>1, <1>3, <1>5, <2>2
    <3>2. b[o].size - b[o].size = 0 /\ ~(b[o].size < b[o].size)
      BY <1>3
    <3>3. DOMAIN c = DOMAIN b \cup {e}
      BY <1>3, <2>2
    <3>4. c[o].size = b[o].size /\ c[e].prev = 0
      BY <1>3, <2>2
    <3> QED
      BY <2>2, <2>3, <3>1, <3>2, <3>3, <3>4 DEF TakenFrom, e, F
  <2>5. Listed(c, F \ {o}, (a - Hdr) - b[o].size)
    <3>1. c[p].fnext = n /\ c[n].fprev = p
      BY <1>1, <2>2
    <3>2. \A x \in F \cup {First} : x \notin {o, p} => c[x].fnext = b[x].fnext
      BY <1>1, <2>2
    <3>3. \A x \in F \cup {Last} : x \notin {o, n} => c[x].fprev = b[x].fprev
      BY <1>1, <2>2
    <3>4. \A x \in F \ {o} : c[x].size = b[x].size
      BY <1>1, <2>2
    <3>5. o \in F
      BY DEF F
    <3> QED
      BY <1>2, <1>3, <3>1, <3>2, <3>3, <3>4, <3>5, RemoveBlock DEF p, n
  <2>6. Forgotten(c)
    <3>1. \A x \in Bl(b) \ F : x # n
      BY <1>1
    <3>2. \A x \in Bl(b) \ F : b[x].fprev = 0
      BY <1>2 DEF Forgotten, F
    <3>3. \A x \in (Bl(b) \ F) \cup {o} : c[x].fprev = 0
      BY <1>1, <1>3, <2>2, <3>1, <3>2
    <3> QED
      BY <2>3, <3>3 DEF Forgotten
  <2>7. b[o].size >= MINBLOCKSIZE
    BY <1>2, <1>3 DEF Shape
  <2>8. SegmentOK(c, a - b[o].size)
    <3>1. PartOf(b, o, b[o].size)
      BY DEF PartOf
    <3> QED
      BY <1>3, <2>3, <2>4, <2>5, <2>6, <2>7, <3>1, TakenSegment
  <2> QED
    BY <1>3, <2>4, <2>7, <2>8 DEF c
<1>7. CASE ~TooSmallToSplit(b[o].size, r)
  <2> DEFINE y == o + r
             z == b[o].size - r
  <2>1. c = SplitBlock(b, o, r)
    BY <1>7 DEF Carve
  <2>2. r + MINBLOCKSIZE <= b[o].size /\ r < b[o].size /\ z \in Int /\ y \in Int /\ z # 0
    BY <1>3, <1>7, Layout DEF TooSmallToSplit
  <2>3. y \notin DOMAIN b /\ o < y
    <3>1. y \in DOMAIN b => y <= o \/ e <= y
      BY <1>2, <1>3 DEF Shape
    <3> QED
      BY <1>3, <2>2, <3>1, Layout
  <2> HIDE DEF c
  <2>4. /\ c \in [DOMAIN b \cup {y} -> Header] /\ DOMAIN c = DOMAIN b \cup {y}
        /\ c[y] = [size |-> z, prev |-> 0, fnext |-> n, fprev |-> p]
        /\ \A x \in DOMAIN b :
             /\ c[x].size = (IF x = o THEN r ELSE b[x].size)
             /\ c[x].prev = (IF x = e THEN z ELSE b[x].prev)
             /\ c[x].fnext = (IF x = o THEN 0 ELSE IF x = p THEN y ELSE b[x].fnext)
             /\ c[x].fprev = (IF x = o THEN 0 ELSE IF x = n THEN y ELSE b[x].fprev)
    <3>1. IsSplit(b, c, o, r)
      BY <1>1, <1>3, <2>1, <2>3, SplitFields
    <3> QED
      BY <3>1 DEF IsSplit
  <2>5. c[y].size = z /\ c[y].prev = 0 /\ c[y].fnext = n /\ c[y].fprev = p
    BY <2>4
  <2>6. y # First /\ y # Last /\ y # o /\ y \notin F /\ y # 0
    BY <1>1, <1>3, <2>2, <2>3, Layout
  <2> HIDE DEF F, p, n, e, y, z
  <2>7. Frees(c) = (F \ {o}) \cup {y} /\ Bl(c) = Bl(b) \cup {y}
    <3>1. Bl(c) = Bl(b) \cup {y}
      BY <2>4, <2>6 DEF Bl
    <3>2. n # 0 /\ o # 0
      BY <1>1, <1>3
    <3>3. \A x \in Bl(b) : c[x].fnext # 0 <=> b[x].fnext # 0 /\ x # o
      BY <1>1, <2>4, <2>6, <3>2
    <3>4. \A x : x \in Frees(c) <=> x \in Bl(b) \cup {y} /\ c[x].fnext # 0
      BY <3>1 DEF Frees
    <3>5. \A x : x \in F \ {o} <=> x \in Bl(b) /\ b[x].fnext # 0 /\ x # o
      BY <1>1, <1>4
    <3> QED
      BY <2>5, <3>1, <3>2, <3>3, <3>4, <3>5
  <2>8. TakenFrom(b, c, o, r)
    <3>1. c[First].fprev = 0 /\ c[Last].fnext = 0
      BY <1>1, <1>3, <1>5, <2>4
    <3>2. c[o].size = r /\ c[e].prev = z /\ (\A x \in DOMAIN b \ {o} : c[x].size = b[x].size)
          /\ \A x \in DOMAIN b \ {e} : c[x].prev = b[x].prev
      BY <1>3, <2>4
    <3>3. \A x \in Bl(c) : x \in Frees(c) <=> (x \in F /\ x # o) \/ (r < b[o].size /\ x = y)
      BY <2>2, <2>6, <2>7
    <3>4. c \in [DOMAIN c -> Header]
      BY <2>4
    <3> QED
      BY <2>4, <2>5, <3>1, <3>2, <3>3, <3>4 DEF TakenFrom, e, F, y, z
  <2>9. Listed(c, (F \ {o}) \cup {y}, ((a - Hdr) - b[o].size) + c[y].size)
    <3>1. c[p].fnext = y /\ c[n].fprev = y
      BY <1>1, <2>4
    <3>2. \A x \in F \cup {First} : x \notin {o, p} => c[x].fnext = b[x].fnext
      BY <1>1, <2>4
    <3>3. \A x \in F \cup {Last} : x \notin {o, n} => c[x].fprev = b[x].fprev
      BY <1>1, <2>4
    <3>4. \A x \in F \ {o} : c[x].size = b[x].size
      BY <1>1, <2>4
    <3>5. o \in F
      BY DEF F
    <3> QED
      BY <1>2, <1>3, <2>2, <2>5, <2>6, <3>1, <3>2, <3>3, <3>4, <3>5, ReplaceBlock DEF p, n
  <2>10. ((a - Hdr) - b[o].size) + c[y].size = (a - Hdr) - r
    BY <1>2, <1>3, <2>5 DEF z
  <2>11. Forgotten(c)
    <3>1. \A x \in Bl(b) \ F : x # n
      BY <1>1
    <3>2. \A x \in Bl(b) \ F : b[x].fprev = 0
      BY <1>2 DEF Forgotten, F
    <3>3. \A x \in (Bl(b) \ F) \cup {o} : c[x].fprev = 0
      BY <1>1, <1>3, <2>4, <3>1, <3>2
    <3> QED
      BY <2>7, <3>3 DEF Forgotten
  <2>12. SegmentOK(c, a - r)
    <3>1. PartOf(b, o, r)
      BY <2>2 DEF PartOf
    <3> QED
      BY <2>2, <2>7, <2>8, <2>9, <2>10, <2>11, <3>1, TakenSegment
  <2> QED
    BY <2>8, <2>12 DEF c
<1> QED
  BY <1>6, <1>7

\* While block o of b is being freed: in c the blocks from lo to hi, which are o
\* and free neighbours, are one block that is in no list yet.
Pending(b, c, a, o, lo, hi) ==
  /\ lo \in Bl(b) /\ hi \in Bl(b) \cup {Last} /\ lo <= o /\ o + b[o].size <= hi /\ b[lo].prev = 0
  /\ \A x \in Bl(b) : lo <= x /\ x < hi => x = o \/ x \in Frees(b)
  /\ c \in [DOMAIN c -> Header] /\ c[First].fprev = 0 /\ c[Last].fnext = 0
  /\ DOMAIN c = {x \in DOMAIN b : x <= lo \/ hi <= x}
  /\ c[lo].size = hi - lo /\ \A x \in DOMAIN c \ {lo} : c[x].size = b[x].size
  /\ \A x \in DOMAIN c : c[x].prev = b[x].prev
  /\ \A x \in Bl(c) \ {lo} : (c[x].fnext # 0 <=> x \in Frees(b)) /\ (x \notin Frees(b) => c[x].fprev = 0)
  /\ Listed(c, {x \in Frees(b) : x < lo \/ hi <= x}, ((a - Hdr) + b[o].size) - (hi - lo))
  /\ \A f, t : IsBelow(b, t, f) => f[hi] - f[lo] = (hi - lo) - b[o].size

\* The block before a free block is not free.
LEMMA NoFreeBefore ==
  ASSUME NEW b, Shape(b), Tagged(b), NEW q \in Frees(b)
  PROVE b[q].prev = 0
<1>1. q \in Bl(b) /\ q \in DOMAIN b /\ q # First
  BY DEF Frees, Bl
<1>2. CASE q = Empty
  BY <1>2 DEF Shape
<1>3. CASE q # Empty
  <2>1. PICK w \in Bl(b) : w + b[w].size = q
    BY <1>1, <1>3, Predecessor
  <2>2. b[w + b[w].size].prev = (IF w \in Frees(b) THEN b[w].size ELSE 0) /\ (w \in Frees(b) => w + b[w].size \notin Frees(b))
    BY DEF Tagged
  <2> QED
    BY <2>1, <2>2
<1> QED
  BY <1>2, <1>3

\* Merging with the block before, if it is free.
LEMMA MergePrevSegment ==
  ASSUME NEW b, NEW a, SegmentOK(b, a), NEW o \in Bl(b), o \notin Frees(b)
  PROVE \E lo, c : MergePrev(b, o) = <<c, lo>> /\ Pending(b, c, a, o, lo, o + b[o].size)
<1> DEFINE F == Frees(b)
           D == DOMAIN b
           s == b[o].size
           hi == o + s
<1>1. /\ b \in [D -> Header] /\ {First, Empty, Last} \subseteq D /\ 0 \notin D
      /\ F \subseteq Bl(b) /\ Bl(b) \subseteq D /\ First \notin Bl(b) /\ Last \notin Bl(b) /\ First # Last
  BY SegmentLinks
<1>2. Shape(b) /\ Tagged(b) /\ Forgotten(b) /\ Listed(b, F, a - Hdr) /\ a \in Int /\ a - Hdr \in Int /\ Hdr \in Int
  BY Layout DEF SegmentOK
<1>3. /\ o \in D /\ o \in Nat /\ s \in Nat /\ s > 0 /\ hi \in D /\ hi \in Nat /\ hi \in Bl(b) \cup {Last} /\ hi # First
      /\ \A x \in D : x \in Nat /\ (x <= o \/ hi <= x) /\ b[x].size \in Int
      /\ o # First /\ o # Last
  <2>1. o \in D /\ o # First /\ o # Last
    BY <1>1
  <2>2. hi \in Bl(b) \cup {Last} /\ \A x \in D : x <= o \/ hi <= x
    BY <1>2 DEF Shape
  <2> QED
    BY <1>2, <2>1, <2>2, ShapeFacts
<1>4. \A x \in Bl(b) : x \in F <=> b[x].fnext # 0
  BY DEF Frees
<1>5. b[First].fprev = 0 /\ b[Last].fnext = 0
  BY <1>2 DEF Shape
<1>6. \A f, t : IsBelow(b, t, f) => f[hi] = f[o] /\ f[o] \in Int /\ f[hi] \in Int
  <2> TAKE f, t
  <2> HAVE IsBelow(b, t, f)
  <2>1. f[hi] = f[o] + 0 /\ f \in [D -> Int]
    BY DEF IsBelow
  <2> QED
    BY <1>3, <2>1
<1>7. \A x \in Bl(b) \ F : b[x].fprev = 0
  BY <1>2 DEF Forgotten
<1>8. CASE b[o].prev = 0
  <2>1. MergePrev(b, o) = <<b, o>>
    BY <1>8 DEF MergePrev
  <2>2. D = {x \in D : x <= o \/ hi <= x} /\ F = {x \in F : x < o \/ hi <= x}
    <3>1. \A x \in F : x \in D /\ x # o
      BY <1>1
    <3>2. \A x \in F : x < o \/ hi <= x
      BY <1>3, <3>1
    <3> QED
      BY <1>3, <3>2
  <2>3. hi - o = s /\ ((a - Hdr) + s) - (hi - o) = a - Hdr /\ o <= o /\ hi <= hi
    BY <1>2, <1>3
  <2>4. \A f, t : IsBelow(b, t, f) => f[hi] - f[o] = (hi - o) - s
    BY <1>3, <1>6, <2>3
  <2>5. \A x \in Bl(b) : o <= x /\ x < hi => x = o
    BY <1>1, <1>3
  <2> HIDE DEF s
  <2>6. Pending(b, b, a, o, o, hi)
    BY <1>1, <1>2, <1>3, <1>4, <1>5, <1>7, <1>8, <2>2, <2>3, <2>4, <2>5 DEF Pending, s
  <2> QED
    BY <2>1, <2>6 DEF s
<1>9. CASE b[o].prev # 0
  <2>1. PICK q \in Bl(b) : q + b[q].size = o
    <3>1. o # Empty
      BY <1>2, <1>9 DEF Shape
    <3> QED
      BY <1>2, <1>3, <3>1, Predecessor
  <2> DEFINE w == b[q].size
  <2>2. q \in F /\ b[o].prev = w
    BY <1>9, <1>2, <2>1 DEF Tagged
  <2>3. /\ q \in D /\ q \in Nat /\ w \in Nat /\ q < o /\ o = q + w /\ q # First /\ q # Last /\ q # hi /\ o - b[o].prev = q
        /\ \A x \in D : x <= q \/ o <= x
    <3>1. q \in D /\ q # First /\ q # Last /\ w \in Nat /\ w > 0
      BY <1>1, <1>2, <2>1, ShapeFacts
    <3>2. \A x \in D : x <= q \/ q + b[q].size <= x
      BY <1>2 DEF Shape
    <3> QED
      BY <1>3, <2>1, <2>2, <3>1, <3>2
  <2>4. /\ b[q].fprev \in F \cup {First} /\ b[q].fnext \in F \cup {Last}
        /\ b[q].fprev # q /\ b[q].fnext # q /\ b[q].fprev # b[q].fnext
        /\ b[q].fprev \in D /\ b[q].fnext \in D
    BY <2>2, SegmentLinks
  <2> DEFINE p == b[q].fprev
             n == b[q].fnext
             u == Unlink(b, q)
             d == [u EXCEPT ![q].size = w + s]
             c == Restrict(d, D \ {o})
  <2>5. /\ u \in [D -> Header] /\ DOMAIN u = D
        /\ \A x \in D :
             /\ u[x].size = b[x].size /\ u[x].prev = b[x].prev
             /\ u[x].fnext = (IF x = p THEN n ELSE b[x].fnext)
             /\ u[x].fprev = (IF x = n THEN p ELSE b[x].fprev)
    <3>1. IsUnlinked(b, u, q)
      BY <1>1, <2>3, <2>4, UnlinkFields
    <3> QED
      BY <3>1 DEF IsUnlinked
  <2>6. MergePrev(b, o) = <<c, q>>
    <3>1. u[q].size = w
      BY <2>3, <2>5
    <3> HIDE DEF u
    <3>2. [u EXCEPT ![q].size = @ + b[o].size] = d
      BY <3>1
    <3> QED
      BY <1>9, <2>3, <3>2 DEF MergePrev, u
  <2> HIDE DEF u, p, n, w, s, hi
  <2>7. /\ d \in [D -> Header]
        /\ \A x \in D : /\ d[x].size = (IF x = q THEN w + s ELSE u[x].size) /\ d[x].prev = u[x].prev
                        /\ d[x].fnext = u[x].fnext /\ d[x].fprev = u[x].fprev
    <3>1. w + s \in Int
      BY <1>3, <2>3
    <3> QED
      BY <2>3, <2>5, <3>1, WriteSize
  <2> HIDE DEF d
  <2>8. /\ c \in [D \ {o} -> Header] /\ DOMAIN c = D \ {o}
        /\ \A x \in D \ {o} : c[x] = d[x]
    BY <2>7 DEF Restrict
  <2> HIDE DEF c
  <2>9. \A x \in D \ {o} :
          /\ c[x].size = (IF x = q THEN w + s ELSE b[x].size) /\ c[x].prev = b[x].prev
          /\ c[x].fnext = (IF x = p THEN n ELSE b[x].fnext)
          /\ c[x].fprev = (IF x = n THEN p ELSE b[x].fprev)
    BY <2>5, <2>7, <2>8
  <2>10. DOMAIN c = {x \in D : x <= q \/ hi <= x}
    <3>1. \A x \in D : x # o <=> x <= q \/ hi <= x
      BY <1>3, <2>3 DEF hi
    <3> QED
      BY <2>8, <3>1
  <2>11. c[q].size = hi - q /\ w + s = hi - q /\ q # o /\ First # o /\ Last # o
    BY <1>3, <2>3, <2>9 DEF hi
  <2>12. c[First].fprev = 0 /\ c[Last].fnext = 0
    <3>1. p # Last /\ n # First
      BY <1>1, <2>4 DEF p, n
    <3> QED
      BY <1>1, <1>5, <2>9, <2>11, <3>1
  <2>13. \A x \in Bl(c) \ {q} : (c[x].fnext # 0 <=> x \in F) /\ (x \notin F => c[x].fprev = 0)
    <3> TAKE x \in Bl(c) \ {q}
    <3>1. x \in Bl(b) /\ x # o
      BY <2>8 DEF Bl
    <3>2. n # 0 /\ p \in F \cup {First} /\ n \in F \cup {Last}
      BY <1>1, <2>4 DEF p, n
    <3>3. c[x].fnext = (IF x = p THEN n ELSE b[x].fnext) /\ c[x].fprev = (IF x = n THEN p ELSE b[x].fprev)
      BY <1>1, <2>9, <3>1
    <3>4. x = p => x \in F
      BY <1>1, <3>1, <3>2
    <3>5. x = n => x \in F
      BY <1>1, <3>1, <3>2
    <3> QED
      BY <1>4, <1>7, <3>1, <3>2, <3>3, <3>4, <3>5
  <2>14. {x \in F : x < q \/ hi <= x} = F \ {q}
    <3>1. \A x \in F : x \in D /\ x # o /\ x \in Nat
      BY <1>1, <1>3
    <3>2. \A x \in F : x < q \/ hi <= x <=> x # q
      BY <1>3, <2>3, <3>1 DEF hi
    <3> QED
      BY <3>2
  <2>15. Listed(c, F \ {q}, (a - Hdr) - b[q].size)
    <3>0. \A x \in F \cup {First, Last} : x \in D \ {o}
      BY <1>1, <1>3
    <3>1. c[p].fnext = n /\ c[n].fprev = p
      BY <2>4, <2>9, <3>0 DEF p, n
    <3>2. \A x \in F \cup {First} : x \notin {q, p} => c[x].fnext = b[x].fnext
      BY <2>9, <3>0
    <3>3. \A x \in F \cup {Last} : x \notin {q, n} => c[x].fprev = b[x].fprev
      BY <2>9, <3>0
    <3>4. \A x \in F \ {q} : c[x].size = b[x].size
      BY <2>9, <3>0
    <3>5. \A x \in F : b[x].size \in Int
      BY <1>3, <3>0
    <3> HIDE DEF F
    <3> QED
      BY <1>2, <2>2, <3>1, <3>2, <3>3, <3>4, <3>5, RemoveBlock DEF p, n
  <2>16. (a - Hdr) - b[q].size = ((a - Hdr) + s) - (hi - q)
    BY <1>2, <1>3, <2>3, <2>11 DEF w
  <2>17. \A f, t : IsBelow(b, t, f) => f[hi] - f[q] = (hi - q) - s
    <3> TAKE f, t
    <3> HAVE IsBelow(b, t, f)
    <3>1. f[o] = f[q] + w /\ f \in [D -> Int]
      BY <2>1, <2>2 DEF IsBelow, w
    <3>2. f[q] \in Int /\ f[o] \in Int /\ f[hi] = f[o]
      BY <1>3, <1>6, <2>3, <3>1 DEF hi, s
    <3> QED
      BY <1>3, <2>3, <2>11, <3>1, <3>2
  <2>18. \A x \in Bl(b) : q <= x /\ x < hi => x = o \/ x \in F
    BY <1>1, <1>3, <2>2, <2>3 DEF hi
  <2>19. b[q].prev = 0
    BY <1>2, <2>2, NoFreeBefore
  <2>20. q <= o /\ hi <= hi /\ hi \in Bl(b) \cup {Last}
    BY <1>3, <2>3 DEF hi
  <2>21. c \in [DOMAIN c -> Header] /\ (\A x \in DOMAIN c \ {q} : c[x].size = b[x].size) /\ \A x \in DOMAIN c : c[x].prev = b[x].prev
    BY <2>8, <2>9
  <2>22. Pending(b, c, a, o, q, hi)
    <3> HIDE DEF D
    <3>1. o + b[o].size = hi /\ s = b[o].size
      BY DEF hi, s
    <3> QED
      BY <2>1, <2>10, <2>11, <2>12, <2>13, <2>14, <2>15, <2>16, <2>17, <2>18, <2>19, <2>20, <2>21, <3>1 DEF Pending, D
  <2> QED
    BY <2>6, <2>22 DEF hi, s
<1> QED
  BY <1>8, <1>9

\* Merging with the block after, if it is free.
LEMMA MergeNextSegment ==
  ASSUME NEW b, NEW a, SegmentOK(b, a), NEW o \in Bl(b), o \notin Frees(b), NEW c, NEW lo,
         Pending(b, c, a, o, lo, o + b[o].size)
  PROVE \E hi : hi \notin Frees(b) /\ Pending(b, MergeNext(c, lo), a, o, lo, hi)
<1> DEFINE F == Frees(b)
           D == DOMAIN b
           C == DOMAIN c
           s == b[o].size
           h == o + s
           G == {x \in F : x < lo \/ h <= x}
           t == ((a - Hdr) + s) - (h - lo)
<1>1. /\ b \in [D -> Header] /\ {First, Empty, Last} \subseteq D /\ 0 \notin D
      /\ F \subseteq Bl(b) /\ Bl(b) \subseteq D /\ First \notin Bl(b) /\ Last \notin Bl(b) /\ First # Last
  BY SegmentLinks
<1>2. Shape(b) /\ Tagged(b) /\ a \in Int /\ Hdr \in Int
  BY Layout DEF SegmentOK
<1>3. /\ lo \in Bl(b) /\ h \in Bl(b) \cup {Last} /\ lo <= o /\ b[lo].prev = 0
      /\ \A x \in Bl(b) : lo <= x /\ x < h => x = o \/ x \in F
      /\ c \in [C -> Header] /\ c[First].fprev = 0 /\ c[Last].fnext = 0
      /\ C = {x \in D : x <= lo \/ h <= x}
      /\ c[lo].size = h - lo /\ \A x \in C \ {lo} : c[x].size = b[x].size
      /\ \A x \in C : c[x].prev = b[x].prev
      /\ \A x \in Bl(c) \ {lo} : (c[x].fnext # 0 <=> x \in F) /\ (x \notin F => c[x].fprev = 0)
      /\ Listed(c, G, t)
      /\ \A f, v : IsBelow(b, v, f) => f[h] - f[lo] = (h - lo) - s
  BY DEF Pending
<1>4. /\ \A x \in D : x \in Nat /\ b[x].size \in Int
      /\ s \in Nat /\ s > 0 /\ o \in Nat /\ h \in Nat /\ lo \in Nat /\ lo < h /\ lo \in D /\ h \in D /\ o < h
      /\ lo # First /\ lo # Last /\ h # First /\ t \in Int
  <2>1. \A x \in D : x \in Nat /\ b[x].size \in Int
    BY <1>2, ShapeFacts
  <2>2. o \in Nat /\ lo \in Nat /\ s \in Nat /\ s > 0 /\ lo \in D /\ h \in D /\ h # First
    BY <1>1, <1>2, <1>3, <2>1, ShapeFacts
  <2> QED
    BY <1>1, <1>2, <1>3, <2>1, <2>2
<1>5. /\ {First, Last, lo, h} \subseteq C /\ G \subseteq C /\ lo \notin G
      /\ \A x \in G : x \in F /\ x \in Bl(b) /\ x \in Bl(c)
  <2>1. First <= lo /\ h <= Last /\ First \in D /\ Last \in D
    BY <1>1, <1>2, <1>4, ShapeFacts
  <2>2. \A x \in G : x \in D /\ x \in Nat /\ x \in Bl(b) /\ x \in F /\ (x < lo \/ h <= x)
    BY <1>1, <1>4
  <2>3. {First, Last, lo, h} \subseteq C
    BY <1>3, <1>4, <2>1
  <2>4. \A x \in G : x \in C /\ x # lo
    BY <1>3, <1>4, <2>2
  <2>5. \A x \in G : x \in Bl(c)
    BY <2>2, <2>4 DEF Bl
  <2> HIDE DEF G, C
  <2> QED
    BY <2>2, <2>3, <2>4, <2>5
<1>6. lo + c[lo].size = h
  BY <1>3, <1>4
<1>7. CASE c[h].fnext = 0
  <2>1. MergeNext(c, lo) = c
    BY <1>6, <1>7 DEF MergeNext
  <2>2. h \notin F
    <3> SUFFICES ASSUME h \in F PROVE FALSE
      OBVIOUS
    <3>1. h \in Bl(c) /\ h # lo
      BY <1>1, <1>4, <1>5 DEF Bl
    <3> QED
      BY <1>3, <1>7, <3>1
  <2> QED
    BY <2>1, <2>2
<1>8. CASE c[h].fnext # 0
  <2>1. h \in Bl(c) /\ h \in Bl(b) /\ h \in F /\ h \in G /\ h # lo /\ h # Last
    <3>1. h # Last
      BY <1>3, <1>8
    <3>2. h \in Bl(c) /\ h # lo /\ h \in Bl(b)
      BY <1>3, <1>4, <1>5, <3>1 DEF Bl
    <3>3. h \in F
      BY <1>3, <1>8, <3>2
    <3>4. h <= h
      BY <1>4
    <3> QED
      BY <3>1, <3>2, <3>3, <3>4
  <2> DEFINE w  == b[h].size
             hi == h + w
             p  == c[h].fprev
             n  == c[h].fnext
             u  == Unlink(c, h)
             d  == [u EXCEPT ![lo].size = (h - lo) + w]
             e  == Restrict(d, C \ {h})
  <2>2. /\ w \in Nat /\ w > 0 /\ hi \in D /\ hi \in Nat /\ h < hi /\ hi \in Bl(b) \cup {Last} /\ hi \notin F
        /\ \A x \in D : x <= h \/ hi <= x
    <3>1. w \in Nat /\ w > 0 /\ hi \in D
      BY <1>2, <2>1, ShapeFacts
    <3>2. hi \in Bl(b) \cup {Last} /\ \A x \in D : x <= h \/ hi <= x
      BY <1>2, <2>1 DEF Shape
    <3>3. hi \notin F
      BY <1>2, <2>1 DEF Tagged
    <3> QED
      BY <1>4, <3>1, <3>2, <3>3
  <2>3. /\ p \in G \cup {First} /\ n \in G \cup {Last} /\ p # h /\ n # h /\ p # n /\ p \in C /\ n \in C /\ n # 0
    <3>1. /\ p \in G \cup {First} /\ n \in G \cup {Last} /\ p # h /\ n # h /\ p # n
      <4> HIDE DEF G, t
      <4> QED
        BY <1>3, <2>1, LinkFacts
    <3> QED
      BY <1>5, <1>8, <3>1
  <2>4. c[h].size = w
    BY <1>3, <1>5, <2>1
  <2> HIDE DEF C, G, t, w, p, n
  <2>5. /\ u \in [C -> Header] /\ DOMAIN u = C
        /\ \A x \in C :
             /\ u[x].size = c[x].size /\ u[x].prev = c[x].prev
             /\ u[x].fnext = (IF x = p THEN n ELSE c[x].fnext)
             /\ u[x].fprev = (IF x = n THEN p ELSE c[x].fprev)
    <3>1. IsUnlinked(c, u, h)
      BY <1>3, <1>5, <2>3, UnlinkFields DEF C, p, n
    <3> QED
      BY <3>1 DEF IsUnlinked, C, p, n
  <2>6. MergeNext(c, lo) = e
    <3>1. u[lo].size = h - lo
      BY <1>3, <1>5, <2>5
    <3> HIDE DEF u, h
    <3>2. [u EXCEPT ![lo].size = @ + w] = d
      BY <3>1
    <3> QED
      BY <1>6, <1>8, <2>4, <3>2 DEF MergeNext, u, C
  <2> HIDE DEF u, s, h, hi
  <2>7. /\ d \in [C -> Header]
        /\ \A x \in C : /\ d[x].size = (IF x = lo THEN (h - lo) + w ELSE u[x].size) /\ d[x].prev = u[x].prev
                        /\ d[x].fnext = u[x].fnext /\ d[x].fprev = u[x].fprev
    <3>1. (h - lo) + w \in Int
      BY <1>4, <2>2
    <3> QED
      BY <1>5, <2>5, <3>1, WriteSize
  <2> HIDE DEF d
  <2>8. /\ e \in [C \ {h} -> Header] /\ DOMAIN e = C \ {h}
        /\ \A x \in C \ {h} : e[x] = d[x]
    BY <2>7 DEF Restrict
  <2> HIDE DEF e
  <2>9. \A x \in C \ {h} :
          /\ e[x].size = (IF x = lo THEN (h - lo) + w ELSE c[x].size) /\ e[x].prev = c[x].prev
          /\ e[x].fnext = (IF x = p THEN n ELSE c[x].fnext)
          /\ e[x].fprev = (IF x = n THEN p ELSE c[x].fprev)
    BY <2>5, <2>7, <2>8
  <2>10. DOMAIN e = {x \in D : x <= lo \/ hi <= x}
    <3>1. \A x \in D : (x <= lo \/ h <= x) /\ x # h <=> x <= lo \/ hi <= x
      BY <1>4, <2>2
    <3>2. C \ {h} = {x \in D : (x <= lo \/ h <= x) /\ x # h}
      BY <1>3
    <3> QED
      BY <2>8, <3>1, <3>2
  <2>11. e[lo].size = hi - lo /\ (h - lo) + w = hi - lo /\ First # h
    BY <1>4, <1>5, <2>1, <2>2, <2>9 DEF hi
  <2>12. e[First].fprev = 0 /\ e[Last].fnext = 0
    <3>1. p # Last /\ n # First
      BY <1>1, <1>5, <2>3
    <3> QED
      BY <1>3, <1>5, <2>1, <2>9, <2>11, <3>1
  <2>13. \A x \in Bl(e) \ {lo} : (e[x].fnext # 0 <=> x \in F) /\ (x \notin F => e[x].fprev = 0)
    <3> TAKE x \in Bl(e) \ {lo}
    <3>1. x \in Bl(c) \ {lo} /\ x # h /\ x \in C /\ x # First /\ x # Last
      BY <2>8 DEF Bl, C
    <3>2. e[x].fnext = (IF x = p THEN n ELSE c[x].fnext) /\ e[x].fprev = (IF x = n THEN p ELSE c[x].fprev)
      BY <2>9, <3>1
    <3>3. x = p => x \in F
      BY <1>5, <2>3, <3>1
    <3>4. x = n => x \in F
      BY <1>5, <2>3, <3>1
    <3> QED
      BY <1>3, <2>3, <3>1, <3>2, <3>3, <3>4
  <2>14. {x \in F : x < lo \/ hi <= x} = G \ {h}
    <3>1. \A x \in F : x \in D /\ x \in Nat
      BY <1>1, <1>4
    <3>2. \A x \in F : x < lo \/ hi <= x <=> (x < lo \/ h <= x) /\ x # h
      BY <1>4, <2>2, <3>1
    <3> QED
      BY <3>2 DEF G
  <2>15. Listed(e, G \ {h}, t - c[h].size)
    <3>0. \A x \in G \cup {First, Last} : x \in C
      BY <1>5
    <3>1. e[p].fnext = n /\ e[n].fprev = p
      BY <2>3, <2>9
    <3>2. \A x \in G \cup {First} : x \notin {h, p} => e[x].fnext = c[x].fnext
      BY <2>9, <3>0
    <3>3. \A x \in G \cup {Last} : x \notin {h, n} => e[x].fprev = c[x].fprev
      BY <2>9, <3>0
    <3>4. \A x \in G \ {h} : e[x].size = c[x].size
      BY <1>5, <2>9, <3>0
    <3>5. \A x \in G : c[x].size \in Int
      BY <1>3, <1>5, <3>0 DEF Header
    <3> QED
      BY <1>3, <1>4, <2>1, <3>1, <3>2, <3>3, <3>4, <3>5, RemoveBlock DEF p, n
  <2>16. t - c[h].size = ((a - Hdr) + s) - (hi - lo)
    <3>1. t = ((a - Hdr) + s) - (h - lo)
      BY DEF t
    <3> QED
      BY <1>2, <1>4, <2>2, <2>4, <2>11, <3>1
  <2>17. \A f, v : IsBelow(b, v, f) => f[hi] - f[lo] = (hi - lo) - s
    <3> TAKE f, v
    <3> HAVE IsBelow(b, v, f)
    <3>1. f[hi] = f[h] + w /\ f \in [D -> Int]
      BY <2>1 DEF IsBelow, w, hi
    <3>2. f[h] \in Int /\ f[lo] \in Int /\ f[h] - f[lo] = (h - lo) - s
      BY <1>3, <1>4, <3>1
    <3> QED
      BY <1>4, <2>2, <2>11, <3>1, <3>2
  <2>18. \A x \in Bl(b) : lo <= x /\ x < hi => x = o \/ x \in F
    <3> TAKE x \in Bl(b)
    <3> HAVE lo <= x /\ x < hi
    <3>1. x \in D /\ x \in Nat /\ (x <= h \/ hi <= x)
      BY <1>1, <1>4, <2>2
    <3>2. x < h \/ x = h
      BY <1>4, <2>2, <3>1
    <3> QED
      BY <1>3, <2>1, <3>2
  <2>19. h <= hi /\ s = b[o].size /\ o + b[o].size = h
    BY <1>4, <2>2 DEF s, h
  <2>20. e \in [DOMAIN e -> Header] /\ (\A x \in DOMAIN e \ {lo} : e[x].size = b[x].size) /\ \A x \in DOMAIN e : e[x].prev = b[x].prev
    BY <1>3, <2>8, <2>9
  <2>21. Pending(b, e, a, o, lo, hi)
    <3> HIDE DEF D
    <3> QED
      BY <1>3, <2>2, <2>10, <2>11, <2>12, <2>13, <2>14, <2>15, <2>16, <2>17, <2>18, <2>19, <2>20 DEF Pending, D
  <2> QED
    BY <2>2, <2>6, <2>21
<1> QED
  BY <1>7, <1>8

\* The merged block goes to the head of the list.
LEMMA InsertSegment ==
  ASSUME NEW b, NEW a, SegmentOK(b, a), NEW o \in Bl(b), NEW c, NEW lo, NEW hi,
         Pending(b, c, a, o, lo, hi), hi \notin Frees(b)
  PROVE SegmentOK(InsertFirst(c, lo), a + b[o].size) /\ Merged(b, InsertFirst(c, lo), lo, hi)
<1> DEFINE F == Frees(b)
           D == DOMAIN b
           C == DOMAIN c
           s == b[o].size
           G == {x \in F : x < lo \/ hi <= x}
           t == ((a - Hdr) + s) - (hi - lo)
           e == InsertFirst(c, lo)
           n == c[First].fnext
<1>1. /\ b \in [D -> Header] /\ {First, Empty, Last} \subseteq D /\ 0 \notin D
      /\ F \subseteq Bl(b) /\ Bl(b) \subseteq D /\ First \notin Bl(b) /\ Last \notin Bl(b) /\ First # Last
  BY SegmentLinks
<1>2. Shape(b) /\ Tagged(b) /\ Below(b, a - Hdr) /\ a \in Int /\ Hdr \in Int /\ a - Hdr \in Int
  BY Layout DEF SegmentOK
<1>3. /\ lo \in Bl(b) /\ hi \in Bl(b) \cup {Last} /\ lo <= o /\ o + s <= hi /\ b[lo].prev = 0
      /\ c \in [C -> Header] /\ c[First].fprev = 0 /\ c[Last].fnext = 0
      /\ C = {x \in D : x <= lo \/ hi <= x}
      /\ c[lo].size = hi - lo /\ \A x \in C \ {lo} : c[x].size = b[x].size
      /\ \A x \in C : c[x].prev = b[x].prev
      /\ \A x \in Bl(c) \ {lo} : (c[x].fnext # 0 <=> x \in F) /\ (x \notin F => c[x].fprev = 0)
      /\ Listed(c, G, t)
      /\ \A f, v : IsBelow(b, v, f) => f[hi] - f[lo] = (hi - lo) - s
  BY DEF Pending
<1>4. /\ \A x \in D : x \in Nat
      /\ s \in Nat /\ s >= MINBLOCKSIZE /\ o \in Nat /\ hi \in Nat /\ lo \in Nat /\ lo < hi /\ lo \in D /\ hi \in D
      /\ lo # First /\ lo # Last /\ hi # First /\ t \in Int /\ lo + MINBLOCKSIZE <= hi /\ hi - lo \in Int
  <2>1. \A x \in D : x \in Nat
    BY <1>2, ShapeFacts
  <2>2. o \in Nat /\ lo \in Nat /\ s \in Nat /\ lo \in D /\ hi \in D /\ hi # First /\ s >= MINBLOCKSIZE
    BY <1>1, <1>2, <1>3, <2>1, ShapeFacts DEF Shape
  <2> QED
    BY <1>1, <1>2, <1>3, <2>1, <2>2, Layout
<1>5. /\ {First, Last, lo, hi} \subseteq C /\ G \subseteq C /\ lo \notin G
      /\ \A x \in G : x \in F /\ x \in Bl(b) /\ x \in Bl(c)
  <2>1. First <= lo /\ hi <= Last /\ First \in D /\ Last \in D
    BY <1>1, <1>2, <1>4, ShapeFacts
  <2>2. \A x \in G : x \in D /\ x \in Nat /\ x \in Bl(b) /\ x \in F /\ (x < lo \/ hi <= x)
    BY <1>1, <1>4
  <2>3. {First, Last, lo, hi} \subseteq C
    BY <1>3, <1>4, <2>1
  <2>4. \A x \in G : x \in C /\ x # lo
    BY <1>3, <1>4, <2>2
  <2>5. \A x \in G : x \in Bl(c)
    BY <2>2, <2>4 DEF Bl
  <2> HIDE DEF G, C
  <2> QED
    BY <2>2, <2>3, <2>4, <2>5
<1>6. lo + c[lo].size = hi
  BY <1>3, <1>4
<1> HIDE DEF e, G, t
<1>7. n \in G \cup {Last} /\ n \in C /\ n # lo /\ n # First /\ n # 0
  <2>1. n \in G \cup {Last} /\ First \notin G
    BY <1>3, LinkFacts
  <2> QED
    BY <1>1, <1>3, <1>4, <1>5, <2>1
<1> HIDE DEF n
<1>8. /\ e \in [C -> Header] /\ DOMAIN e = C
      /\ \A x \in C :
             /\ e[x].size = c[x].size
             /\ e[x].prev = (IF x = hi THEN hi - lo ELSE c[x].prev)
             /\ e[x].fnext = (IF x = First THEN lo ELSE IF x = lo THEN n ELSE c[x].fnext)
             /\ e[x].fprev = (IF x = n THEN lo ELSE IF x = lo THEN First ELSE c[x].fprev)
  BY <1>3, <1>4, <1>5, <1>6, <1>7, InsertFields DEF e, n
<1>9. \A x \in Bl(e) : (x \in Frees(e) <=> x \in F \/ x = lo) /\ (x \notin Frees(e) => e[x].fprev = 0)
  <2> TAKE x \in Bl(e)
  <2>1. x \in C /\ x # First /\ x # Last /\ x \in Bl(c)
    BY <1>8 DEF Bl
  <2>2. x \in Frees(e) <=> e[x].fnext # 0
    BY DEF Frees
  <2>3. CASE x = lo
    BY <1>4, <1>7, <1>8, <2>1, <2>2, <2>3
  <2>4. CASE x # lo
    <3>1. e[x].fnext = c[x].fnext /\ (c[x].fnext # 0 <=> x \in F) /\ (x \notin F => c[x].fprev = 0)
      BY <1>3, <1>8, <2>1, <2>4
    <3>2. x = n => x \in F
      BY <1>5, <1>7, <2>1
    <3>3. x # n => e[x].fprev = c[x].fprev
      BY <1>8, <2>1, <2>4
    <3> QED
      BY <2>2, <2>4, <3>1, <3>2, <3>3
  <2> QED
    BY <2>3, <2>4
<1>10. Merged(b, e, lo, hi)
  <2>1. e[First].fprev = 0 /\ e[Last].fnext = 0
    BY <1>1, <1>3, <1>4, <1>5, <1>7, <1>8
  <2>2. e[lo].size = hi - lo /\ (\A x \in DOMAIN e \ {lo} : e[x].size = b[x].size)
    BY <1>3, <1>5, <1>8
  <2>3. e[hi].prev = hi - lo /\ \A x \in DOMAIN e \ {hi} : e[x].prev = b[x].prev
    BY <1>3, <1>5, <1>8
  <2>4. DOMAIN e = {x \in D : x <= lo \/ hi <= x} /\ e \in [DOMAIN e -> Header]
    BY <1>3, <1>8
  <2> QED
    BY <1>9, <2>1, <2>2, <2>3, <2>4 DEF Merged
<1>11. Shape(e) /\ Tagged(e)
  BY <1>2, <1>3, <1>4, <1>10, MergedShape
<1>12. Forgotten(e)
  BY <1>9 DEF Forgotten
<1>13. Below(e, (a - Hdr) + s)
  <2>1. PICK f : IsBelow(b, a - Hdr, f)
    BY <1>2 DEF Below
  <2>2. f[hi] - f[lo] = (hi - lo) - s
    BY <1>3, <2>1
  <2> HIDE DEF s
  <2> QED
    BY <1>2, <1>3, <1>4, <1>10, <2>1, <2>2, MergedBelow
<1>14. Listed(e, Frees(e), (a - Hdr) + s)
  <2>1. Frees(e) = G \cup {lo}
    <3>1. \A x \in G : x \in Bl(e)
      BY <1>5, <1>8 DEF Bl
    <3>2. \A x \in Frees(e) : x \in Bl(e) /\ x \in C
      BY <1>8 DEF Frees, Bl
    <3>3. lo \in Bl(e)
      BY <1>4, <1>5, <1>8 DEF Bl
    <3>4. \A x \in F : x \in C /\ x # lo => x \in G
      BY <1>1, <1>3, <1>4 DEF G
    <3> QED
      BY <1>5, <1>9, <3>1, <3>2, <3>3, <3>4
  <2>2. Listed(e, G \cup {lo}, t + e[lo].size)
    <3>0. \A x \in G \cup {First, Last, lo} : x \in C
      BY <1>5
    <3>1. e[First].fnext = lo /\ e[lo].fnext = n /\ e[lo].fprev = First /\ e[n].fprev = lo
      BY <1>4, <1>5, <1>7, <1>8
    <3>2. \A x \in G : x # First /\ x # lo
      BY <1>1, <1>5
    <3>3. \A x \in G : e[x].fnext = c[x].fnext
      BY <1>8, <3>0, <3>2
    <3>4. \A x \in G \cup {Last} : x # n => e[x].fprev = c[x].fprev
      BY <1>4, <1>8, <3>0, <3>2
    <3>5. \A x \in G : e[x].size = c[x].size /\ c[x].size \in Int
      BY <1>3, <1>8, <3>0 DEF Header
    <3>6. e[lo].size \in Int /\ lo \in Int
      BY <1>3, <1>4, <1>5, <1>8
    <3> HIDE DEF C
    <3> QED
      BY <1>3, <1>4, <1>5, <3>1, <3>3, <3>4, <3>5, <3>6, InsertBlock DEF n
  <2>3. t + e[lo].size = (a - Hdr) + s
    <3>1. e[lo].size = hi - lo
      BY <1>3, <1>5, <1>8
    <3> QED
      BY <1>2, <1>4, <3>1 DEF t
  <2> QED
    BY <2>1, <2>2, <2>3
<1>15. (a + s) - Hdr = (a - Hdr) + s /\ a + s \in Int
  BY <1>2, <1>4
<1> QED
  BY <1>10, <1>11, <1>12, <1>13, <1>14, <1>15 DEF SegmentOK, e

-----------------------------------------------------------------------------
(* Who owns which block.                                                     *)

Allocated(b) == Bl(b) \ Frees(b)

\* In c one more block of b is allocated, and the others keep their place and size.
LEMMA AllocateSegment ==
  ASSUME NEW b, NEW a, SegmentOK(b, a), NEW o \in Frees(b), NEW r \in Nat,
         r >= MINBLOCKSIZE, Aligned(r), r <= b[o].size, NEW c, c = Carve(b, o, r)
  PROVE /\ SegmentOK(c, a - c[o].size) /\ c[o].size >= r
        /\ Allocated(c) = Allocated(b) \cup {o} /\ o \notin Allocated(b)
        /\ \A x \in Allocated(b) : c[x].size = b[x].size
<1>1. PICK s \in Nat : /\ s >= r /\ s >= MINBLOCKSIZE /\ TakenFrom(b, c, o, s) /\ SegmentOK(c, a - s) /\ s <= b[o].size
  BY CarveSegment
<1>2. Shape(b) /\ Aside(b, c, o, s)
  BY <1>1, TakenOthers DEF SegmentOK
<1>3. /\ c[o].size = s /\ DOMAIN c = DOMAIN b \cup {o + s}
      /\ \A x \in DOMAIN b \ {o} : c[x].size = b[x].size
      /\ \A x \in Bl(c) : x \in Frees(c) <=> (x \in Frees(b) /\ x # o) \/ (s < b[o].size /\ x = o + s)
  BY <1>1 DEF TakenFrom
<1>4. /\ o \in Bl(b) /\ (s = b[o].size \/ o + s \notin DOMAIN b)
      /\ \A x \in Bl(c) : x = o \/ x \in Bl(b) \/ (s < b[o].size /\ x = o + s)
      /\ \A x \in Bl(b) : x # o => x \in Bl(c)
      /\ o # o + s /\ b[o].size \in Nat
  BY <1>2 DEF Aside
<1>5. o \in Bl(c) /\ o \in DOMAIN b /\ o \in Bl(b)
  BY <1>2, <1>3 DEF Aside, Bl
<1>6. \A x \in Bl(b) : x # o + s \/ s = b[o].size
  BY <1>4 DEF Bl
<1>7. ASSUME NEW x \in Allocated(c) PROVE x \in Allocated(b) \cup {o}
  <2>1. x \in Bl(c) /\ x \notin Frees(c)
    BY DEF Allocated
  <2> QED
    BY <1>3, <1>4, <2>1 DEF Allocated
<1>8. ASSUME NEW x \in Allocated(b) PROVE x \in Allocated(c) /\ c[x].size = b[x].size /\ x # o
  <2>1. x \in Bl(b) /\ x \notin Frees(b) /\ x # o
    BY DEF Allocated
  <2>2. x \in Bl(c) /\ x \in DOMAIN b
    BY <1>4, <2>1 DEF Bl
  <2>3. x \notin Frees(c)
    BY <1>3, <1>4, <1>6, <2>1, <2>2
  <2> QED
    BY <1>3, <2>1, <2>2, <2>3 DEF Allocated
<1>9. o \in Allocated(c)
  BY <1>3, <1>4, <1>5 DEF Allocated
<1> QED
  BY <1>1, <1>3, <1>7, <1>8, <1>9

\* The headers after sma_deallocate of block o.
Deallocated(b, o) == InsertFirst(MergeNext(MergePrev(b, o)[1], MergePrev(b, o)[2]), MergePrev(b, o)[2])

\* Freeing a block gives back its bytes, and the other allocated blocks keep
\* their place and size.
LEMMA DeallocateSegment ==
  ASSUME NEW b, NEW a, SegmentOK(b, a), NEW o \in Allocated(b), NEW c, c = Deallocated(b, o)
  PROVE /\ SegmentOK(c, a + b[o].size) /\ Allocated(c) = Allocated(b) \ {o}
        /\ \A x \in Allocated(c) : c[x].size = b[x].size
<1>1. o \in Bl(b) /\ o \notin Frees(b)
  BY DEF Allocated
<1>2. PICK lo, d : MergePrev(b, o) = <<d, lo>> /\ Pending(b, d, a, o, lo, o + b[o].size)
  BY <1>1, MergePrevSegment
<1>3. PICK hi : hi \notin Frees(b) /\ Pending(b, MergeNext(d, lo), a, o, lo, hi)
  BY <1>1, <1>2, MergeNextSegment
<1>4. c = InsertFirst(MergeNext(d, lo), lo)
  BY <1>2 DEF Deallocated
<1>5. SegmentOK(c, a + b[o].size) /\ Merged(b, c, lo, hi)
  BY <1>1, <1>3, <1>4, InsertSegment
<1>6. /\ lo \in Bl(b) /\ lo <= o /\ o + b[o].size <= hi /\ hi \in Bl(b) \cup {Last}
      /\ \A x \in Bl(b) : lo <= x /\ x < hi => x = o \/ x \in Frees(b)
  BY <1>3 DEF Pending
<1>7. /\ DOMAIN c = {x \in DOMAIN b : x <= lo \/ hi <= x}
      /\ \A x \in DOMAIN c \ {lo} : c[x].size = b[x].size
      /\ \A x \in Bl(c) : x \in Frees(c) <=> x \in Frees(b) \/ x = lo
  BY <1>5 DEF Merged
<1>8. /\ \A x \in Bl(b) : x \in Nat
      /\ b[o].size \in Nat /\ b[o].size > 0 /\ lo \in Nat /\ o \in Nat /\ hi \in Nat /\ lo < hi /\ o < hi
  <2>1. Shape(b)
    BY DEF SegmentOK
  <2>2. (\A x \in Bl(b) : x \in Nat) /\ b[o].size \in Nat /\ b[o].size > 0 /\ lo \in Nat /\ o \in Nat /\ hi \in Nat
    BY <1>1, <1>6, <2>1, ShapeFacts, Layout DEF Bl
  <2> QED
    BY <1>6, <2>2
<1>9. ASSUME NEW x \in Allocated(c) PROVE x \in Allocated(b) \ {o} /\ c[x].size = b[x].size
  <2>1. x \in Bl(c) /\ x \notin Frees(b) /\ x # lo /\ x \in Bl(b) /\ (x <= lo \/ hi <= x) /\ x \in DOMAIN c
    BY <1>7 DEF Allocated, Bl
  <2>2. x # o
    BY <1>6, <1>8, <2>1
  <2> QED
    BY <1>7, <2>1, <2>2 DEF Allocated
<1>10. ASSUME NEW x \in Allocated(b), x # o PROVE x \in Allocated(c)
  <2>1. x \in Bl(b) /\ x \notin Frees(b) /\ x \in Nat
    BY <1>8 DEF Allocated
  <2>2. ~(lo <= x /\ x < hi)
    BY <1>6, <1>10, <2>1
  <2>3. x < lo \/ hi <= x
    BY <1>8, <2>1, <2>2
  <2>4. x \in Bl(c) /\ x # lo
    BY <1>7, <1>8, <2>1, <2>3 DEF Bl
  <2> QED
    BY <1>7, <2>1, <2>4 DEF Allocated
<1> QED
  BY <1>5, <1>9, <1>10

\* No free block is larger than what avail says is free.
LEMMA FreeWithinAvail ==
  ASSUME NEW b, NEW a, SegmentOK(b, a)
  PROVE /\ a \in Int /\ 0 <= a /\ a <= SegSize
        /\ \A o \in Frees(b) : b[o].size <= a - Hdr
<1>1. Shape(b) /\ a \in Int /\ Below(b, a - Hdr)
  BY DEF SegmentOK
<1>2. PICK f : IsBelow(b, a - Hdr, f)
  BY <1>1 DEF Below
<1>3. /\ f \in [DOMAIN b -> Int] /\ f[Empty] = 0 /\ f[Last] = a - Hdr
      /\ \A o \in Bl(b) : f[o + b[o].size] = f[o] + (IF o \in Frees(b) THEN b[o].size ELSE 0)
      /\ \A x, y \in DOMAIN b \ {First} : x <= y => 0 <= f[y] - f[x] /\ f[y] - f[x] <= y - x
  BY <1>2 DEF IsBelow
<1>4. Empty \in DOMAIN b \ {First} /\ Last \in DOMAIN b \ {First}
  BY <1>1, Layout DEF Shape
<1>5. 0 <= a - Hdr /\ a - Hdr <= Last - Empty
  <2>1. 0 <= f[Last] - f[Empty] /\ f[Last] - f[Empty] <= Last - Empty
    BY <1>3, <1>4, Layout
  <2> QED
    BY <1>1, <1>3, <2>1, Layout
<1>6. ASSUME NEW o \in Frees(b) PROVE b[o].size <= a - Hdr
  <2> DEFINE e == o + b[o].size
  <2>1. o \in Bl(b) /\ o \in DOMAIN b \ {First}
    BY DEF Frees, Bl
  <2>2. /\ e \in DOMAIN b \ {First} /\ Empty <= o /\ e <= Last /\ b[o].size \in Nat
    BY <1>1, <2>1, ShapeFacts
  <2>3. f[e] = f[o] + b[o].size /\ f[e] \in Int /\ f[o] \in Int
    BY <1>3, <2>1, <2>2
  <2> HIDE DEF e
  <2>4. 0 <= f[o] - f[Empty] /\ 0 <= f[Last] - f[e]
    BY <1>3, <1>4, <2>1, <2>2
  <2> QED
    BY <1>1, <1>3, <2>2, <2>3, <2>4, Layout
<1> QED
  BY <1>1, <1>5, <1>6, Layout

\* sma_allocate finds a free block that is large enough exactly if there is one.
LEMMA CandidateFacts ==
  ASSUME NEW g \in Segs, SegmentOK(blk[g], avail[g]), NEW n \in Sizes
  PROVE LET o == Candidate(g, n) IN
        /\ o # 0 => o \in Frees(blk[g]) /\ blk[g][o].size >= RealSize(n)
        /\ o = 0 => \A x \in Frees(blk[g]) : blk[g][x].size < RealSize(n)
<1> DEFINE b == blk[g]
           F == Frees(b)
           r == RealSize(n)
<1>1. r \in Nat
  BY RealSizeFacts
<1>2. Shape(b) /\ Listed(b, F, avail[g] - Hdr)
  BY DEF SegmentOK
<1>3. IsFiniteSet(DOMAIN b) /\ 0 \notin DOMAIN b
  BY <1>2, ShapeFacts
<1>4. F \subseteq DOMAIN b /\ Last \notin F /\ 0 \notin F /\ \A x \in F : b[x].size \in Nat
  <2>1. \A x \in F : x \in Bl(b)
    BY DEF Frees
  <2>2. \A x \in Bl(b) : b[x].size \in Nat /\ x \in DOMAIN b /\ x # Last
    BY <1>2, ShapeFacts DEF Bl
  <2> QED
    BY <1>3, <2>1, <2>2
<1>p. PICK k \in Nat : \E path : IsPath(b, F, k, path)
  BY <1>2 DEF Listed
<1>5. PICK path : IsPath(b, F, k, path)
  BY <1>p
<1>6. FreeList(b) = PathList(k, path)
  <2> HIDE DEF b, F
  <2> QED
    BY <1>3, <1>4, <1>5, ListPath
<1> DEFINE fl == PathList(k, path)
<1>7. fl \in [1 .. k -> F] /\ \A x \in F : \E i \in 1 .. k : fl[i] = x
  BY <1>5 DEF IsPath, PathList
<1> HIDE DEF b, fl, F, r
<1>8. /\ find_block(b, r) # 0 => find_block(b, r) \in F /\ b[find_block(b, r)].size >= r
      /\ find_block(b, r) = 0 => \A x \in F : b[x].size < r
  <2>1. \A x \in F : (\E i \in 1 .. k : fl[i] = x) /\ b[x].size \in Nat
    BY <1>4, <1>7
  <2>2. FreeList(b) = fl
    BY <1>6 DEF fl
  <2> QED
    BY <1>1, <1>4, <1>7, <2>1, <2>2, FindBlock
<1>9. CASE avail[g] < r
  <2>1. Candidate(g, n) = 0
    BY <1>9 DEF Candidate, r
  <2>2. avail[g] \in Int /\ \A x \in F : b[x].size <= avail[g] - Hdr
    BY FreeWithinAvail DEF b, F
  <2>3. \A x \in F : b[x].size < r
    BY <1>1, <1>4, <1>9, <2>2, Layout
  <2> QED
    BY <2>1, <2>3 DEF b, F, r
<1>10. CASE ~(avail[g] < r)
  BY <1>8, <1>10 DEF Candidate, b, F, r
<1> QED
  BY <1>9, <1>10

\* A segment starts as one free block.
LEMMA NewSegmentOK == SegmentOK(NewSegment, SegSize - First - 2 * Hdr)
<1> DEFINE b == NewSegment
           D == {First, Empty, Last}
           z == Last - Empty
<1>1. First # Empty /\ Empty # Last /\ First # Last /\ 0 \notin D /\ D \subseteq Int /\ z \in Int /\ z >= MINBLOCKSIZE /\ Empty + z = Last
  BY Layout
<1>2. /\ DOMAIN b = D
      /\ b[First] = [size |-> 0, prev |-> 0, fnext |-> Empty, fprev |-> 0]
      /\ b[Empty] = [size |-> z, prev |-> 0, fnext |-> Last, fprev |-> First]
      /\ b[Last] = [size |-> 0, prev |-> z, fnext |-> 0, fprev |-> Empty]
  BY <1>1 DEF NewSegment
<1>3. /\ b[First].size = 0 /\ b[First].prev = 0 /\ b[First].fnext = Empty /\ b[First].fprev = 0
      /\ b[Empty].size = z /\ b[Empty].prev = 0 /\ b[Empty].fnext = Last /\ b[Empty].fprev = First
      /\ b[Last].size = 0 /\ b[Last].prev = z /\ b[Last].fnext = 0 /\ b[Last].fprev = Empty
  BY <1>2
<1>4. b \in [D -> Header]
  <2>1. b[First] \in Header /\ b[Empty] \in Header /\ b[Last] \in Header
    BY <1>1, <1>2 DEF Header
  <2>2. b = [x \in D |-> b[x]]
    BY <1>2 DEF NewSegment
  <2> HIDE DEF b
  <2> QED
    BY <2>1, <2>2
<1> HIDE DEF b, z
<1>5. Bl(b) = {Empty} /\ Frees(b) = {Empty}
  <2>1. Bl(b) = {Empty}
    BY <1>1, <1>2 DEF Bl
  <2>2. b[Empty].fnext # 0
    BY <1>1, <1>3
  <2> QED
    BY <2>1, <2>2 DEF Frees
<1>6. Shape(b)
  <2>1. \A x \in D : x \in Int /\ Placed(x) /\ (x = First \/ (Empty <= x /\ x <= Last))
    BY Layout DEF Placed
  <2>2. \A x \in D : x <= Empty \/ Last <= x
    BY Layout
  <2> QED
    BY <1>1, <1>2, <1>3, <1>4, <1>5, <2>1, <2>2 DEF Shape
<1>7. Tagged(b)
  BY <1>1, <1>3, <1>5 DEF Tagged
<1>8. Forgotten(b)
  BY <1>5 DEF Forgotten
<1>9. Listed(b, Frees(b), z)
  <2> DEFINE path == [i \in 0 .. 2 |-> IF i = 0 THEN First ELSE IF i = 1 THEN Empty ELSE Last]
             s    == [i \in 0 .. 1 |-> IF i = 0 THEN 0 ELSE z]
  <2>1. path[0] = First /\ path[1] = Empty /\ path[2] = Last
    OBVIOUS
  <2>2. s[0] = 0 /\ s[1] = z
    OBVIOUS
  <2>3. path \in [0 .. 2 -> Int] /\ s \in [0 .. 1 -> Int]
    BY <1>1
  <2> HIDE DEF path, s
  <2>4. IsPath(b, {Empty}, 1, path)
    <3>1. 1 + 1 = 2 /\ 0 + 1 = 1
      OBVIOUS
    <3>2. \A i \in 0 .. 2 : i = 0 \/ i = 1 \/ i = 2
      OBVIOUS
    <3>3. \A i, j \in 0 .. 2 : path[i] = path[j] => i = j
      BY <1>1, <2>1, <3>2
    <3>4. \A i \in 1 .. 1 : i = 1
      OBVIOUS
    <3>5. 1 \in 1 .. 1
      OBVIOUS
    <3>6. \A i \in 0 .. 1 : i = 0 \/ i = 1
      OBVIOUS
    <3>7. \A i \in 1 .. 1 : path[i] \in {Empty}
      BY <2>1, <3>4
    <3>8. \A x \in {Empty} : \E i \in 1 .. 1 : path[i] = x
      BY <2>1, <3>5
    <3>9. \A i \in 0 .. 1 : b[path[i]].fnext = path[i + 1] /\ b[path[i + 1]].fprev = path[i]
      BY <1>3, <2>1, <3>1, <3>6
    <3> QED
      BY <2>1, <2>3, <3>1, <3>3, <3>7, <3>8, <3>9 DEF IsPath
  <2>5. IsSums(b, 1, path, s)
    <3>1. \A i \in 1 .. 1 : i = 1 /\ i - 1 = 0
      OBVIOUS
    <3>2. \A i \in 1 .. 1 : s[i] = s[i - 1] + b[path[i]].size
      BY <1>1, <1>3, <2>1, <2>2, <3>1
    <3> QED
      BY <2>2, <2>3, <3>2 DEF IsSums
  <2>6. 1 \in Nat
    OBVIOUS
  <2> QED
    BY <1>5, <2>2, <2>4, <2>5, <2>6 DEF Listed
<1>10. Below(b, z)
  <2> DEFINE f == [x \in D |-> IF x = Last THEN z ELSE 0]
  <2>1. f[First] = 0 /\ f[Empty] = 0 /\ f[Last] = z /\ f \in [D -> Int]
    BY <1>1
  <2> HIDE DEF f
  <2>2. \A o \in {Empty} : f[o + b[o].size] = f[o] + (IF o \in {Empty} THEN b[o].size ELSE 0)
    BY <1>1, <1>3, <2>1
  <2>3. \A x, y \in D \ {First} : x <= y => 0 <= f[y] - f[x] /\ f[y] - f[x] <= y - x
    <3> SUFFICES ASSUME NEW x \in {Empty, Last}, NEW y \in {Empty, Last}, x <= y
                 PROVE 0 <= f[y] - f[x] /\ f[y] - f[x] <= y - x
      OBVIOUS
    <3>1. CASE x = y
      BY <1>1, <2>1, <3>1, Layout
    <3>2. CASE x = Empty /\ y = Last
      BY <1>1, <2>1, <3>2, Layout
    <3>3. CASE x = Last /\ y = Empty
      BY <1>1, <3>3, Layout
    <3> QED
      BY <3>1, <3>2, <3>3
  <2>4. IsBelow(b, z, f)
    BY <1>2, <1>5, <2>1, <2>2, <2>3 DEF IsBelow
  <2> QED
    BY <2>4 DEF Below
<1>11. (SegSize - First - 2 * Hdr) - Hdr = z /\ SegSize - First - 2 * Hdr \in Int
  BY Layout DEF z
<1> QED
  BY <1>6, <1>7, <1>8, <1>9, <1>10, <1>11 DEF SegmentOK, b

\* A segment without allocated blocks is as it was at first.
LEMMA NothingAllocated ==
  ASSUME NEW b, NEW a, SegmentOK(b, a), Allocated(b) = {}
  PROVE b = NewSegment
<1>1. Shape(b) /\ Tagged(b)
  BY DEF SegmentOK
<1>2. \A x \in Bl(b) : x \in Frees(b)
  BY DEF Allocated
<1>3. Empty \in Bl(b) /\ Empty \in Frees(b)
  BY <1>1, <1>2, ShapeFacts
<1>4. Empty + b[Empty].size = Last
  BY <1>1, <1>2, <1>3 DEF Shape, Tagged
<1>5. DOMAIN b = {First, Empty, Last}
  <2>1. \A x \in DOMAIN b : x <= Empty \/ Last <= x
    BY <1>1, <1>3, <1>4 DEF Shape
  <2>2. \A x \in DOMAIN b : x \in Int /\ (x = First \/ (Empty <= x /\ x <= Last))
    BY <1>1 DEF Shape
  <2>3. \A x \in DOMAIN b : x \in {First, Empty, Last}
    BY <2>1, <2>2, Layout
  <2> QED
    BY <1>1, <2>3 DEF Shape
<1>6. Frees(b) = {Empty}
  BY <1>3, <1>5 DEF Frees, Bl
<1>7. b[Empty].fprev = First /\ b[Empty].fnext = Last /\ b[First].fnext = Empty /\ b[Last].fprev = Empty
  <2>1. /\ b[Empty].fprev \in {Empty} \cup {First} /\ b[Empty].fnext \in {Empty} \cup {Last}
        /\ b[Empty].fprev # Empty /\ b[Empty].fnext # Empty
        /\ b[b[Empty].fprev].fnext = Empty /\ b[b[Empty].fnext].fprev = Empty
    BY <1>3, <1>6, SegmentLinks
  <2>2. b[Empty].fprev = First /\ b[Empty].fnext = Last
    BY <2>1
  <2> QED
    BY <2>1, <2>2
<1>8. b[Empty].size = Last - Empty /\ b[Last].prev = Last - Empty
  <2>1. b[Empty].size \in Nat
    BY <1>1, <1>3, ShapeFacts
  <2>2. b[Empty].size = Last - Empty
    BY <1>4, <2>1, Layout
  <2> QED
    BY <1>1, <1>3, <1>4, <2>2 DEF Tagged
<1>9. /\ b[First].size = 0 /\ b[First].prev = 0 /\ b[First].fprev = 0
      /\ b[Last].size = 0 /\ b[Last].fnext = 0 /\ b[Empty].prev = 0
  BY <1>1 DEF Shape
<1>10. b \in [{First, Empty, Last} -> Header]
  BY <1>1, <1>5 DEF Shape
<1>11. /\ b[First] = [size |-> 0, prev |-> 0, fnext |-> Empty, fprev |-> 0]
       /\ b[Empty] = [size |-> Last - Empty, prev |-> 0, fnext |-> Last, fprev |-> First]
       /\ b[Last] = [size |-> 0, prev |-> Last - Empty, fnext |-> 0, fprev |-> Empty]
  <2>1. b[First] \in Header /\ b[Empty] \in Header /\ b[Last] \in Header
    BY <1>10
  <2>2. \A h \in Header : h = [size |-> h.size, prev |-> h.prev, fnext |-> h.fnext, fprev |-> h.fprev]
    BY DEF Header
  <2> QED
    BY <1>7, <1>8, <1>9, <2>1, <2>2
<1>12. First # Empty /\ Empty # Last /\ First # Last
  BY Layout
<1> QED
  BY <1>10, <1>11, <1>12 DEF NewSegment

\* fl is the free list of b, and s its running total.
ListRead(b, a, k, fl, s) ==
  /\ k \in Nat /\ fl \in [1 .. k -> Frees(b)] /\ s \in [0 .. k -> Int]
  /\ FreeList(b) = fl /\ k = Cardinality(Frees(b)) /\ {fl[i] : i \in 1 .. k} = Frees(b)
  /\ s[0] = 0 /\ s[k] = a - Hdr /\ \A i \in 1 .. k : s[i] = s[i - 1] + b[fl[i]].size

\* What a sound segment looks like to those who read it: the free list, its
\* total, and the ranges of the fields.
LEMMA SegmentReads ==
  ASSUME NEW b, NEW a, SegmentOK(b, a)
  PROVE /\ \E k, fl, s : ListRead(b, a, k, fl, s)
        /\ \A x \in DOMAIN b :
             /\ x \in First .. Last /\ (x # Last => x % Word = First % Word)
             /\ b[x].size \in 0 .. SegSize /\ b[x].prev \in 0 .. SegSize
             /\ b[x].fnext \in DOMAIN b \cup {0} /\ b[x].fprev \in 0 .. Last
             /\ b[x].fnext # 0 => b[b[x].fnext].fprev = x
<1> DEFINE F == Frees(b)
           D == DOMAIN b
<1>1. Shape(b) /\ Tagged(b) /\ Forgotten(b) /\ Listed(b, F, a - Hdr)
  BY DEF SegmentOK
<1>2. IsFiniteSet(D) /\ 0 \notin D /\ Last \notin F /\ First \notin F /\ 0 \notin F /\ F \subseteq D /\ F \subseteq Bl(b)
  BY <1>1, ShapeFacts DEF Frees, Bl
<1>p. PICK k \in Nat : \E path, s : IsPath(b, F, k, path) /\ IsSums(b, k, path, s) /\ s[k] = a - Hdr
  BY <1>1 DEF Listed
<1>3. PICK path, s : IsPath(b, F, k, path) /\ IsSums(b, k, path, s) /\ s[k] = a - Hdr
  BY <1>p
<1>4. \E j, fl, t : ListRead(b, a, j, fl, t)
  <2> DEFINE fl == PathList(k, path)
  <2>1. FreeList(b) = fl /\ k = Cardinality(F)
    <3> HIDE DEF F, D
    <3> QED
      BY <1>2, <1>3, ListPath DEF D
  <2>2. \A i \in 1 .. k : fl[i] = path[i] /\ fl[i] \in F
    BY <1>3 DEF PathList, IsPath
  <2>3. fl \in [1 .. k -> F]
    BY <2>2 DEF PathList
  <2>4. \A x \in F : \E i \in 1 .. k : fl[i] = x
    BY <1>3, <2>2 DEF IsPath
  <2> HIDE DEF fl, F
  <2>5. {fl[i] : i \in 1 .. k} = F
    BY <2>2, <2>4
  <2>6. s \in [0 .. k -> Int] /\ s[0] = 0 /\ \A i \in 1 .. k : s[i] = s[i - 1] + b[path[i]].size
    BY <1>3 DEF IsSums
  <2>7. \A i \in 1 .. k : s[i] = s[i - 1] + b[fl[i]].size
    BY <2>2, <2>6
  <2> QED
    <3>1. ListRead(b, a, k, fl, s)
      BY <1>3, <2>1, <2>3, <2>5, <2>6, <2>7 DEF ListRead, F
    <3> QED
      BY <3>1
<1>5. b[Last].fprev \in F \cup {First}
  <2>1. k \in 0 .. k /\ path[k + 1] = Last /\ b[path[k + 1]].fprev = path[k]
    BY <1>3 DEF IsPath
  <2>2. k = 0 \/ k \in 1 .. k
    OBVIOUS
  <2>3. path[k] \in F \cup {First}
    BY <1>3, <2>2 DEF IsPath
  <2> QED
    BY <2>1, <2>3
<1>6. ASSUME NEW x \in D
      PROVE /\ x \in First .. Last /\ (x # Last => x % Word = First % Word)
            /\ b[x].size \in 0 .. SegSize /\ b[x].prev \in 0 .. SegSize
            /\ b[x].fnext \in D \cup {0} /\ b[x].fprev \in 0 .. Last
            /\ b[x].fnext # 0 => b[b[x].fnext].fprev = x
  <2>0. x = First \/ x = Last \/ x \in Bl(b)
    BY DEF Bl
  <2>1. \A y \in D : y \in Nat /\ First <= y /\ y <= Last
    BY <1>1, ShapeFacts
  <2>2. x \in First .. Last
    BY <2>1, Layout
  <2>3. x # Last => x % Word = First % Word
    BY <1>1, Layout DEF Shape, Placed, Aligned
  <2>4. \A o \in Bl(b) : b[o].size \in 0 .. SegSize
    <3> TAKE o \in Bl(b)
    <3>1. o \in Nat /\ b[o].size \in Nat /\ o + b[o].size <= Last
      BY <1>1, <2>1, ShapeFacts DEF Bl
    <3> QED
      BY <3>1, Layout
  <2>5. b[x].size \in 0 .. SegSize
    BY <1>1, <2>0, <2>4, Layout DEF Shape
  <2>6. b[x].prev \in 0 .. SegSize
    <3>1. CASE x = First \/ x = Empty
      BY <1>1, <3>1, Layout DEF Shape
    <3>2. CASE x # First /\ x # Empty
      <4>1. PICK o \in Bl(b) : o + b[o].size = x
        BY <1>1, <3>2, Predecessor
      <4>2. b[x].prev = IF o \in F THEN b[o].size ELSE 0
        BY <1>1, <4>1 DEF Tagged
      <4> QED
        BY <2>4, <4>2, Layout
    <3> QED
      BY <3>1, <3>2
  <2>7. CASE x = First
    <3>1. b[x].fprev = 0 /\ b[x].fnext \in D /\ b[b[x].fnext].fprev = x
      BY <1>1, <2>7, SegmentLinks DEF Shape
    <3> QED
      BY <2>2, <2>3, <2>5, <2>6, <3>1, Layout
  <2>8. CASE x = Last
    <3>1. b[x].fnext = 0 /\ b[x].fprev \in D
      BY <1>1, <1>2, <1>5, <2>8 DEF Shape
    <3> QED
      BY <2>1, <2>2, <2>3, <2>5, <2>6, <3>1, Layout
  <2>9. CASE x \in F
    <3>1. b[x].fnext \in D /\ b[x].fprev \in D /\ b[b[x].fnext].fprev = x
      BY <2>9, SegmentLinks
    <3> QED
      BY <2>1, <2>2, <2>3, <2>5, <2>6, <3>1, Layout
  <2>10. CASE x \in Bl(b) /\ x \notin F
    <3>1. b[x].fnext = 0 /\ b[x].fprev = 0
      BY <1>1, <2>10 DEF Forgotten, Frees
    <3> QED
      BY <2>2, <2>3, <2>5, <2>6, <3>1, Layout
  <2> QED
    BY <2>0, <2>7, <2>8, <2>9, <2>10
<1> QED
  BY <1>4, <1>6

-----------------------------------------------------------------------------
(* The inductive invariant.                                                  *)

\* E holds for each allocated block of the segments bs one owner, whose request it fits.
Held(bs, E) ==
  /\ \A e \in E : /\ e.seg \in Segs /\ e.off \in Allocated(bs[e.seg]) /\ e.n \in Sizes
                  /\ bs[e.seg][e.off].size >= RealSize(e.n)
  /\ \A e, f \in E : e.seg = f.seg /\ e.off = f.off => e = f
  /\ \A g \in Segs : \A x \in Allocated(bs[g]) : \E e \in E : e.seg = g /\ e.off = x

\* What the workers know.  A worker that is allocating has been asked for a size.
Calls ==
  /\ pc \in [Proc -> {"idle", "first", "others"}] /\ want \in [Proc -> Sizes \cup {0}]
  /\ start \in [Proc -> Segs] /\ last \in [Proc -> Segs] /\ seg \in [Proc -> 0 .. NSegs]
  /\ \A p \in Proc : pc[p] # "idle" => want[p] \in Sizes

Sound(bs, as) == DOMAIN bs = Segs /\ DOMAIN as = Segs /\ \A g \in Segs : SegmentOK(bs[g], as[g])

SmaInv ==
  /\ Sound(blk, avail)
  /\ Held(blk, live \cup lost) /\ live \cap lost = {}
  /\ Calls

\* c differs from segment g of bs by block o, which e asked for and got.
Takes(bs, g, c, o, e) ==
  /\ g \in Segs /\ e.seg = g /\ e.off = o /\ e.n \in Sizes /\ c[o].size >= RealSize(e.n)
  /\ Allocated(c) = Allocated(bs[g]) \cup {o} /\ o \notin Allocated(bs[g])
  /\ \A x \in Allocated(bs[g]) : c[x].size = bs[g][x].size

\* A block that has been carved out has the caller as its owner.
LEMMA HeldTake ==
  ASSUME NEW bs, NEW E, Held(bs, E), DOMAIN bs = Segs, NEW g, NEW c, NEW o, NEW e, Takes(bs, g, c, o, e)
  PROVE Held([bs EXCEPT ![g] = c], E \cup {e}) /\ e \notin E
<1>0. /\ g \in Segs /\ e.seg = g /\ e.off = o /\ e.n \in Sizes /\ c[o].size >= RealSize(e.n)
      /\ Allocated(c) = Allocated(bs[g]) \cup {o} /\ o \notin Allocated(bs[g])
      /\ \A x \in Allocated(bs[g]) : c[x].size = bs[g][x].size
  BY DEF Takes
<1> DEFINE d == [bs EXCEPT ![g] = c]
<1>1. d[g] = c /\ \A h \in Segs : h # g => d[h] = bs[h]
  BY <1>0
<1> HIDE DEF d
<1>3. /\ \A f \in E : /\ f.seg \in Segs /\ f.off \in Allocated(bs[f.seg]) /\ f.n \in Sizes
                      /\ bs[f.seg][f.off].size >= RealSize(f.n)
      /\ \A f, h \in E : f.seg = h.seg /\ f.off = h.off => f = h
      /\ \A h \in Segs : \A x \in Allocated(bs[h]) : \E f \in E : f.seg = h /\ f.off = x
  BY DEF Held
<1>4. ASSUME NEW f \in E
      PROVE /\ f.off \in Allocated(d[f.seg]) /\ d[f.seg][f.off].size >= RealSize(f.n)
            /\ ~(f.seg = g /\ f.off = o)
  <2>1. CASE f.seg = g
    BY <1>0, <1>1, <1>3, <2>1
  <2>2. CASE f.seg # g
    BY <1>1, <1>3, <2>2
  <2> QED
    BY <2>1, <2>2
<1>5. \A f \in E \cup {e} : /\ f.seg \in Segs /\ f.off \in Allocated(d[f.seg]) /\ f.n \in Sizes
                            /\ d[f.seg][f.off].size >= RealSize(f.n)
  BY <1>0, <1>1, <1>3, <1>4
<1>6. \A f, h \in E \cup {e} : f.seg = h.seg /\ f.off = h.off => f = h
  BY <1>0, <1>3, <1>4
<1>7. \A h \in Segs : \A x \in Allocated(d[h]) : \E f \in E \cup {e} : f.seg = h /\ f.off = x
  <2> TAKE h \in Segs
  <2> TAKE x \in Allocated(d[h])
  <2>1. CASE h = g /\ x = o
    BY <1>0, <2>1
  <2>2. CASE ~(h = g /\ x = o)
    <3>1. x \in Allocated(bs[h])
      BY <1>0, <1>1, <2>2
    <3> QED
      BY <1>3, <3>1
  <2> QED
    BY <2>1, <2>2
<1>8. e \notin E
  BY <1>0, <1>4
<1> QED
  BY <1>5, <1>6, <1>7, <1>8 DEF Held, d

\* A block that has been freed has no owner.
LEMMA HeldDrop ==
  ASSUME NEW bs, NEW E, Held(bs, E), DOMAIN bs = Segs, NEW c, NEW e \in E,
         Allocated(c) = Allocated(bs[e.seg]) \ {e.off},
         \A x \in Allocated(c) : c[x].size = bs[e.seg][x].size
  PROVE Held([bs EXCEPT ![e.seg] = c], E \ {e})
<1> DEFINE g == e.seg
           d == [bs EXCEPT ![g] = c]
<1>1. /\ \A f \in E : /\ f.seg \in Segs /\ f.off \in Allocated(bs[f.seg]) /\ f.n \in Sizes
                      /\ bs[f.seg][f.off].size >= RealSize(f.n)
      /\ \A f, h \in E : f.seg = h.seg /\ f.off = h.off => f = h
      /\ \A h \in Segs : \A x \in Allocated(bs[h]) : \E f \in E : f.seg = h /\ f.off = x
  BY DEF Held
<1>2. g \in Segs /\ d[g] = c /\ \A h \in Segs : h # g => d[h] = bs[h]
  BY <1>1
<1> HIDE DEF d
<1>3. ASSUME NEW f \in E \ {e}
      PROVE f.seg \in Segs /\ f.off \in Allocated(d[f.seg]) /\ f.n \in Sizes /\ d[f.seg][f.off].size >= RealSize(f.n)
  <2>1. ~(f.seg = g /\ f.off = e.off)
    BY <1>1
  <2>2. CASE f.seg = g
    <3>1. f.off \in Allocated(c)
      BY <1>1, <2>1, <2>2
    <3> QED
      BY <1>1, <1>2, <2>2, <3>1
  <2>3. CASE f.seg # g
    BY <1>1, <1>2, <2>3
  <2> QED
    BY <2>2, <2>3
<1>4. \A f, h \in E \ {e} : f.seg = h.seg /\ f.off = h.off => f = h
  BY <1>1
<1>5. \A h \in Segs : \A x \in Allocated(d[h]) : \E f \in E \ {e} : f.seg = h /\ f.off = x
  <2> TAKE h \in Segs
  <2> TAKE x \in Allocated(d[h])
  <2>1. x \in Allocated(bs[h]) /\ ~(h = g /\ x = e.off)
    BY <1>2
  <2>2. PICK f \in E : f.seg = h /\ f.off = x
    BY <1>1, <2>1
  <2> QED
    BY <2>1, <2>2
<1> QED
  BY <1>3, <1>4, <1>5 DEF Held, d

\* sma_allocate.
LEMMA AllocateStep ==
  ASSUME SmaInv, NEW g \in Segs, NEW n \in Sizes, NEW o, o = Candidate(g, n), o # 0, SmaAllocate(g, o, n)
  PROVE Sound(blk, avail)' /\ Held(blk, live \cup lost)' /\ (live \cap lost = {})'
<1> DEFINE b == blk[g]
           a == avail[g]
           r == RealSize(n)
           c == Carve(b, o, r)
           e == [seg |-> g, off |-> o, n |-> n]
           E == live \cup lost
<1>1. Sound(blk, avail) /\ Held(blk, E) /\ live \cap lost = {} /\ SegmentOK(b, a)
  BY DEF SmaInv, Sound
<1>2. o \in Frees(b) /\ b[o].size >= r
  BY <1>1, CandidateFacts
<1>3. r \in Nat /\ r >= MINBLOCKSIZE /\ Aligned(r)
  BY RealSizeFacts
<1>4. b[o].size \in Int
  BY <1>1, <1>2, SegmentLinks
<1> HIDE DEF c
<1>5. /\ SegmentOK(c, a - c[o].size) /\ c[o].size >= r
      /\ Allocated(c) = Allocated(b) \cup {o} /\ o \notin Allocated(b)
      /\ \A x \in Allocated(b) : c[x].size = b[x].size
  <2>1. r <= b[o].size /\ c = Carve(b, o, r)
    BY <1>2, <1>3, <1>4 DEF c
  <2> HIDE DEF b, a, r
  <2> QED
    BY <1>1, <1>2, <1>3, <2>1, AllocateSegment
<1>6. /\ blk' = [blk EXCEPT ![g] = c] /\ avail' = [avail EXCEPT ![g] = a - c[o].size]
      /\ live' = live \cup {e} /\ lost' = lost
  BY DEF SmaAllocate, Used, c
<1> HIDE DEF e
<1>7. Held([blk EXCEPT ![g] = c], E \cup {e}) /\ e \notin E
  <2>1. DOMAIN blk = Segs /\ e.seg = g /\ e.off = o /\ e.n = n
    BY <1>1 DEF Sound, e
  <2>2. Takes(blk, g, c, o, e)
    BY <1>5, <2>1 DEF Takes
  <2>3. Held(blk, E)
    BY <1>1
  <2> HIDE DEF E
  <2> QED
    BY <2>1, <2>2, <2>3, HeldTake
<1>8. Sound(blk', avail')
  <2>1. DOMAIN blk = Segs /\ DOMAIN avail = Segs /\ \A h \in Segs : SegmentOK(blk[h], avail[h])
    BY <1>1 DEF Sound
  <2>2. DOMAIN blk' = Segs /\ DOMAIN avail' = Segs
    BY <1>6, <2>1
  <2>3. ASSUME NEW h \in Segs PROVE SegmentOK(blk'[h], avail'[h])
    <3>1. CASE h = g
      <4>1. blk'[h] = c /\ avail'[h] = a - c[o].size
        BY <1>6, <2>1, <3>1
      <4> QED
        BY <1>5, <4>1
    <3>2. CASE h # g
      <4>1. blk'[h] = blk[h] /\ avail'[h] = avail[h]
        BY <1>6, <2>1, <3>2
      <4> QED
        BY <2>1, <4>1
    <3> QED
      BY <3>1, <3>2
  <2> QED
    BY <2>2, <2>3 DEF Sound
<1>9. live' \cup lost' = E \cup {e} /\ live' \cap lost' = {}
  BY <1>1, <1>6, <1>7
<1>10. Held(blk', live' \cup lost')
  BY <1>6, <1>7, <1>9
<1> QED
  BY <1>8, <1>9, <1>10 DEF Sound, Held

\* sma_deallocate.
LEMMA DeallocateStep ==
  ASSUME SmaInv, NEW e \in live, SmaDeallocate(e.seg, e.off), live' = live \ {e}, lost' = lost
  PROVE Sound(blk, avail)' /\ Held(blk, live \cup lost)' /\ (live \cap lost = {})'
<1> DEFINE g == e.seg
           o == e.off
           b == blk[g]
           a == avail[g]
           c == Deallocated(b, o)
           E == live \cup lost
<1>1. Sound(blk, avail) /\ Held(blk, E) /\ live \cap lost = {}
  BY DEF SmaInv
<1>2. g \in Segs /\ o \in Allocated(b)
  BY <1>1 DEF Held
<1>3. SegmentOK(b, a)
  BY <1>1, <1>2 DEF Sound
<1>4. blk' = [blk EXCEPT ![g] = c] /\ avail' = [avail EXCEPT ![g] = a + b[o].size]
  BY DEF SmaDeallocate, Deallocated
<1> HIDE DEF c
<1>5. /\ SegmentOK(c, a + b[o].size) /\ Allocated(c) = Allocated(b) \ {o}
      /\ \A x \in Allocated(c) : c[x].size = b[x].size
  <2>1. c = Deallocated(b, o)
    BY DEF c
  <2> HIDE DEF b, a, o
  <2> QED
    BY <1>2, <1>3, <2>1, DeallocateSegment
<1>6. Held([blk EXCEPT ![g] = c], E \ {e})
  <2>1. DOMAIN blk = Segs /\ e \in E
    BY <1>1 DEF Sound
  <2> HIDE DEF E
  <2> QED
    BY <1>1, <1>5, <2>1, HeldDrop
<1>7. Sound(blk', avail')
  <2>1. DOMAIN blk = Segs /\ DOMAIN avail = Segs /\ \A h \in Segs : SegmentOK(blk[h], avail[h])
    BY <1>1 DEF Sound
  <2> HIDE DEF g, o
  <2>2. DOMAIN blk' = Segs /\ DOMAIN avail' = Segs
    BY <1>4, <2>1
  <2>3. ASSUME NEW h \in Segs PROVE SegmentOK(blk'[h], avail'[h])
    <3>1. CASE h = g
      <4>1. blk'[h] = c /\ avail'[h] = a + b[o].size
        BY <1>4, <2>1, <3>1
      <4> QED
        BY <1>5, <4>1
    <3>2. CASE h # g
      <4>1. blk'[h] = blk[h] /\ avail'[h] = avail[h]
        BY <1>4, <2>1, <3>2
      <4> QED
        BY <2>1, <4>1
    <3> QED
      BY <3>1, <3>2
  <2> QED
    BY <2>2, <2>3 DEF Sound
<1>8. live' \cup lost' = E \ {e} /\ live' \cap lost' = {}
  BY <1>1
<1>9. Held(blk', live' \cup lost')
  BY <1>4, <1>6, <1>8
<1> QED
  BY <1>7, <1>8, <1>9 DEF Sound, Held

\* The invariant holds at first.
LEMMA SmaInvInit == Init => SmaInv
<1> SUFFICES ASSUME Init PROVE SmaInv
  OBVIOUS
<1>1. 0 \in Segs /\ 0 \in 0 .. NSegs
  BY SmaAssumption DEF Segs
<1>2. /\ blk = [g \in Segs |-> NewSegment] /\ avail = [g \in Segs |-> SegSize - First - 2 * Hdr]
      /\ live = {} /\ lost = {} /\ last = [p \in Proc |-> 0] /\ pc = [p \in Proc |-> "idle"]
      /\ want = [p \in Proc |-> 0] /\ start = [p \in Proc |-> 0] /\ seg = [p \in Proc |-> 0]
  BY DEF Init
<1>3. Sound(blk, avail)
  BY <1>2, NewSegmentOK DEF Sound
<1>4. Held(blk, live \cup lost)
  <2>1. Allocated(NewSegment) = {}
    <3>1. DOMAIN NewSegment = {First, Empty, Last}
      BY DEF NewSegment
    <3>2. First # Empty /\ Empty # Last /\ Last # 0
      BY Layout
    <3>3. NewSegment[Empty] = [size |-> Last - Empty, prev |-> 0, fnext |-> Last, fprev |-> First]
      BY <3>2 DEF NewSegment
    <3>4. NewSegment[Empty].fnext # 0
      BY <3>2, <3>3
    <3> QED
      BY <3>1, <3>4 DEF Allocated, Bl, Frees
  <2>2. \A g \in Segs : Allocated(blk[g]) = {}
    BY <1>2, <2>1
  <2>3. live \cup lost = {}
    BY <1>2
  <2> QED
    BY <2>2, <2>3 DEF Held
<1>5. Calls
  BY <1>1, <1>2 DEF Calls
<1> QED
  BY <1>2, <1>3, <1>4, <1>5 DEF SmaInv

\* A call that has returned leaves the worker idle.
LEMMA FinishCalls ==
  ASSUME Calls, NEW p \in Proc, Finish(p), last' \in [Proc -> Segs]
  PROVE Calls'
<1>1. 0 \in Segs /\ 0 \in 0 .. NSegs
  BY SmaAssumption DEF Segs
<1>2. /\ pc' = [pc EXCEPT ![p] = "idle"] /\ want' = [want EXCEPT ![p] = 0]
      /\ start' = [start EXCEPT ![p] = 0] /\ seg' = [seg EXCEPT ![p] = 0]
  BY DEF Finish
<1>3. pc' \in [Proc -> {"idle", "first", "others"}] /\ want' \in [Proc -> Sizes \cup {0}]
  BY <1>2 DEF Calls
<1>4. start' \in [Proc -> Segs] /\ seg' \in [Proc -> 0 .. NSegs]
  BY <1>1, <1>2 DEF Calls
<1>5. \A q \in Proc : pc'[q] # "idle" => want'[q] \in Sizes
  BY <1>2 DEF Calls
<1> QED
  BY <1>3, <1>4, <1>5 DEF Calls

\* Every step keeps the invariant.
LEMMA SmaInvNext == SmaInv /\ [Next]_vars => SmaInv'
<1> SUFFICES ASSUME SmaInv, [Next]_vars PROVE SmaInv'
  OBVIOUS
<1>0. /\ Sound(blk, avail) /\ Held(blk, live \cup lost) /\ live \cap lost = {} /\ Calls
      /\ pc \in [Proc -> {"idle", "first", "others"}] /\ want \in [Proc -> Sizes \cup {0}]
      /\ start \in [Proc -> Segs] /\ last \in [Proc -> Segs] /\ seg \in [Proc -> 0 .. NSegs]
      /\ \A p \in Proc : pc[p] # "idle" => want[p] \in Sizes
  BY DEF SmaInv, Calls
<1>m. ASSUME UNCHANGED <<blk, avail, live, lost>>
      PROVE Sound(blk, avail)' /\ Held(blk, live \cup lost)' /\ (live \cap lost = {})'
  BY <1>0, <1>m DEF Sound, Held
<1>1. ASSUME NEW p \in Proc, Malloc(p) PROVE SmaInv'
  <2>1. PICK n \in Sizes : want' = [want EXCEPT ![p] = n]
    BY <1>1 DEF Malloc
  <2>2. start' = [start EXCEPT ![p] = last[p]] /\ pc' = [pc EXCEPT ![p] = "first"] /\ UNCHANGED <<blk, avail, live, lost, last, seg>>
    BY <1>1 DEF Malloc
  <2>3. pc' \in [Proc -> {"idle", "first", "others"}] /\ want' \in [Proc -> Sizes \cup {0}]
    BY <1>0, <2>1, <2>2
  <2>4. start' \in [Proc -> Segs] /\ last' \in [Proc -> Segs] /\ seg' \in [Proc -> 0 .. NSegs]
    BY <1>0, <2>2
  <2>5. \A q \in Proc : pc'[q] # "idle" => want'[q] \in Sizes
    BY <1>0, <2>1, <2>2
  <2>6. Calls'
    BY <2>3, <2>4, <2>5 DEF Calls
  <2> QED
    BY <1>m, <2>2, <2>6 DEF SmaInv
<1>2. ASSUME NEW p \in Proc, TryFirst(p) PROVE SmaInv'
  <2>1. /\ pc[p] = "first" /\ Candidate(start[p], want[p]) # 0 /\ last' = last /\ Finish(p)
        /\ SmaAllocate(start[p], Candidate(start[p], want[p]), want[p])
    BY <1>2 DEF TryFirst
  <2>2. start[p] \in Segs /\ want[p] \in Sizes
    BY <1>0, <2>1
  <2>3. Sound(blk, avail)' /\ Held(blk, live \cup lost)' /\ (live \cap lost = {})'
    BY <2>1, <2>2, AllocateStep
  <2>4. Calls'
    BY <1>0, <2>1, FinishCalls
  <2> QED
    BY <2>3, <2>4 DEF SmaInv
<1>3. ASSUME NEW p \in Proc, FirstRefuses(p) PROVE SmaInv'
  <2>1. pc[p] = "first" /\ pc' = [pc EXCEPT ![p] = "others"] /\ UNCHANGED <<blk, avail, live, lost, last, want, start, seg>>
    BY <1>3 DEF FirstRefuses
  <2>2. Calls'
    BY <1>0, <2>1 DEF Calls
  <2> QED
    BY <1>m, <2>1, <2>2 DEF SmaInv
<1>4. ASSUME NEW p \in Proc, TryOther(p) PROVE SmaInv'
  <2>1. /\ pc[p] = "others" /\ seg[p] < NSegs /\ Candidate(seg[p], want[p]) # 0 /\ SetLast(p, seg[p]) /\ Finish(p)
        /\ SmaAllocate(seg[p], Candidate(seg[p], want[p]), want[p])
    BY <1>4 DEF TryOther
  <2>2. seg[p] \in Segs /\ want[p] \in Sizes
    <3>1. seg[p] \in 0 .. NSegs /\ NSegs \in Nat
      BY <1>0, SmaAssumption
    <3> QED
      BY <1>0, <2>1, <3>1 DEF Segs
  <2>3. Sound(blk, avail)' /\ Held(blk, live \cup lost)' /\ (live \cap lost = {})'
    BY <2>1, <2>2, AllocateStep
  <2>4. last' \in [Proc -> Segs]
    BY <1>0, <2>1, <2>2 DEF SetLast
  <2>5. Calls'
    BY <1>0, <2>1, <2>4, FinishCalls
  <2> QED
    BY <2>3, <2>5 DEF SmaInv
<1>5. ASSUME NEW p \in Proc, OtherRefuses(p) PROVE SmaInv'
  <2>1. pc[p] = "others" /\ seg[p] < NSegs /\ seg' = [seg EXCEPT ![p] = seg[p] + 1] /\ UNCHANGED <<blk, avail, live, lost, last, pc, want, start>>
    BY <1>5 DEF OtherRefuses
  <2>2. seg[p] + 1 \in 0 .. NSegs
    BY <1>0, <2>1, SmaAssumption
  <2>3. seg' \in [Proc -> 0 .. NSegs]
    BY <1>0, <2>1, <2>2
  <2>4. Calls'
    BY <1>0, <2>1, <2>3 DEF Calls
  <2> QED
    BY <1>m, <2>1, <2>4 DEF SmaInv
<1>6. ASSUME NEW p \in Proc, MallocNull(p) PROVE SmaInv'
  <2>1. Finish(p) /\ UNCHANGED <<blk, avail, live, lost, last>>
    BY <1>6 DEF MallocNull
  <2>2. Calls'
    BY <1>0, <2>1, FinishCalls
  <2> QED
    BY <1>m, <2>1, <2>2 DEF SmaInv
<1>7. ASSUME NEW p \in Proc, Free(p) PROVE SmaInv'
  <2>1. PICK e \in live : SmaDeallocate(e.seg, e.off) /\ live' = live \ {e}
    BY <1>7 DEF Free
  <2>2. lost' = lost /\ UNCHANGED <<last, pc, want, start, seg>>
    BY <1>7 DEF Free
  <2>3. Sound(blk, avail)' /\ Held(blk, live \cup lost)' /\ (live \cap lost = {})'
    BY <2>1, <2>2, DeallocateStep
  <2>4. Calls'
    BY <1>0, <2>2 DEF Calls
  <2> QED
    BY <2>3, <2>4 DEF SmaInv
<1>8. ASSUME NEW p \in Proc, FreeLockFails(p) PROVE SmaInv'
  <2>1. PICK e \in live : live' = live \ {e} /\ lost' = lost \cup {e}
    BY <1>8 DEF FreeLockFails
  <2>2. UNCHANGED <<blk, avail, last, pc, want, start, seg>>
    BY <1>8 DEF FreeLockFails
  <2>3. live' \cup lost' = live \cup lost /\ (live' \cap lost' = {})
    BY <1>0, <2>1
  <2>4. Sound(blk, avail)' /\ Held(blk, live \cup lost)'
    BY <1>0, <2>2, <2>3 DEF Sound, Held
  <2>5. Calls'
    BY <1>0, <2>2 DEF Calls
  <2> QED
    BY <2>3, <2>4, <2>5 DEF SmaInv
<1>9. CASE UNCHANGED vars
  <2>1. Calls'
    BY <1>0, <1>9 DEF Calls, vars
  <2> QED
    BY <1>m, <1>9, <2>1 DEF SmaInv, vars
<1> QED
  BY <1>1, <1>2, <1>3, <1>4, <1>5, <1>6, <1>7, <1>8, <1>9 DEF Next

\* The invariant holds always.
THEOREM SmaInvariant == Spec => []SmaInv
  BY SmaInvInit, SmaInvNext, PTL DEF Spec

-----------------------------------------------------------------------------
(* What the invariant says.                                                  *)

\* Offsets, links and sizes stay inside their segment, blocks tile it, freed
\* neighbours are merged, the list holds every free block once, and avail is the
\* total of the list: what sma_allocate and sma_deallocate rely on.
THEOREM SegmentsSound == Spec => []SegmentSound
<1>1. SmaInv => SegmentSound
  <2> SUFFICES ASSUME SmaInv PROVE SegmentSound
    OBVIOUS
  <2>1. \A g \in Segs : SegmentOK(blk[g], avail[g])
    BY DEF SmaInv, Sound
  <2>2. ASSUME NEW g \in Segs
        PROVE /\ Shape(blk[g]) /\ Tagged(blk[g])
              /\ Blocks(g) = Bl(blk[g]) /\ {o \in Blocks(g) : IsFree(g, o)} = Frees(blk[g])
              /\ {First, Last} \subseteq DOMAIN blk[g] /\ avail[g] \in 0 .. SegSize
    <3>1. avail[g] \in Int /\ 0 <= avail[g] /\ avail[g] <= SegSize
      BY <2>1, FreeWithinAvail
    <3>2. Shape(blk[g]) /\ Tagged(blk[g])
      BY <2>1 DEF SegmentOK
    <3>3. {First, Last} \subseteq DOMAIN blk[g]
      BY <3>2 DEF Shape
    <3>4. Blocks(g) = Bl(blk[g]) /\ {o \in Blocks(g) : IsFree(g, o)} = Frees(blk[g])
      BY DEF Blocks, Bl, IsFree, Frees
    <3> QED
      BY <3>1, <3>2, <3>3, <3>4, Layout
  <2>3. TypeOK
    <3>1. ASSUME NEW g \in Segs, NEW o \in DOMAIN blk[g]
          PROVE /\ o \in First .. Last /\ (o # Last => o % Word = First % Word)
                /\ blk[g][o].size \in 0 .. SegSize /\ blk[g][o].prev \in 0 .. SegSize
                /\ blk[g][o].fnext \in DOMAIN blk[g] \cup {0} /\ blk[g][o].fprev \in 0 .. Last
      BY <2>1, SegmentReads
    <3>2. \A e \in live \cup lost : e.seg \in Segs /\ e.off \in Blocks(e.seg) /\ e.n \in Sizes
      <4> TAKE e \in live \cup lost
      <4>1. e.seg \in Segs /\ e.off \in Bl(blk[e.seg]) /\ e.n \in Sizes
        BY DEF SmaInv, Held, Allocated
      <4> QED
        BY <4>1, <2>2
    <3>3. \A p \in Proc :
            /\ pc[p] \in {"idle", "first", "others"} /\ want[p] \in Sizes \cup {0}
            /\ {last[p], start[p]} \subseteq Segs /\ seg[p] \in 0 .. NSegs
      BY DEF SmaInv, Calls
    <3> QED
      BY <2>2, <3>1, <3>2, <3>3 DEF TypeOK
  <2>4. Tiled
    <3> SUFFICES ASSUME NEW g \in Segs
                 PROVE /\ Empty \in Blocks(g)
                       /\ \A o \in Blocks(g) :
                            /\ blk[g][o].size >= MINBLOCKSIZE
                            /\ End(g, o) \in Blocks(g) \cup {Last}
                            /\ \A x \in DOMAIN blk[g] : ~(o < x /\ x < End(g, o))
      BY DEF Tiled
    <3>1. Empty \in Blocks(g)
      BY <2>2, ShapeFacts
    <3>2. ASSUME NEW o \in Blocks(g)
          PROVE /\ blk[g][o].size >= MINBLOCKSIZE /\ End(g, o) \in Blocks(g) \cup {Last}
                /\ \A x \in DOMAIN blk[g] : ~(o < x /\ x < End(g, o))
      <4>1. /\ blk[g][o].size >= MINBLOCKSIZE /\ End(g, o) \in Blocks(g) \cup {Last}
            /\ \A x \in DOMAIN blk[g] : x <= o \/ End(g, o) <= x
        BY <2>2 DEF Shape, End
      <4>2. o \in Int /\ End(g, o) \in Int /\ \A x \in DOMAIN blk[g] : x \in Int
        BY <2>2, ShapeFacts DEF End, Bl
      <4> QED
        BY <4>1, <4>2
    <3> QED
      BY <3>1, <3>2
  <2>5. Coalesced
    <3> SUFFICES ASSUME NEW g \in Segs, NEW o \in Blocks(g)
                 PROVE /\ blk[g][End(g, o)].prev = IF IsFree(g, o) THEN blk[g][o].size ELSE 0
                       /\ IsFree(g, o) => ~IsFree(g, End(g, o))
      BY DEF Coalesced
    <3>1. o \in Bl(blk[g]) /\ (o \in Frees(blk[g]) <=> IsFree(g, o))
      BY <2>2
    <3>2. /\ blk[g][End(g, o)].prev = IF o \in Frees(blk[g]) THEN blk[g][o].size ELSE 0
          /\ o \in Frees(blk[g]) => End(g, o) \notin Frees(blk[g])
      BY <2>2, <3>1 DEF Tagged, End
    <3>3. End(g, o) \in Bl(blk[g]) \cup {Last}
      BY <2>2, <3>1 DEF Shape, End
    <3>4. ~IsFree(g, Last)
      BY <2>2 DEF Shape, IsFree
    <3>5. IsFree(g, o) => ~IsFree(g, End(g, o))
      <4> HAVE IsFree(g, o)
      <4>1. End(g, o) \in Blocks(g) => (End(g, o) \in Frees(blk[g]) <=> IsFree(g, End(g, o)))
        BY <2>2
      <4> QED
        BY <2>2, <3>1, <3>2, <3>3, <3>4, <4>1
    <3> QED
      BY <3>1, <3>2, <3>5
  <2>6. ASSUME NEW g \in Segs
        PROVE LET fl == FreeList(blk[g]) IN
              /\ {fl[i] : i \in DOMAIN fl} = {o \in Blocks(g) : IsFree(g, o)}
              /\ Len(fl) = Cardinality({o \in Blocks(g) : IsFree(g, o)})
              /\ avail[g] = Hdr + ListTotal(SmaInfoList(g))
    <3> DEFINE b == blk[g]
               L == SmaInfoList(g)
    <3>0. PICK k, fl, s : ListRead(b, avail[g], k, fl, s)
      BY <2>1, SegmentReads
    <3>1. /\ k \in Nat /\ fl \in [1 .. k -> Frees(b)] /\ s \in [0 .. k -> Int]
          /\ FreeList(b) = fl /\ k = Cardinality(Frees(b)) /\ {fl[i] : i \in 1 .. k} = Frees(b)
          /\ s[0] = 0 /\ s[k] = avail[g] - Hdr /\ \A i \in 1 .. k : s[i] = s[i - 1] + b[fl[i]].size
      BY <3>0 DEF ListRead
    <3>2. DOMAIN fl = 1 .. k /\ Len(fl) = k
      BY <3>1
    <3>3. L = [i \in 1 .. k |-> [size |-> b[fl[i]].size, offset |-> fl[i]]]
      BY <3>1, <3>2 DEF SmaInfoList
    <3> HIDE DEF L
    <3>4. Len(L) = k /\ \A i \in 1 .. k : L[i].size = b[fl[i]].size
      <4>1. k \in Nat /\ DOMAIN L = 1 .. k
        BY <3>1, <3>3
      <4>2. \A i \in 1 .. k : L[i].size = b[fl[i]].size
        BY <3>3
      <4> QED
        BY <4>1, <4>2
    <3>5. ListTotal(L) = s[k]
      <4>1. \A i \in 1 .. k : s[i] = s[i - 1] + L[i].size
        BY <3>1, <3>4
      <4>2. k \in Nat /\ s \in [0 .. k -> Int] /\ s[0] = 0
        BY <3>1
      <4> QED
        BY <3>4, <4>1, <4>2, TotalSums
    <3>6. avail[g] \in Int /\ Hdr \in Int
      BY <2>2, Layout
    <3>7. avail[g] = Hdr + ListTotal(L)
      BY <3>1, <3>5, <3>6
    <3> QED
      BY <2>2, <3>1, <3>2, <3>7, ZenonT(60) DEF L
  <2>7. ListSound
    <3>1. \A g \in Segs : \A o \in DOMAIN blk[g] : IsFree(g, o) => blk[g][blk[g][o].fnext].fprev = o
      BY <2>1, SegmentReads DEF IsFree
    <3> QED
      BY <2>6, <3>1 DEF ListSound
  <2>8. AvailMatchesList
    BY <2>6 DEF AvailMatchesList
  <2> QED
    BY <2>3, <2>4, <2>5, <2>7, <2>8 DEF SegmentSound
<1> QED
  BY <1>1, SmaInvariant, PTL

\* Callers hold disjoint memory, each as much as it asked for, clear of every
\* header and of every block whose free has failed.
THEOREM CallersDisjoint == Spec => []LiveDisjoint
<1>1. SmaInv => LiveDisjoint
  <2> SUFFICES ASSUME SmaInv, NEW e \in live \cup lost
               PROVE /\ ~IsFree(e.seg, e.off)
                     /\ End(e.seg, e.off) >= e.off + Hdr + e.n
                     /\ \A x \in DOMAIN blk[e.seg] : x + Hdr <= e.off \/ x = e.off \/ x >= e.off + Hdr + e.n
                     /\ \A f \in live \cup lost : e # f => <<e.seg, e.off>> # <<f.seg, f.off>>
    BY DEF LiveDisjoint
  <2> DEFINE g == e.seg
             o == e.off
             n == e.n
             b == blk[g]
  <2>1. /\ g \in Segs /\ o \in Allocated(b) /\ n \in Sizes /\ b[o].size >= RealSize(n)
        /\ \A f \in live \cup lost : e.seg = f.seg /\ e.off = f.off => e = f
    BY DEF SmaInv, Held
  <2>2. Shape(b)
    BY <2>1 DEF SmaInv, Sound, SegmentOK
  <2>3. o \in Bl(b) /\ ~IsFree(g, o)
    BY <2>1 DEF Allocated, Frees, IsFree
  <2>4. /\ \A x \in DOMAIN b : x \in Int /\ (x <= o \/ o + b[o].size <= x)
        /\ \A x \in Bl(b) : b[x].size >= MINBLOCKSIZE /\ b[x].size \in Int /\ (o <= x \/ x + b[x].size <= o)
        /\ o \in Int /\ b[o].size \in Int /\ Empty <= o /\ o < Last
    <3>1. o \in DOMAIN b /\ o \in Int /\ b[o].size \in Int /\ Empty <= o /\ o < Last
      BY <2>2, <2>3, ShapeFacts DEF Bl
    <3>2. \A x \in DOMAIN b : x \in Int /\ (x <= o \/ o + b[o].size <= x)
      BY <2>2, <2>3 DEF Shape
    <3>3. \A x \in Bl(b) : b[x].size >= MINBLOCKSIZE /\ b[x].size \in Int /\ (o <= x \/ x + b[x].size <= o)
      BY <2>2, <3>1, ShapeFacts DEF Shape
    <3> QED
      BY <3>1, <3>2, <3>3
  <2>5. b[o].size >= n + Hdr /\ n \in Nat /\ Hdr \in Nat
    <3>1. RealSize(n) \in Nat /\ RealSize(n) >= n + Hdr /\ n \in Nat
      BY <2>1, RealSizeFacts, SmaAssumption
    <3> QED
      BY <2>1, <2>4, <3>1, Layout
  <2>6. End(g, o) >= o + Hdr + n
    BY <2>4, <2>5 DEF End
  <2>7. ASSUME NEW x \in DOMAIN b PROVE x + Hdr <= o \/ x = o \/ x >= o + Hdr + n
    <3>1. x = First \/ x = Last \/ x \in Bl(b)
      BY DEF Bl
    <3>2. CASE x = First
      BY <2>4, <3>2, Layout
    <3>3. CASE x = Last
      BY <2>4, <2>5, <3>3, Layout
    <3>4. CASE x \in Bl(b)
      <4>1. /\ x \in Int /\ b[x].size \in Int /\ b[x].size >= MINBLOCKSIZE
            /\ (x <= o \/ o + b[o].size <= x) /\ (o <= x \/ x + b[x].size <= o)
        BY <2>4, <3>4
      <4> HIDE DEF b, o, n
      <4> QED
        BY <2>4, <2>5, <4>1, Layout
    <3> QED
      BY <3>1, <3>2, <3>3, <3>4
  <2> QED
    BY <2>1, <2>3, <2>6, <2>7
<1> QED
  BY <1>1, SmaInvariant, PTL

\* A segment of which nothing is held any more is one free block again, whatever
\* was allocated and freed in it, in any order.
THEOREM MemoryReclaimed == Spec => []Reclaimed
<1>1. SmaInv => Reclaimed
  <2> SUFFICES ASSUME SmaInv, NEW g \in Segs, \A e \in live \cup lost : e.seg # g PROVE blk[g] = NewSegment
    BY DEF Reclaimed
  <2>1. SegmentOK(blk[g], avail[g])
    BY DEF SmaInv, Sound
  <2>2. Allocated(blk[g]) = {}
    BY DEF SmaInv, Held
  <2> QED
    BY <2>1, <2>2, NothingAllocated
<1> QED
  BY <1>1, SmaInvariant, PTL

\* A malloc passes over a segment only if no free block in it is large enough:
\* neither the test of avail nor the search of the list misses one.
THEOREM PassedOverOnlyWhenFull == Spec => RefusedOnlyWhenFull
<1> DEFINE Passes(p) ==
      (\/ pc[p] = "first" /\ pc'[p] = "others"
       \/ pc[p] = "others" /\ seg'[p] > seg[p] /\ seg[p] # start[p])
      => LET g == IF pc[p] = "first" THEN start[p] ELSE seg[p] IN
         \A o \in Blocks(g) : IsFree(g, o) => blk[g][o].size < RealSize(want[p])
<1>1. ASSUME SmaInv, [Next]_vars, NEW p \in Proc PROVE Passes(p)
  <2>0. /\ pc \in [Proc -> {"idle", "first", "others"}] /\ seg \in [Proc -> 0 .. NSegs]
        /\ start \in [Proc -> Segs] /\ seg[p] \in Int /\ NSegs \in Nat
        /\ \A q \in Proc : pc[q] # "idle" => want[q] \in Sizes
    <3>1. seg \in [Proc -> 0 .. NSegs] /\ NSegs \in Nat
      BY <1>1, SmaAssumption DEF SmaInv, Calls
    <3>2. seg[p] \in Int
      BY <3>1
    <3> QED
      BY <1>1, <3>1, <3>2 DEF SmaInv, Calls
  <2>1. ASSUME NEW g \in Segs, want[p] \in Sizes, Candidate(g, want[p]) = 0
        PROVE \A o \in Blocks(g) : IsFree(g, o) => blk[g][o].size < RealSize(want[p])
    <3>1. SegmentOK(blk[g], avail[g])
      BY <1>1 DEF SmaInv, Sound
    <3>2. \A x \in Frees(blk[g]) : blk[g][x].size < RealSize(want[p])
      BY <2>1, <3>1, CandidateFacts
    <3>3. \A o \in Blocks(g) : IsFree(g, o) => o \in Frees(blk[g])
      BY DEF Blocks, IsFree, Frees, Bl
    <3> QED
      BY <3>2, <3>3
  <2>2. ASSUME pc[p] = "first", pc'[p] = "others" PROVE start[p] \in Segs /\ want[p] \in Sizes /\ Candidate(start[p], want[p]) = 0
    <3>1. PICK q \in Proc : \/ Malloc(q) \/ TryFirst(q) \/ FirstRefuses(q) \/ TryOther(q) \/ OtherRefuses(q)
                            \/ MallocNull(q) \/ Free(q) \/ FreeLockFails(q)
      BY <1>1, <2>2 DEF Next, vars
    <3>2. FirstRefuses(p)
      BY <2>0, <2>2, <3>1 DEF Malloc, TryFirst, FirstRefuses, TryOther, OtherRefuses, MallocNull, Free, FreeLockFails, Finish
    <3> QED
      BY <2>0, <2>2, <3>2 DEF FirstRefuses
  <2>3. ASSUME pc[p] = "others", seg'[p] > seg[p], seg[p] # start[p] PROVE seg[p] \in Segs /\ want[p] \in Sizes /\ Candidate(seg[p], want[p]) = 0
    <3>1. PICK q \in Proc : \/ Malloc(q) \/ TryFirst(q) \/ FirstRefuses(q) \/ TryOther(q) \/ OtherRefuses(q)
                            \/ MallocNull(q) \/ Free(q) \/ FreeLockFails(q)
      BY <1>1, <2>0, <2>3 DEF Next, vars
    <3>2. ASSUME Finish(q) PROVE FALSE
      <4>1. seg' = [seg EXCEPT ![q] = 0]
        BY <3>2 DEF Finish
      <4>2. seg'[p] = seg[p] \/ seg'[p] = 0
        BY <2>0, <4>1
      <4>3. seg[p] >= 0
        BY <2>0
      <4> QED
        BY <2>0, <2>3, <4>2, <4>3
    <3>3. ASSUME seg' = seg PROVE FALSE
      BY <2>0, <2>3, <3>3
    <3>4. OtherRefuses(q)
      BY <3>1, <3>2, <3>3 DEF Malloc, TryFirst, FirstRefuses, TryOther, MallocNull, Free, FreeLockFails
    <3>5. q = p
      <4>1. seg' = [seg EXCEPT ![q] = seg[q] + 1]
        BY <3>4 DEF OtherRefuses
      <4> QED
        BY <2>0, <2>3, <4>1
    <3>6. seg[p] < NSegs /\ (seg[p] = start[p] \/ Candidate(seg[p], want[p]) = 0)
      BY <3>4, <3>5 DEF OtherRefuses
    <3>7. seg[p] \in Segs
      BY <2>0, <3>6 DEF Segs
    <3> QED
      BY <2>0, <2>3, <3>6, <3>7
  <2>4. CASE pc[p] = "first" /\ pc'[p] = "others"
    BY <2>1, <2>2, <2>4
  <2>5. CASE pc[p] = "others" /\ seg'[p] > seg[p] /\ seg[p] # start[p]
    BY <2>1, <2>3, <2>5
  <2> QED
    BY <2>4, <2>5
<1>2. SmaInv /\ [Next]_vars => [\A p \in Proc : Passes(p)]_vars
  BY <1>1
<1> QED
  BY <1>2, SmaInvariant, PTL DEF Spec, RefusedOnlyWhenFull
====
