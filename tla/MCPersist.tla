----------------------------- MODULE MCPersist ------------------------------
(* Inputs of Persist for TLC: every graph of three nodes in which node 3 is   *)
(* the value, with at most MaxTop buckets, and node 4 a key of its own.       *)
EXTENDS Persist

CONSTANT MaxTop    \* bound: buckets of the top-level array

Plain(kind, n) == [kind |-> kind, buckets |-> <<>>, text |-> n]
\* Each kind that is not an array, at one place at least.
LeafKinds == <<{"string", "object", "resource"}, {"string", "reference"}, {"string", "object", "resource"}>>
Leaves(n) == {Plain(k, n) : k \in LeafKinds[n]}

\* Buckets whose key and value are among the nodes below n.
BucketsOver(m, n) ==
  [key : {NoKey} \cup {k \in 1 .. n - 1 : m[k].kind = "string"}, val : {Scalar} \cup 1 .. n - 1]
    \cup [key : {NoKey}, val : {Undef, Indirect}]

Arrays(m, n, max) ==
  {[Plain("array", n) EXCEPT !.buckets = bs] : bs \in UNION {[1 .. l -> BucketsOver(m, n)] : l \in 0 .. max}}

\* Node n added to the graphs M.
Grow(M, n, max) == UNION {{Append(m, x) : x \in Leaves(n) \cup Arrays(m, n, max)} : m \in M}

MCGraphs == Grow(Grow(Grow({<<>>}, 1, 1), 2, 1), 3, MaxTop)

\* The entry's key may be a string of the value; node 4 stays in the request.
MCInputs ==
  UNION {LET m == Append(g, Plain("string", 4)) IN
         {[mem |-> m, shm |-> S, key |-> k, val |-> v] :
            S \in {T \in SUBSET (1 .. 3) : Shareable(m, T)},
            k \in {4} \cup {n \in 1 .. 3 : m[n].kind = "string"}, v \in {3}} :
         g \in MCGraphs}
=============================================================================
