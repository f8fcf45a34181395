-------------------------------- MODULE Sums --------------------------------
(* A sum over a finite set, as the number of the units that are added up: a   *)
(* cardinality, which proofs can reason about where a fold cannot be.         *)
EXTENDS Integers, FiniteSets

\* One pair for each unit of each f[x].
Units(f, S) == UNION {{x} \X (1 .. f[x]) : x \in S}

\* The sum of the natural numbers f[x] over the finite set S.
Total(f, S) == Cardinality(Units(f, S))
=============================================================================
