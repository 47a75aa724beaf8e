------------------------------- MODULE Totals -------------------------------
(* The sum of finitely many natural numbers f[x], as the size of a set of as   *)
(* many units: what a total comes to then needs no recursion.  And the part of *)
(* a function on some of its domain.                                           *)
EXTENDS Integers, FiniteSets

Units(f) == UNION {{x} \X (1..f[x]) : x \in DOMAIN f}
Total(f) == Cardinality(Units(f))
Part(f, S) == [x \in S |-> f[x]]

=============================================================================
