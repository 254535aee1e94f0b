----------------------------- MODULE Selections -----------------------------
(***************************************************************************)
(* What the loops over slices keep and sort: an element by its rank among  *)
(* its positions, and the elements of some positions, in their order.      *)
(***************************************************************************)
EXTENDS Naturals, Sequences, FiniteSets

\* The k-th of the positions I in an order of them, a set of pairs: k - 1 come before it.
Nth(I, before, k) == CHOOSE i \in I : Cardinality({j \in I : <<j, i>> \in before}) = k - 1
Ascending(I) == {p \in I \X I : p[1] < p[2]}

\* for ... { if keep { out = append(out, s[i]) } }: the elements at the positions I.
Only(s, I) == [k \in 1..Cardinality(I) |-> s[Nth(I, Ascending(I), k)]]
=============================================================================
