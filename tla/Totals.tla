-------------------------------- MODULE Totals --------------------------------
(***************************************************************************)
(* Sums, as the properties of the components count them.                   *)
(***************************************************************************)
EXTENDS Integers, Sequences

\* The sum of a sequence of numbers.
Total(v) ==
  LET upTo[i \in 0..Len(v)] == IF i = 0 THEN 0 ELSE upTo[i - 1] + v[i]
  IN  upTo[Len(v)]

\* The sum of what v is on the finite set S.
TotalOn(v, S) ==
  LET sum[T \in SUBSET S] == IF T = {} THEN 0
                             ELSE LET x == CHOOSE x \in T : TRUE IN v[x] + sum[T \ {x}]
  IN  sum[S]
===============================================================================
