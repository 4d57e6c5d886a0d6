------------------------------- MODULE Totals -------------------------------
(* Where things end that lie one after another, given how long each is.      *)
EXTENDS Integers, Sequences

Totals(sizes) ==
  LET Upto[n \in 0..Len(sizes)] == IF n = 0 THEN 0 ELSE Upto[n - 1] + sizes[n]
  IN Upto
Total(sizes) == Totals(sizes)[Len(sizes)]
=============================================================================
