-------------------------------- MODULE Loops --------------------------------
(* Loops over a slice, as Go writes them: one that appends what it keeps,  *)
(* and one that adds up.  SelectSeq of the standard modules says the same  *)
(* as the first with a recursive operator, about which nothing can be      *)
(* proved.                                                                 *)
EXTENDS Integers, Sequences

Keep(kept, e, S) == IF e \in S THEN Append(kept, e) ELSE kept

(* What has been kept after each element.                                  *)
KeptSofar(s, S) ==
  LET kept[n \in 0..Len(s)] == IF n = 0 THEN << >> ELSE Keep(kept[n - 1], s[n], S)
  IN  kept

(* The elements of s that are in S, in their order.                        *)
Filter(s, S) == KeptSofar(s, S)[Len(s)]

(* What has been added up after each element.                              *)
Sofar(s) ==
  LET sum[n \in 0..Len(s)] == IF n = 0 THEN 0 ELSE sum[n - 1] + s[n]
  IN  sum

(* The sum of s.                                                           *)
SumUp(s) == Sofar(s)[Len(s)]

=============================================================================
