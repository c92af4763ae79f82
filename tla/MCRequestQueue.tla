--------------------------- MODULE MCRequestQueue ---------------------------
(* Instances of RequestQueue for TLC: which requests ask the same question *)
(* and which come from the stock page (priority 1; all others have 2).     *)
EXTENDS RequestQueue

CONSTANTS r1, r2, r3, r4, ka, kb

(* Three submissions of one question (a double click) and another one.     *)
TwiceTheSame == [r \in Requests |-> IF r = r3 THEN kb ELSE ka]

(* Every request its own key: nothing is coalesced.                        *)
AllDistinct == [r \in Requests |-> r]

(* One stock request among normal ones.                                    *)
OneUrgent == [r \in Requests |-> IF r = r3 THEN 1 ELSE 2]

(* The stock page asks what a chat asks too.                               *)
UrgentCopy == [r \in Requests |-> IF r = r2 THEN 1 ELSE 2]

(* Only normal requests.                                                   *)
SamePriority == [r \in Requests |-> 2]

(* r1, r2 and r4 are interchangeable: same key, same priority.             *)
SameQuestion == Permutations({r1, r2, r4})

=============================================================================
