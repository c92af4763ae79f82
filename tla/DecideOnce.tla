----------------------------- MODULE DecideOnce -----------------------------
(***************************************************************************)
(* What the store of approvals promises of an item, without locks, files   *)
(* or a process that dies and loads them again: it enters the store once,  *)
(* is decided in one step by one request, and never comes back when it has *)
(* left.  A request hears of a decision after it was taken, and a refusal  *)
(* only of an item that waits for none.                                    *)
(*                                                                         *)
(* intact is the condition of the promise: nothing is said of what follows *)
(* a file that could not be written or was left torn.                      *)
(***************************************************************************)
EXTENDS Integers, Sequences, Functions

CONSTANTS Ids, Users, StoreLimit, Nil

VARIABLES
  list,     \* the items in the store, the oldest first
  fate,     \* what has become of each item
  wish,     \* what each request asked for
  phase,    \* what each request has heard
  intact

vars == <<list, fate, wish, phase, intact>>

Init ==
  /\ \A i \in Ids : fate[i] = IF i \in Range(list) THEN "accepted" ELSE "new"
  /\ Len(list) <= StoreLimit
  /\ \A u \in Users : wish[u].id = Nil
  /\ phase = [u \in Users |-> "idle"]
  /\ intact = TRUE

(* The items that left the list are gone, and the others have their fate.  *)
Thinned == [i \in Ids |-> IF i \in Range(list) \ Range(list') THEN "gone" ELSE fate[i]]

(* An undecided item goes only from a full list, and before all newer ones.*)
OldestGoFirst ==
  \A a \in DOMAIN list :
    fate[list[a]] = "pending" /\ list[a] \notin Range(list') =>
      /\ Len(list) = StoreLimit
      /\ \A b \in DOMAIN list : list[b] \in Range(list') => a < b

Submit(i) ==
  /\ fate[i] = "new"
  /\ fate' = [fate EXCEPT ![i] = "coming"]
  /\ UNCHANGED <<list, wish, phase, intact>>

Enter(i) ==
  /\ fate[i] = "coming"
  /\ i \in Range(list') /\ Range(list') \subseteq Range(list) \cup {i}
  /\ Len(list') <= StoreLimit
  /\ OldestGoFirst
  /\ fate' = [Thinned EXCEPT ![i] = "pending"]
  /\ UNCHANGED <<wish, phase, intact>>

Hears(u, what) == phase' = [phase EXCEPT ![u] = what]

Asks(u, i, s) ==
  /\ phase[u] = "idle"
  /\ wish' = [wish EXCEPT ![u] = [id |-> i, status |-> s]]
  /\ UNCHANGED <<list, fate, intact>>

Ask(u, i, s)    == Asks(u, i, s) /\ fate[i] = "pending" /\ Hears(u, "asking")
Refuse(u, i, s) == Asks(u, i, s) /\ fate[i] # "pending" /\ Hears(u, "error")

Settle(u) ==
  /\ phase[u] = "asking" /\ Hears(u, "decided")
  /\ fate[wish[u].id] = "pending"
  /\ Range(list') \subseteq Range(list)
  /\ \A i \in Range(list) : fate[i] = "pending" => i \in Range(list')
  /\ fate' = [Thinned EXCEPT ![wish[u].id] = wish[u].status]
  /\ UNCHANGED <<wish, intact>>

Tell(u) ==
  /\ phase[u] = "decided" /\ Hears(u, "ok")
  /\ UNCHANGED <<list, fate, wish, intact>>

(* The process dies: what had not entered does not, and nobody is told.    *)
Die ==
  /\ fate' = [i \in Ids |-> IF fate[i] = "coming" THEN "gone" ELSE fate[i]]
  /\ phase' = [u \in Users |-> IF phase[u] \in {"asking", "decided"} THEN "lost" ELSE phase[u]]
  /\ UNCHANGED <<list, wish, intact>>

(* Most steps of a store (its clock, a load, the write itself) are no step *)
(* here, and after a failed write anything is one.                         *)
Next ==
  \/ UNCHANGED vars \/ ~ intact'
  \/ \E i \in Ids : Submit(i) \/ Enter(i)
  \/ \E u \in Users, i \in Ids, s \in {"accepted", "rejected"} : Ask(u, i, s) \/ Refuse(u, i, s)
  \/ \E u \in Users : Settle(u) \/ Tell(u)
  \/ Die

Spec == Init /\ [][Next]_vars

=============================================================================
