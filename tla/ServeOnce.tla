------------------------------ MODULE ServeOnce ------------------------------
(***************************************************************************)
(* What the request queue promises, without channels, tokens or handlers:  *)
(* of the requests with one key at most one is queued and the others join  *)
(* it; requests are served one at a time, the most urgent first, and each  *)
(* is served at most once.                                                 *)
(***************************************************************************)
EXTENDS Integers

CONSTANTS Requests, KeyOf, Prio

VARIABLE status   \* what has become of each request

Statuses == {"new", "joined", "queued", "running", "served"}

Init == status = [r \in Requests |-> "new"]

Queued(k) == \E r \in Requests : status[r] = "queued" /\ KeyOf[r] = k

Queue(r) ==
  /\ status[r] = "new"
  /\ ~Queued(KeyOf[r])
  /\ status' = [status EXCEPT ![r] = "queued"]

Join(r) ==
  /\ status[r] = "new"
  /\ Queued(KeyOf[r])
  /\ status' = [status EXCEPT ![r] = "joined"]

Start(r) ==
  /\ status[r] = "queued"
  /\ \A q \in Requests : status[q] # "running"
  /\ \A q \in Requests : status[q] = "queued" => Prio[r] <= Prio[q]
  /\ status' = [status EXCEPT ![r] = "running"]

Finish(r) ==
  /\ status[r] = "running"
  /\ status' = [status EXCEPT ![r] = "served"]

Next == \E r \in Requests : Queue(r) \/ Join(r) \/ Start(r) \/ Finish(r)

Spec == Init /\ [][Next]_status

=============================================================================
