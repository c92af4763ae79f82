---------------------------- MODULE ClosablePipe ----------------------------
(***************************************************************************)
(* What the chain of goroutines between the model's HTTP response and the  *)
(* reader of an answer promises together: one pipe.  Its writer sends the  *)
(* pieces of the answer in order and closes; its reader receives each      *)
(* piece once and in order and learns of the end only when everything was  *)
(* received, unless it closes early and lets the rest go.                  *)
(***************************************************************************)
EXTENDS Naturals, Sequences

CONSTANT Pieces       \* the number of pieces an answer may have

VARIABLES
  sent,      \* how many pieces the writer sent
  queue,     \* those under way
  received,  \* how many the reader received
  writer,    \* "open" or "closed"
  reader     \* "open", "eof" (it saw the end) or "closed"

vars == <<sent, queue, received, writer, reader>>

Init ==
  /\ sent = 0 /\ queue = <<>> /\ received = 0
  /\ writer = "open" /\ reader = "open"

Send ==
  /\ writer = "open"
  /\ sent < Pieces
  /\ sent' = sent + 1
  /\ queue' = Append(queue, sent')
  /\ UNCHANGED <<received, writer, reader>>

CloseWriter ==
  /\ writer = "open"
  /\ writer' = "closed"
  /\ UNCHANGED <<sent, queue, received, reader>>

Receive ==
  /\ reader = "open"
  /\ queue # <<>>
  /\ Head(queue) = received + 1
  /\ queue' = Tail(queue)
  /\ received' = received + 1
  /\ UNCHANGED <<sent, writer, reader>>

SeeEnd ==
  /\ reader = "open" /\ writer = "closed" /\ queue = <<>>
  /\ reader' = "eof"
  /\ UNCHANGED <<sent, queue, received, writer>>

CloseReader ==
  /\ reader = "open"
  /\ reader' = "closed"
  /\ UNCHANGED <<sent, queue, received, writer>>

(* Nobody waits for what is under way to a closed reader.                  *)
Drop ==
  /\ reader = "closed"
  /\ \E i \in DOMAIN queue :
       queue' = SubSeq(queue, 1, i - 1) \o SubSeq(queue, i + 1, Len(queue))
  /\ UNCHANGED <<sent, received, writer, reader>>

Next == Send \/ CloseWriter \/ Receive \/ SeeEnd \/ CloseReader \/ Drop

Spec == Init /\ [][Next]_vars

=============================================================================
