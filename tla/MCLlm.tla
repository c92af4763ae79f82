-------------------------------- MODULE MCLlm ---------------------------------
(* An instance for TLC of the way to the model and back: the gate in front *)
(* of it, with many calls, and the stream of one answer.  A behaviour is   *)
(* one of the two, which part names; the other rests in its initial state. *)
EXTENDS HighConcurrencyManager, ModelStream

VARIABLE part

MCInit == part \in {"gate", "stream"} /\ Init /\ StreamInit

MCNext ==
  \/ part = "gate" /\ Next /\ UNCHANGED <<part, streamVars>>
  \/ part = "stream" /\ StreamNext /\ UNCHANGED <<part, vars>>

(* The fairness of FairSpec and StreamFairSpec.                            *)
MCSpec ==
  /\ MCInit /\ [][MCNext]_<<part, vars, streamVars>>
  /\ \A c \in Calls :
       /\ WF_vars(part = "gate" /\ Admission(c)) /\ WF_vars(part = "gate" /\ Execution(c))
       /\ WF_vars(part = "gate" /\ Pumping(c)) /\ WF_vars(part = "gate" /\ UpstreamEnds(c))
  /\ WF_streamVars(part = "stream" /\ Scanner) /\ WF_streamVars(part = "stream" /\ Pump)
  /\ WF_streamVars(part = "stream" /\ Parser) /\ WF_streamVars(part = "stream" /\ Reader)
  /\ WF_streamVars(part = "stream" /\ ContextEnds)
-----------------------------------------------------------------------------
(* Every goroutine of a stream ends, and its slot comes back.              *)
StreamFinishes == part = "stream" => EveryoneFinishes

=============================================================================
