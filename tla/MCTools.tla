------------------------------- MODULE MCTools --------------------------------
(* An instance for TLC of what handles the tool calls of an agent run:     *)
(* the loop of the graph, the collector of calls and results, and the      *)
(* wrapper around a tool.  They share no state, so a behaviour is one of a *)
(* single part; the others rest in their initial state.                    *)
EXTENDS AgentLoop, ToolResultsBag, ToolWrapper

CONSTANTS ba, bb, bc, bd, be

VARIABLE part

(* Three calls in the first round and two in the second.                   *)
TwoRounds == [c \in BagCalls |-> IF c \in {ba, bb, bc} THEN 1 ELSE 2]

MCInit == part \in {"loop", "bag", "wrapper"} /\ LoopInit /\ BagInit /\ WrapperInit

MCNext ==
  \/ part = "loop" /\ LoopNext /\ UNCHANGED <<part, bagVars, wrapperVars>>
  \/ part = "bag" /\ BagNext /\ UNCHANGED <<part, loopVars, wrapperVars>>
  \/ part = "wrapper" /\ WrapperNext /\ UNCHANGED <<part, loopVars, bagVars>>

(* The fairness of LoopFairSpec and WrapperFairSpec.                       *)
MCSpec ==
  /\ MCInit /\ [][MCNext]_<<part, loopVars, bagVars, wrapperVars>>
  /\ \A r \in Runs : WF_loopVars(part = "loop" /\ Run(r))
  /\ \A c \in Calls : /\ WF_wrapperVars(part = "wrapper" /\ Caller(c))
                      /\ WF_wrapperVars(part = "wrapper" /\ WorkerSends(c))
-----------------------------------------------------------------------------
(* Every run of the graph ends.                                            *)
RunsEnd == part = "loop" => LoopEnds

=============================================================================
