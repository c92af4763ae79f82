----------------------------- MODULE AgentLoop ------------------------------
(***************************************************************************)
(* The agent graph (internal/graph/agent.go): chat_model, parse_tool_calls,*)
(* tools, retry_gate and tool_as_user in a loop until the model answers    *)
(* without tool calls, with the retry gate (internal/graph/retry_gate.go)  *)
(* that all runs of the main graph share.                                  *)
(*                                                                         *)
(* Actors: the runs of the graph.  The request queue runs one stream at a  *)
(* time, but non-streaming requests, cron jobs and batch tasks invoke the  *)
(* same graph next to it.                                                  *)
(*                                                                         *)
(* Abstractions: the result of a tool is what the gate makes of its text,  *)
(* and own, the number of parameter errors in a row of the same run that   *)
(* end with it, which no code keeps.  A tool that returns a Go error ends  *)
(* its run, as the comment in ProvideToolRegistry (internal/server/fx.go)  *)
(* has it; every tool in internal/component/tool reports a bad parameter   *)
(* that way, and only tools of MCP servers report one as a text.           *)
(***************************************************************************)
EXTENDS Integers, Sequences, SequencesExt

CONSTANTS
  Runs,         \* runs of the graph, one per conversation turn
  MaxCalls,     \* the most tool calls of one turn of the model
  MaxRetries,   \* the gate's limit (3)
  MaxRunSteps   \* the graph's limit on node executions (200)

ASSUME AgentLoopAssumption ==
  /\ MaxCalls \in Nat \ {0}
  /\ MaxRetries \in Nat \ {0}
  /\ MaxRunSteps \in Nat \ {0}

VARIABLES
  count,   \* g.count of the shared gate
  node,    \* the node each run is about to execute
  steps,   \* how many nodes it has executed
  msgs,    \* the tool results on their way back to the model
  streak,  \* the run's own parameter errors in a row, up to now
  why      \* why a run failed

loopVars == <<count, node, steps, msgs, streak, why>>

Nodes    == {"to_messages", "chat_model", "tools", "retry_gate", "tool_as_user"}
Failures == {"paramError", "unavailable", "runtime", "maxSteps"}

Result(text, n) == [text |-> text, own |-> n]

LoopInit ==
  /\ count  = 0
  /\ node   = [r \in Runs |-> "to_messages"]
  /\ steps  = [r \in Runs |-> 0]
  /\ msgs   = [r \in Runs |-> <<>>]
  /\ streak = [r \in Runs |-> 0]
  /\ why    = [r \in Runs |-> "none"]

-----------------------------------------------------------------------------
MayStep(r, n) == steps[r] + n <= MaxRunSteps

F_Counted(r, n) == steps[r]
Counted(r, n)   == steps[r] + n

(* The run executes n nodes, from one node to another.                     *)
Execute(r, n, from, to) ==
  /\ node[r] = from
  /\ MayStep(r, n)
  /\ steps' = [steps EXCEPT ![r] = Counted(r, n)]
  /\ node'  = [node EXCEPT ![r] = to]

ToMessages(r) ==
  /\ Execute(r, 1, "to_messages", "chat_model")
  /\ UNCHANGED <<count, msgs, streak, why>>

(* chat_model and parse_tool_calls; the branch behind them. *)
ModelCallsTools(r) ==
  /\ Execute(r, 2, "chat_model", "tools")
  /\ UNCHANGED <<count, msgs, streak, why>>

ModelAnswers(r) ==
  /\ Execute(r, 2, "chat_model", "ended")
  /\ UNCHANGED <<count, msgs, streak, why>>

(* The node runs all calls of the turn and collects what they return.      *)
ToolsReturn(r) ==
  /\ Execute(r, 1, "tools", "retry_gate")
  /\ \E texts \in BoundedSeq({"ok", "paramText"}, MaxCalls) \ {<<>>} :
       msgs' = [msgs EXCEPT ![r] = [i \in DOMAIN texts |-> Result(texts[i], 0)]]
  /\ UNCHANGED <<count, streak, why>>

(* One call returns an error: bad parameters, a tool whose breaker is open *)
(* or that timed out, or any other failure.                                *)
ToolsFail(r, cause) ==
  /\ Execute(r, 1, "tools", "failed")
  /\ why' = [why EXCEPT ![r] = cause]
  /\ UNCHANGED <<count, msgs, streak>>

(* One message in Intercept: g is the gate's count, the run's streak and   *)
(* the messages so far.                                                    *)
F_OneLess(n)      == n - 1
AfterSuccess(n)   == 0

F_OnlyOnce(n) == n = MaxRetries + 1
OverLimit(n)  == n > MaxRetries

Judge(g, m) ==
  IF m.text = "paramText"
  THEN [count  |-> g.count + 1,
        streak |-> g.streak + 1,
        out    |-> Append(g.out, Result(IF OverLimit(g.count + 1) THEN "stop"
                                                              ELSE "paramText",
                                        g.streak + 1))]
  ELSE [count  |-> AfterSuccess(g.count), streak |-> 0,
        out    |-> Append(g.out, m)]

(* The gate after each of the messages.                                    *)
Judgements(r) ==
  LET g[i \in 0..Len(msgs[r])] ==
        IF i = 0 THEN [count |-> count, streak |-> streak[r], out |-> <<>>]
        ELSE Judge(g[i - 1], msgs[r][i])
  IN  g

Intercept(r) ==
  LET g == Judgements(r)[Len(msgs[r])]
  IN  /\ Execute(r, 1, "retry_gate", "tool_as_user")
      /\ count'  = g.count
      /\ streak' = [streak EXCEPT ![r] = g.streak]
      /\ msgs'   = [msgs EXCEPT ![r] = g.out]
      /\ UNCHANGED why

ToolAsUser(r) ==
  /\ Execute(r, 1, "tool_as_user", "chat_model")
  /\ msgs' = [msgs EXCEPT ![r] = <<>>]
  /\ UNCHANGED <<count, streak, why>>

ExceedsSteps(r) ==
  /\ node[r] \in Nodes
  /\ ~MayStep(r, IF node[r] = "chat_model" THEN 2 ELSE 1)
  /\ node' = [node EXCEPT ![r] = "failed"]
  /\ why'  = [why EXCEPT ![r] = "maxSteps"]
  /\ UNCHANGED <<count, steps, msgs, streak>>

-----------------------------------------------------------------------------
Run(r) ==
  \/ ToMessages(r) \/ ModelCallsTools(r) \/ ModelAnswers(r)
  \/ ToolsReturn(r)
  \/ \E cause \in Failures \ {"maxSteps"} : ToolsFail(r, cause)
  \/ Intercept(r) \/ ToolAsUser(r) \/ ExceedsSteps(r)

LoopNext == \E r \in Runs : Run(r)

LoopSpec == LoopInit /\ [][LoopNext]_loopVars

(* Every run goes on; nobody promises that the model ever answers.         *)
LoopFairSpec == LoopSpec /\ \A r \in Runs : WF_loopVars(Run(r))

-----------------------------------------------------------------------------
(* Every variable has its type. *)
LoopTypeOK ==
  /\ count \in Nat
  /\ node \in [Runs -> Nodes \cup {"ended", "failed"}]
  /\ steps \in [Runs -> 0..MaxRunSteps]
  /\ \A r \in Runs :
       /\ Len(msgs[r]) <= MaxCalls
       /\ \A i \in DOMAIN msgs[r] : msgs[r][i].text \in {"ok", "paramText", "stop"}
  /\ streak \in [Runs -> Nat]
  /\ why \in [Runs -> Failures \cup {"none"}]

(* What a run reads back from the gate. *)
Judged(r) == IF node[r] = "tool_as_user" THEN ToSet(msgs[r]) ELSE {}

(* While no other run has begun, the gate counts exactly the parameter     *)
(* errors in a row of this one: it tells it to stop after MaxRetries of    *)
(* them, however they spread over turns, and not before.                   *)
Alone(r) == \A q \in Runs \ {r} : node[q] = "to_messages"

GateIsExactAlone ==
  \A r \in Runs : Alone(r) => \A m \in Judged(r) :
    m.own > 0 => (m.text = "stop" <=> m.own > MaxRetries)

(* Nobody is told to stop calling tools for errors that were not its own.  *)
OnlyOwnErrorsStop ==
  \A r \in Runs : \A m \in Judged(r) :
    m.text = "stop" => m.own > MaxRetries

(* Every run ends, even if the model never stops calling tools.            *)
LoopEnds == \A r \in Runs : <>(node[r] \in {"ended", "failed"})

(* The run is well formed, and the gate is right about one that is alone.  *)
GateIsExact == LoopTypeOK /\ GateIsExactAlone

=============================================================================
