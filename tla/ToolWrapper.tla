---------------------------- MODULE ToolWrapper -----------------------------
(***************************************************************************)
(* The wrapper around every tool (internal/component/tool/wrapper.go): a   *)
(* per-call time-out, a recover for panics and one circuit breaker per     *)
(* tool, shared by all agent runs.                                         *)
(*                                                                         *)
(* Actors: the caller of each InvokableRun and the goroutine in which the  *)
(* tool runs.  They share a channel with one slot.  The tool itself may    *)
(* return, fail, panic, or run on after its time is over.                  *)
(*                                                                         *)
(* The durations (15 s for a call, 30 s for the open breaker) are the      *)
(* freedom of the timers to fire.                                          *)
(***************************************************************************)
EXTENDS CircuitBreaker, Sequences, FiniteSets

ASSUME WrapperAssumption == IsFiniteSet(Calls)

VARIABLES
  caller,    \* where the caller of each call is
  worker,    \* where the goroutine of the tool is
  ch,        \* the outcome in the channel of each call
  answer     \* what the caller returned

wrapperVars == <<brk, caller, worker, ch, answer>>

Outcomes == {"ok", "error", "panic"}

WrapperInit ==
  /\ BreakerInit
  /\ caller = [c \in Calls |-> "new"]
  /\ worker = [c \in Calls |-> "none"]
  /\ ch     = [c \in Calls |-> <<>>]
  /\ answer = [c \in Calls |-> "none"]

-----------------------------------------------------------------------------
Return(c, a) ==
  /\ caller' = [caller EXCEPT ![c] = "returned"]
  /\ answer' = [answer EXCEPT ![c] = a]

(* ErrOpenState or ErrTooManyRequests. *)
Refused(c) ==
  /\ caller[c] = "new"
  /\ Refuses
  /\ Return(c, "refused")
  /\ UNCHANGED <<brk, worker, ch>>

Invoke(c) ==
  /\ caller[c] = "new"
  /\ BeginCall(c)
  /\ caller' = [caller EXCEPT ![c] = "select"]
  /\ worker' = [worker EXCEPT ![c] = "running"]
  /\ UNCHANGED <<ch, answer>>

(* The tool returns or panics; a panic is recovered and sent as an error.  *)
ToolEnds(c, outcome) ==
  /\ worker[c] = "running"
  /\ worker' = [worker EXCEPT ![c] = outcome]
  /\ UNCHANGED <<brk, caller, ch, answer>>

F_Room(c) == caller[c] = "select" /\ ch[c] = <<>>
Room(c)   == Len(ch[c]) < 1

WorkerSends(c) ==
  /\ worker[c] \in Outcomes
  /\ Room(c)
  /\ ch' = [ch EXCEPT ![c] = Append(@, IF worker[c] = "ok" THEN "ok" ELSE "error")]
  /\ worker' = [worker EXCEPT ![c] = "ended"]
  /\ UNCHANGED <<brk, caller, answer>>

Outcome(c, a) ==
  /\ IF a = "ok" THEN CountSuccess(c) ELSE CountFailure(c)
  /\ Return(c, a)

CallerReceives(c) ==
  /\ caller[c] = "select"
  /\ ch[c] # <<>>
  /\ Outcome(c, Head(ch[c]))
  /\ ch' = [ch EXCEPT ![c] = Tail(@)]
  /\ UNCHANGED worker

F_CallerTimesOut(c) ==
  /\ caller[c] = "select"
  /\ worker[c] \in Outcomes
  /\ Outcome(c, "timeout")
  /\ UNCHANGED <<worker, ch>>

(* childCtx is done: the time is over, or the run was cancelled.           *)
CallerTimesOut(c) ==
  /\ caller[c] = "select"
  /\ Outcome(c, "timeout")
  /\ UNCHANGED <<worker, ch>>

-----------------------------------------------------------------------------
(* Timeout of the open breaker and Interval of the closed one.             *)
BreakerTimer ==
  /\ \/ breaker.state = "open"   /\ NewGeneration(HalfOpen)
     \/ breaker.state = "closed" /\ NewGeneration(Closed)
  /\ UNCHANGED <<caller, worker, ch, answer>>

-----------------------------------------------------------------------------
Caller(c) == CallerReceives(c) \/ CallerTimesOut(c)

WrapperNext ==
  \/ BreakerTimer
  \/ \E c \in Calls :
       \/ Refused(c) \/ Invoke(c) \/ WorkerSends(c) \/ Caller(c)
       \/ \E outcome \in Outcomes : ToolEnds(c, outcome)

WrapperSpec == WrapperInit /\ [][WrapperNext]_wrapperVars

(* Callers and goroutines go on and the per-call timer fires; nobody       *)
(* promises that a tool ever returns.                                      *)
WrapperFairSpec ==
  /\ WrapperSpec
  /\ \A c \in Calls : WF_wrapperVars(Caller(c)) /\ WF_wrapperVars(WorkerSends(c))

-----------------------------------------------------------------------------
(* Every variable has its type. *)
WrapperTypeOK ==
  /\ BreakerType
  /\ caller \in [Calls -> {"new", "select", "returned"}]
  /\ worker \in [Calls -> {"none", "running", "ended"} \cup Outcomes]
  /\ \A c \in Calls : Len(ch[c]) <= 1
  /\ answer \in [Calls -> {"none", "ok", "error", "timeout", "refused"}]

(* The probes a half-open breaker has let through are counted, or their    *)
(* callers still wait and will be: none is lost to a late answer, a panic  *)
(* or a change of the breaker while it ran, so none keeps it half open.    *)
ProbesAreCounted ==
  breaker.state = "halfopen" =>
    breaker.started = breaker.succs + Cardinality({c \in Calls : fresh[c] /\ caller[c] = "select"})

(* A goroutine whose tool has come to its end finds room in the channel,   *)
(* whether or not its caller still listens.                                *)
WorkersFindRoom == \A c \in Calls : worker[c] \in Outcomes => Room(c)

(* Nothing is left behind by a call that timed out.                        *)
NothingIsHeld == ProbesAreCounted /\ WorkersFindRoom

(* Every call returns, even if the tool hangs.                             *)
CallersReturn == \A c \in Calls : caller[c] = "select" ~> caller[c] = "returned"

(* A tool that returns, or panics, after its caller gave up does not leave *)
(* its goroutine behind.                                                   *)
WorkersEnd == \A c \in Calls : worker[c] \in Outcomes ~> worker[c] = "ended"

(* A tool that hangs while it is probed does not keep its breaker half     *)
(* open: the probes that were let through are decided by their callers'    *)
(* time-outs, and later results of the tool change nothing.                *)
ProbingEnds ==
  breaker.state = "halfopen" /\ breaker.started = Probes ~> breaker.state # "halfopen"

(* Neither a caller nor a goroutine nor the breaker waits for ever.        *)
NothingHangs == CallersReturn /\ WorkersEnd /\ ProbingEnds

=============================================================================
