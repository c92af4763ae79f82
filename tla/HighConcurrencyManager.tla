----------------------- MODULE HighConcurrencyManager -----------------------
(***************************************************************************)
(* The gate in front of every LLM call (internal/component/modelmanager/   *)
(* highconcurrency.go): rate limiter, semaphore, circuit breaker, and the  *)
(* pump goroutine that hands a stream to its reader.                       *)
(*                                                                         *)
(* Actors: one goroutine per call of Generate or Stream, one pump per      *)
(* open stream, its reader, and the model behind the gate.  They share the *)
(* semaphore channel, two atomic counters and the breaker.                 *)
(*                                                                         *)
(* Abstractions: the limiter passes or refuses a call at any time; time is *)
(* the freedom of the timers to fire; the content of a stream is left to   *)
(* ModelStream.                                                            *)
(***************************************************************************)
EXTENDS Integers, FiniteSets, CircuitBreaker

CONSTANTS
  Streaming,      \* the calls of Stream; the others are calls of Generate
  MaxConcurrent   \* capacity of the semaphore (20)

ASSUME GateAssumption ==
  /\ IsFiniteSet(Calls) /\ Streaming \subseteq Calls
  /\ MaxConcurrent \in Nat \ {0}

VARIABLES
  sema,      \* slots taken: len(m.sema)
  inflight,  \* m.inflight
  rejected,  \* m.rejected
  pc,        \* where each call is
  upstream,  \* the stream of the underlying model: none, open or ended
  reader     \* the reader of the pipe Stream returned: none, open, closed,
             \* or gone, when it neither reads nor closes any more

counters == <<sema, inflight, rejected>>
streams  == <<upstream, reader>>
vars == <<counters, brk, pc, streams>>

(* A call in one of these places has taken a slot and not returned it.     *)
Holding == {"acquired", "admitted", "calling", "pumping", "sending", "releasing",
            "leaked"}
PCs     == Holding \cup {"new", "trying", "queued", "released", "done", "refused"}

Goto(c, place) == pc' = [pc EXCEPT ![c] = place]

Init ==
  /\ sema = 0 /\ inflight = 0 /\ rejected = 0
  /\ BreakerInit
  /\ pc       = [c \in Calls |-> "new"]
  /\ upstream = [c \in Calls |-> "none"]
  /\ reader   = [c \in Calls |-> "none"]

-----------------------------------------------------------------------------
(* admit *)

Refuse(c) ==
  /\ rejected' = rejected + 1
  /\ Goto(c, "refused")
  /\ UNCHANGED <<sema, inflight, brk, streams>>

PassLimiter(c) ==
  /\ pc[c] = "new"
  /\ Goto(c, "trying")
  /\ UNCHANGED <<counters, brk, streams>>

(* The limiter or, before a slot is taken, the caller's context ends it.   *)
Cancelled(c) ==
  /\ pc[c] \in {"new", "trying", "queued"}
  /\ Refuse(c)

F_TakeSlot(c) ==
  /\ pc[c] \in {"trying", "queued"}
  /\ sema' = sema + 1
  /\ Goto(c, "acquired")
  /\ UNCHANGED <<inflight, rejected, brk, streams>>

TakeSlot(c) ==
  /\ pc[c] \in {"trying", "queued"}
  /\ sema < MaxConcurrent
  /\ sema' = sema + 1
  /\ Goto(c, "acquired")
  /\ UNCHANGED <<inflight, rejected, brk, streams>>

(* The default branch of the first select: no slot is free.                *)
Queue(c) ==
  /\ pc[c] = "trying"
  /\ sema = MaxConcurrent
  /\ Goto(c, "queued")
  /\ UNCHANGED <<counters, brk, streams>>

F_TimeOut(c) ==
  /\ pc[c] = "queued"
  /\ c \in Streaming
  /\ Refuse(c)

(* The 30 s timer; the priority only chooses the wording of the error.     *)
TimeOut(c) ==
  /\ pc[c] = "queued"
  /\ Refuse(c)

(* inflight is counted after the slot is taken, not together with it.      *)
CountIn(c) ==
  /\ pc[c] = "acquired"
  /\ inflight' = inflight + 1
  /\ Goto(c, "admitted")
  /\ UNCHANGED <<sema, rejected, brk, streams>>

-----------------------------------------------------------------------------
(* breaker.Execute around the underlying model *)

F_AfterRefusal == "done"
AfterRefusal   == "releasing"

BreakerRefuses(c) ==
  /\ pc[c] = "admitted"
  /\ Refuses
  /\ Goto(c, AfterRefusal)
  /\ UNCHANGED <<counters, brk, streams>>

CallModel(c) ==
  /\ pc[c] = "admitted"
  /\ BeginCall(c)
  /\ Goto(c, "calling")
  /\ UNCHANGED <<counters, streams>>

GenerateReturns(c) ==
  /\ pc[c] = "calling" /\ c \notin Streaming
  /\ CountSuccess(c)
  /\ Goto(c, "releasing")
  /\ UNCHANGED <<counters, streams>>

F_StreamOpens(c) ==
  /\ pc[c] = "calling" /\ c \in Streaming
  /\ upstream' = [upstream EXCEPT ![c] = "open"]
  /\ reader'   = [reader EXCEPT ![c] = "open"]
  /\ Goto(c, "pumping")
  /\ UNCHANGED <<counters, brk>>

StreamOpens(c) ==
  /\ pc[c] = "calling" /\ c \in Streaming
  /\ CountSuccess(c)
  /\ upstream' = [upstream EXCEPT ![c] = "open"]
  /\ reader'   = [reader EXCEPT ![c] = "open"]
  /\ Goto(c, "pumping")
  /\ UNCHANGED counters

F_TriesAgain(c) ==
  /\ pc[c] = "calling"
  /\ CountFailure(c)
  /\ Goto(c, "admitted")
  /\ UNCHANGED <<counters, streams>>

(* An error, which may be the cancellation of the caller's own context.    *)
CallFails(c) ==
  /\ pc[c] = "calling"
  /\ CountFailure(c)
  /\ Goto(c, "releasing")
  /\ UNCHANGED <<counters, streams>>

(* Generate releases its slot in a deferred call, Stream only on the error *)
(* return, which a panic skips.                                            *)
CallPanics(c) ==
  /\ pc[c] = "calling"
  /\ CountFailure(c)
  /\ Goto(c, IF c \in Streaming THEN "leaked" ELSE "releasing")
  /\ UNCHANGED <<counters, streams>>

(* Timeout of the open state, and Interval of the closed state.            *)
BreakerTimer ==
  /\ \/ breaker.state = "open"   /\ NewGeneration(HalfOpen)
     \/ breaker.state = "closed" /\ NewGeneration(Closed)
  /\ UNCHANGED <<counters, pc, streams>>

-----------------------------------------------------------------------------
(* The stream, its pump and its reader *)

(* The last piece was received: the model is done, or its context is.      *)
UpstreamEnds(c) ==
  /\ upstream[c] = "open"
  /\ upstream' = [upstream EXCEPT ![c] = "ended"]
  /\ UNCHANGED <<counters, brk, pc, reader>>

ReaderCloses(c) ==
  /\ reader[c] = "open"
  /\ reader' = [reader EXCEPT ![c] = "closed"]
  /\ UNCHANGED <<counters, brk, pc, upstream>>

(* A handler that unwinds out of its loop, which closes at its end and in  *)
(* no deferred call, and with it whoever waits for that handler to read.   *)
ReaderUnwinds(c) ==
  /\ reader[c] = "open"
  /\ reader' = [reader EXCEPT ![c] = "gone"]
  /\ UNCHANGED <<counters, brk, pc, upstream>>

(* The pump has received a piece and finds the pipe full.                  *)
PipeIsFull(c) ==
  /\ pc[c] = "pumping"
  /\ upstream[c] = "open" /\ reader[c] # "closed"
  /\ Goto(c, "sending")
  /\ UNCHANGED <<counters, brk, streams>>

(* The reader makes room for it.                                           *)
PumpSendsOn(c) ==
  /\ pc[c] = "sending" /\ reader[c] = "open"
  /\ Goto(c, "pumping")
  /\ UNCHANGED <<counters, brk, streams>>

F_PumpStops(c) ==
  /\ pc[c] = "pumping"
  /\ upstream[c] = "ended" \/ reader[c] = "closed"
  /\ Goto(c, "releasing")
  /\ UNCHANGED <<counters, brk, streams>>

(* The pump stops at the end of the underlying stream, or when it sends or *)
(* waits in Send and its reader has closed; then it leaves the underlying  *)
(* stream as it is.                                                        *)
PumpStops(c) ==
  /\ \/ pc[c] = "pumping" /\ upstream[c] = "ended"
     \/ pc[c] \in {"pumping", "sending"} /\ reader[c] = "closed"
  /\ Goto(c, "releasing")
  /\ UNCHANGED <<counters, brk, streams>>

(* release *)
ReturnSlot(c) ==
  /\ pc[c] = "releasing"
  /\ sema' = sema - 1
  /\ Goto(c, "released")
  /\ UNCHANGED <<inflight, rejected, brk, streams>>

CountOut(c) ==
  /\ pc[c] = "released"
  /\ inflight' = inflight - 1
  /\ Goto(c, "done")
  /\ UNCHANGED <<sema, rejected, brk, streams>>

-----------------------------------------------------------------------------
Admission(c) == TakeSlot(c) \/ Queue(c) \/ TimeOut(c) \/ CountIn(c)

Execution(c) ==
  \/ BreakerRefuses(c) \/ CallModel(c)
  \/ GenerateReturns(c) \/ StreamOpens(c) \/ CallFails(c) \/ CallPanics(c)

Pumping(c) == \/ PipeIsFull(c) \/ PumpSendsOn(c) \/ PumpStops(c)
              \/ ReturnSlot(c) \/ CountOut(c)

Next ==
  \/ BreakerTimer
  \/ \E c \in Calls :
       \/ PassLimiter(c) \/ Cancelled(c) \/ Admission(c) \/ Execution(c)
       \/ Pumping(c) \/ UpstreamEnds(c) \/ ReaderCloses(c) \/ ReaderUnwinds(c)

Spec == Init /\ [][Next]_vars

(* Goroutines that can run do run, the 30 s timer fires, and a call of the *)
(* model or an open stream ends because its context has a deadline.  A     *)
(* pump that waits goes on when its reader, which is still there, reads.   *)
FairSpec ==
  /\ Spec
  /\ \A c \in Calls :
       /\ WF_vars(Admission(c)) /\ WF_vars(Execution(c)) /\ WF_vars(Pumping(c))
       /\ WF_vars(UpstreamEnds(c))

-----------------------------------------------------------------------------
(* Every variable has its type. *)
TypeOK ==
  /\ sema \in 0..MaxConcurrent
  /\ inflight \in Int /\ rejected \in Nat
  /\ BreakerType
  /\ pc \in [Calls -> PCs]
  /\ upstream \in [Calls -> {"none", "open", "ended"}]
  /\ reader \in [Calls -> {"none", "open", "closed", "gone"}]

At(places) == {c \in Calls : pc[c] \in places}

(* Each slot in the semaphore belongs to one call that still holds it:     *)
(* over all the exits of admit, Generate, Stream and the pump, none is     *)
(* returned twice, which would block in release, and only a panic inside   *)
(* Stream forgets one.  The counters Stats reports follow: rejected counts *)
(* each refused call once, and inflight, which lags behind the semaphore   *)
(* both ways, is off by the calls between the two updates and never        *)
(* negative.                                                               *)
SlotsMatchCalls ==
  /\ sema = Cardinality(At(Holding))
  /\ rejected = Cardinality(At({"refused"}))
  /\ inflight + Cardinality(At({"acquired"}))
       = sema + Cardinality(At({"released"}))
  /\ inflight >= 0

(* At most MaxConcurrent calls have a slot, whatever happens to them, and  *)
(* none is lost.                                                           *)
SlotsAreKept == sema <= MaxConcurrent /\ SlotsMatchCalls

(* A half-open breaker that has let its probes through does not refuse for *)
(* ever: as long as nothing changes generation the probes it waits for are *)
(* calls that will come back and be counted.                               *)
ProbesAreUnderWay ==
  breaker.state = "halfopen" =>
    breaker.started - breaker.succs
      = Cardinality({c \in Calls : fresh[c] /\ pc[c] = "calling"})

(* Nobody waits for a slot for ever.                                       *)
AdmissionEnds == \A c \in Calls : pc[c] = "queued" ~> pc[c] # "queued"

(* Every slot comes back, however the call or its stream ends and whether  *)
(* its reader reads on or closes.  A panic in Stream loses it, and so does *)
(* a reader that leaves without closing while the pump has more to send    *)
(* than the pipe can hold.                                                 *)
Stuck(c) == pc[c] = "sending" /\ reader[c] = "gone"

SlotsComeBack ==
  \A c \in Calls :
    pc[c] \in Holding ~> pc[c] \in {"leaked", "released", "done"} \/ Stuck(c)

(* A call that asks for a slot gets one or gives up, and what it gets it   *)
(* gives back, but for the two exceptions.                                 *)
SlotsGoRound == AdmissionEnds /\ SlotsComeBack

=============================================================================
