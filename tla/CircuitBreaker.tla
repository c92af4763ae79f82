--------------------------- MODULE CircuitBreaker ---------------------------
(***************************************************************************)
(* The gobreaker library as the program uses it: around LLM calls in       *)
(* internal/component/modelmanager/highconcurrency.go and around tools in  *)
(* internal/component/tool/wrapper.go.  Execute asks the breaker before    *)
(* the call and tells it the outcome afterwards; an outcome that comes     *)
(* back after the breaker changed its state, that is in a new generation,  *)
(* is ignored.                                                             *)
(***************************************************************************)
EXTENDS Integers

CONSTANTS
  Calls,       \* the calls of Execute
  TripAfter,   \* consecutive failures that open the breaker (5)
  Probes       \* MaxRequests of the half-open breaker (3)

ASSUME BreakerAssumption ==
  /\ TripAfter \in Nat \ {0}
  /\ Probes \in Nat \ {0}

VARIABLES
  breaker,     \* its state and counts
  fresh        \* does the call belong to the current generation?

brk == <<breaker, fresh>>

Closed   == [state |-> "closed",   fails |-> 0, started |-> 0, succs |-> 0]
Opened   == [state |-> "open",     fails |-> 0, started |-> 0, succs |-> 0]
HalfOpen == [state |-> "halfopen", fails |-> 0, started |-> 0, succs |-> 0]

BreakerInit == breaker = Closed /\ fresh = [c \in Calls |-> FALSE]

BreakerType ==
  /\ breaker \in [state : {"closed", "open", "halfopen"}, fails : 0..TripAfter-1,
                  started : 0..Probes, succs : 0..Probes]
  /\ fresh \in [Calls -> BOOLEAN]

Refuses == \/ breaker.state = "open"
           \/ breaker.state = "halfopen" /\ breaker.started >= Probes

BeginCall(c) ==
  /\ ~Refuses
  /\ breaker' = [breaker EXCEPT !.started = IF breaker.state = "halfopen"
                                            THEN @ + 1 ELSE @]
  /\ fresh' = [fresh EXCEPT ![c] = TRUE]

NewGeneration(b) ==
  /\ breaker' = b
  /\ fresh' = [c \in Calls |-> FALSE]

F_CountSuccess(c) == UNCHANGED brk

F_AnyGeneration(c) ==
  IF breaker.state = "halfopen" /\ breaker.succs + 1 >= Probes
  THEN NewGeneration(Closed)
  ELSE /\ breaker' = [breaker EXCEPT !.fails = 0,
                        !.succs = IF breaker.state = "halfopen" THEN @ + 1 ELSE @]
       /\ UNCHANGED fresh

CountSuccess(c) ==
  IF ~fresh[c] THEN UNCHANGED brk
  ELSE IF breaker.state = "halfopen" /\ breaker.succs + 1 >= Probes
  THEN NewGeneration(Closed)
  ELSE /\ breaker' = [breaker EXCEPT !.fails = 0,
                        !.succs = IF breaker.state = "halfopen" THEN @ + 1 ELSE @]
       /\ UNCHANGED fresh

ReadyToTrip(n) == n >= TripAfter

CountFailure(c) ==
  IF ~fresh[c] THEN UNCHANGED brk
  ELSE IF breaker.state = "halfopen" \/ ReadyToTrip(breaker.fails + 1)
  THEN NewGeneration(Opened)
  ELSE /\ breaker' = [breaker EXCEPT !.fails = @ + 1]
       /\ UNCHANGED fresh

=============================================================================
