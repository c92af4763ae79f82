------------------------------ MODULE LlmProofs ------------------------------
(***************************************************************************)
(* Proofs about the way to the model and back.  First                      *)
(* HighConcurrencyManager, for every finite set of calls, every number of  *)
(* slots and every setting of the breaker.  Then ModelStream, for every    *)
(* number of pieces and every capacity of the three pipes: where each      *)
(* goroutine is says what it holds and whether its pipe has ended          *)
(* (Stages); a step moves text on, adds the next piece, delivers the first *)
(* one or, once the reader has closed, drops one (TextStep); so what was   *)
(* received and what is under way stay in order, and the chain is a pipe.  *)
(***************************************************************************)
EXTENDS MCLlm, SequenceLemmas, FiniteSetTheorems

-----------------------------------------------------------------------------
(* HighConcurrencyManager                                                  *)

(* The calls that are in one of the places T. *)
Count(f, T) == Cardinality({q \in Calls : f[q] \in T})

(* 1 for a place in T, 0 for another. *)
In(place, T) == IF place \in T THEN 1 ELSE 0

(* When one call moves, the number of calls in T changes by what it leaves *)
(* and what it enters.                                                     *)
LEMMA CountMoves ==
  ASSUME NEW f \in [Calls -> PCs], NEW c \in Calls, NEW p \in PCs, NEW T
  PROVE  /\ Count(f, T) \in Nat
         /\ Count([f EXCEPT ![c] = p], T) \in Nat
         /\ Count([f EXCEPT ![c] = p], T)
              = Count(f, T) + In(p, T) - In(f[c], T)
<1> DEFINE g == [f EXCEPT ![c] = p]
           R == {q \in Calls \ {c} : f[q] \in T}
           F == {q \in Calls : f[q] \in T}
           G == {q \in Calls : g[q] \in T}
<1>1. IsFiniteSet(R) /\ IsFiniteSet(F) /\ IsFiniteSet(G) /\ c \notin R
  BY GateAssumption, FS_Subset
<1>2. F = IF f[c] \in T THEN R \cup {c} ELSE R
  OBVIOUS
<1>3. G = IF p \in T THEN R \cup {c} ELSE R
  OBVIOUS
<1>4. /\ Cardinality(R) \in Nat
      /\ Cardinality(R \cup {c}) = Cardinality(R) + 1
  BY <1>1, FS_AddElement, FS_CardinalityType
<1>5. Count(f, T) = Cardinality(R) + In(f[c], T)
  BY <1>2, <1>4 DEF Count, In
<1>6. Count(g, T) = Cardinality(R) + In(p, T)
  BY <1>3, <1>4 DEF Count, In
<1> QED BY <1>4, <1>5, <1>6 DEF In

(* A subset of the places holds no more calls.                             *)
LEMMA CountWithin ==
  ASSUME NEW f, NEW T, NEW U, T \subseteq U
  PROVE  Count(f, T) <= Count(f, U) /\ Count(f, T) \in Nat /\ Count(f, U) \in Nat
<1> DEFINE A == {q \in Calls : f[q] \in T}
           B == {q \in Calls : f[q] \in U}
<1>1. IsFiniteSet(B) /\ IsFiniteSet(A) /\ A \in SUBSET B
  BY GateAssumption, FS_Subset
<1> QED BY <1>1, FS_Subset, FS_CardinalityType DEF Count

(* SlotsMatchCalls in terms of Count; its last conjunct follows from the   *)
(* others, as a call that has its slot but is not yet counted holds one.   *)
Balance(s, i, r, f) ==
  /\ s = Count(f, Holding)
  /\ r = Count(f, {"refused"})
  /\ i + Count(f, {"acquired"}) = s + Count(f, {"released"})

LEMMA BalanceSuffices ==
  ASSUME NEW s, NEW i \in Int, NEW r, NEW f, Balance(s, i, r, f)
  PROVE  i >= 0
<1>1. Count(f, {"acquired"}) <= Count(f, Holding)
  BY CountWithin DEF Holding
<1>2. Count(f, {"released"}) \in Nat /\ Count(f, {"acquired"}) \in Nat /\ Count(f, Holding) \in Nat
  BY CountWithin
<1> QED BY <1>1, <1>2 DEF Balance

(* How the three counters follow one call that moves to a place p.         *)
LEMMA BalanceMoves ==
  ASSUME NEW s \in Int, NEW i \in Int, NEW r \in Int,
         NEW f \in [Calls -> PCs], Balance(s, i, r, f),
         NEW c \in Calls, NEW p \in PCs,
         NEW s2 \in Int, NEW i2 \in Int, NEW r2 \in Int,
         s2 = s + In(p, Holding) - In(f[c], Holding),
         r2 = r + In(p, {"refused"}) - In(f[c], {"refused"}),
         i2 = i + (s2 - s) + In(p, {"released"}) - In(f[c], {"released"})
                - In(p, {"acquired"}) + In(f[c], {"acquired"})
  PROVE  Balance(s2, i2, r2, [f EXCEPT ![c] = p])
<1> DEFINE g == [f EXCEPT ![c] = p]
<1>1. Count(g, Holding) = Count(f, Holding) + In(p, Holding) - In(f[c], Holding)
  BY CountMoves
<1>2. /\ Count(g, {"refused"}) \in Nat /\ Count(f, {"refused"}) \in Nat
      /\ Count(g, {"refused"}) = Count(f, {"refused"}) + In(p, {"refused"}) - In(f[c], {"refused"})
  BY CountMoves
<1>3. /\ Count(g, {"released"}) \in Nat /\ Count(f, {"released"}) \in Nat
      /\ Count(g, {"released"}) = Count(f, {"released"}) + In(p, {"released"}) - In(f[c], {"released"})
  BY CountMoves
<1>4. /\ Count(g, {"acquired"}) \in Nat /\ Count(f, {"acquired"}) \in Nat
      /\ Count(g, {"acquired"}) = Count(f, {"acquired"}) + In(p, {"acquired"}) - In(f[c], {"acquired"})
  BY CountMoves
<1>5. \A T : In(p, T) \in Int /\ In(f[c], T) \in Int
  BY DEF In
<1> QED BY <1>1, <1>2, <1>3, <1>4, <1>5 DEF Balance
-----------------------------------------------------------------------------
(* The inductive invariant: the types, the slots and the probes.           *)
IInv == TypeOK /\ SlotsMatchCalls /\ ProbesAreUnderWay

LEMMA SlotsAsBalance ==
  TypeOK => (SlotsMatchCalls <=> Balance(sema, inflight, rejected, pc))
<1> SUFFICES ASSUME TypeOK
             PROVE  SlotsMatchCalls <=> Balance(sema, inflight, rejected, pc)
  OBVIOUS
<1>1. SlotsMatchCalls <=> Balance(sema, inflight, rejected, pc) /\ inflight >= 0
  BY DEF SlotsMatchCalls, Balance, Count, At
<1>2. Balance(sema, inflight, rejected, pc) => inflight >= 0
  BY BalanceSuffices DEF TypeOK
<1> QED BY <1>1, <1>2

(* A call moves, and the counters with it.                                 *)
LEMMA SlotsMove ==
  ASSUME TypeOK, SlotsMatchCalls,
         NEW c \in Calls, NEW p \in PCs, Goto(c, p),
         sema' = sema + In(p, Holding) - In(pc[c], Holding),
         rejected' = rejected + In(p, {"refused"}) - In(pc[c], {"refused"}),
         inflight' = inflight + (sema' - sema)
                       + In(p, {"released"}) - In(pc[c], {"released"})
                       - In(p, {"acquired"}) + In(pc[c], {"acquired"})
  PROVE  /\ SlotsMatchCalls'
         /\ pc' \in [Calls -> PCs]
         /\ sema' \in Nat /\ inflight' \in Int /\ rejected' \in Nat
<1>1. \A T : In(p, T) \in Int /\ In(pc[c], T) \in Int
  BY DEF In
<1>2. /\ sema \in Int /\ inflight \in Int /\ rejected \in Int
      /\ pc \in [Calls -> PCs]
      /\ Balance(sema, inflight, rejected, pc)
  BY SlotsAsBalance DEF TypeOK
<1>3. sema' \in Int /\ inflight' \in Int /\ rejected' \in Int
  BY <1>1, <1>2
<1>4. pc' = [pc EXCEPT ![c] = p]
  BY DEF Goto
<1>5. Balance(sema', inflight', rejected', pc')
  BY <1>2, <1>3, <1>4, BalanceMoves
<1>6. inflight' >= 0
  BY <1>3, <1>5, BalanceSuffices
<1>7. SlotsMatchCalls'
  BY <1>5, <1>6 DEF SlotsMatchCalls, Balance, Count, At
<1>8. sema' \in Nat /\ rejected' \in Nat
  BY <1>5, CountWithin DEF Balance
<1> QED BY <1>2, <1>3, <1>4, <1>7, <1>8

(* Every step keeps the slots and the counters.                            *)
LEMMA SlotsStep ==
  ASSUME TypeOK, SlotsMatchCalls, Next
  PROVE  /\ SlotsMatchCalls'
         /\ pc' \in [Calls -> PCs]
         /\ sema' \in 0..MaxConcurrent /\ inflight' \in Int /\ rejected' \in Nat
<1> DEFINE Kept == /\ SlotsMatchCalls'
                   /\ pc' \in [Calls -> PCs]
                   /\ sema' \in Nat /\ inflight' \in Int /\ rejected' \in Nat
<1> USE DEF counters, streams, brk
<1>1. CASE UNCHANGED <<counters, pc>>
  BY <1>1 DEF TypeOK, SlotsMatchCalls, At
<1>2. ASSUME NEW c \in Calls, NEW p \in PCs, Goto(c, p), UNCHANGED counters,
             pc[c] \in Holding <=> p \in Holding,
             {pc[c], p} \cap {"refused", "acquired", "released"} = {}
      PROVE  Kept
  <2>1. /\ In(p, Holding) = In(pc[c], Holding)
        /\ \A v \in {"refused", "acquired", "released"} :
             In(p, {v}) = 0 /\ In(pc[c], {v}) = 0
    BY <1>2 DEF In
  <2> QED BY <1>2, <2>1, SlotsMove DEF TypeOK, In
<1>3. ASSUME NEW c \in Calls, Next, PassLimiter(c) \/ Queue(c)
      PROVE  Kept
  BY <1>2, <1>3 DEF PassLimiter, Queue, PCs, Holding
<1>4. ASSUME NEW c \in Calls,
             BreakerRefuses(c) \/ CallModel(c) \/ GenerateReturns(c)
               \/ StreamOpens(c) \/ CallFails(c) \/ CallPanics(c)
      PROVE  Kept
  BY <1>2, <1>4 DEF BreakerRefuses, AfterRefusal, CallModel, GenerateReturns,
     StreamOpens, CallFails, CallPanics, PCs, Holding
<1>13. ASSUME NEW c \in Calls, PipeIsFull(c) \/ PumpSendsOn(c) \/ PumpStops(c)
       PROVE  Kept
  BY <1>2, <1>13 DEF PipeIsFull, PumpSendsOn, PumpStops, PCs, Holding
<1>5. ASSUME NEW c \in Calls, Cancelled(c) \/ TimeOut(c)
      PROVE  Kept
  <2>1. /\ pc[c] \in {"new", "trying", "queued"} /\ Goto(c, "refused")
        /\ sema' = sema /\ inflight' = inflight /\ rejected' = rejected + 1
    BY <1>5 DEF Cancelled, TimeOut, Refuse
  <2> QED BY <2>1, SlotsMove DEF In, Holding, PCs, TypeOK
<1>6. ASSUME NEW c \in Calls, TakeSlot(c)
      PROVE  Kept /\ sema' <= MaxConcurrent
  <2>1. /\ pc[c] \in {"trying", "queued"} /\ Goto(c, "acquired")
        /\ sema' = sema + 1 /\ inflight' = inflight /\ rejected' = rejected
        /\ sema < MaxConcurrent
    BY <1>6 DEF TakeSlot
  <2> QED BY <2>1, SlotsMove, GateAssumption DEF In, Holding, PCs, TypeOK
<1>7. ASSUME NEW c \in Calls, CountIn(c)
      PROVE  Kept
  <2>1. /\ pc[c] = "acquired" /\ Goto(c, "admitted")
        /\ sema' = sema /\ inflight' = inflight + 1 /\ rejected' = rejected
    BY <1>7 DEF CountIn
  <2> QED BY <2>1, SlotsMove DEF In, Holding, PCs, TypeOK
<1>8. ASSUME NEW c \in Calls, ReturnSlot(c)
      PROVE  Kept
  <2>1. /\ pc[c] = "releasing" /\ Goto(c, "released")
        /\ sema' = sema - 1 /\ inflight' = inflight /\ rejected' = rejected
    BY <1>8 DEF ReturnSlot
  <2> QED BY <2>1, SlotsMove DEF In, Holding, PCs, TypeOK
<1>9. ASSUME NEW c \in Calls, CountOut(c)
      PROVE  Kept
  <2>1. /\ pc[c] = "released" /\ Goto(c, "done")
        /\ sema' = sema /\ inflight' = inflight - 1 /\ rejected' = rejected
    BY <1>9 DEF CountOut
  <2> QED BY <2>1, SlotsMove DEF In, Holding, PCs, TypeOK
<1>10. CASE BreakerTimer \/ \E c \in Calls : UpstreamEnds(c) \/ ReaderCloses(c) \/ ReaderUnwinds(c)
  BY <1>1, <1>10 DEF BreakerTimer, UpstreamEnds, ReaderCloses, ReaderUnwinds
<1>11. ASSUME ~ \E c \in Calls : TakeSlot(c)
       PROVE  sema' = sema \/ sema' = sema - 1
  BY <1>11 DEF Next, BreakerTimer, PassLimiter, Cancelled, Refuse, Admission,
     Queue, TimeOut, CountIn, Execution, BreakerRefuses, CallModel,
     GenerateReturns, StreamOpens, CallFails, CallPanics, Pumping, PipeIsFull,
     PumpSendsOn, PumpStops, ReturnSlot, CountOut, UpstreamEnds, ReaderCloses, ReaderUnwinds
<1>12. Kept
  BY <1>3, <1>4, <1>5, <1>6, <1>7, <1>8, <1>9, <1>10, <1>13
     DEF Next, Admission, Execution, Pumping
<1> QED BY <1>6, <1>11, <1>12, GateAssumption DEF TypeOK

-----------------------------------------------------------------------------
(* The calls a half-open breaker waits for.                                *)
Probing(f, g) == {q \in Calls : f[q] /\ g[q] = "calling"}

LEMMA ProbingIsFinite ==
  ASSUME NEW f, NEW g
  PROVE  IsFiniteSet(Probing(f, g)) /\ Cardinality(Probing(f, g)) \in Nat
  BY GateAssumption, FS_Subset, FS_CardinalityType DEF Probing

(* The probes are the same while the breaker and what is under way are.    *)
LEMMA ProbesKept ==
  ASSUME TypeOK, ProbesAreUnderWay, UNCHANGED brk,
         \A q \in Calls : fresh[q] => (pc'[q] = "calling" <=> pc[q] = "calling")
  PROVE  ProbesAreUnderWay'
<1>1. Probing(fresh', pc') = Probing(fresh, pc)
  BY DEF brk, Probing
<1> QED BY <1>1 DEF ProbesAreUnderWay, Probing, brk

LEMMA ProbeBegins ==
  ASSUME TypeOK, ProbesAreUnderWay,
         NEW c \in Calls, pc[c] # "calling", BeginCall(c), Goto(c, "calling")
  PROVE  ProbesAreUnderWay' /\ BreakerType'
<1>1. Probing(fresh', pc') = Probing(fresh, pc) \cup {c} /\ c \notin Probing(fresh, pc)
  BY DEF BeginCall, Goto, Probing, TypeOK, BreakerType
<1>2. Cardinality(Probing(fresh', pc')) = Cardinality(Probing(fresh, pc)) + 1
  BY <1>1, FS_AddElement, ProbingIsFinite
<1>3. BreakerType'
  BY BreakerAssumption DEF BeginCall, Refuses, TypeOK, BreakerType
<1>4. /\ breaker'.state = breaker.state /\ breaker'.succs = breaker.succs
      /\ breaker.state = "halfopen" => breaker'.started = breaker.started + 1
  BY DEF BeginCall, TypeOK, BreakerType
<1>5. ProbesAreUnderWay'
  BY <1>2, <1>4, ProbingIsFinite DEF ProbesAreUnderWay, Probing, TypeOK, BreakerType
<1> QED BY <1>3, <1>5

(* After a change of generation the breaker waits for nobody.              *)
LEMMA NewGenerationKeeps ==
  ASSUME NEW b \in {Closed, Opened, HalfOpen}, NewGeneration(b)
  PROVE  ProbesAreUnderWay' /\ BreakerType'
<1>1. Probing(fresh', pc') = {}
  BY DEF NewGeneration, Probing
<1>2. Cardinality(Probing(fresh', pc')) = 0
  BY <1>1, FS_EmptySet
<1>3. ProbesAreUnderWay'
  BY <1>2 DEF ProbesAreUnderWay, Probing, NewGeneration, Closed, Opened, HalfOpen
<1>4. BreakerType'
  BY BreakerAssumption DEF NewGeneration, BreakerType, Closed, Opened, HalfOpen
<1> QED BY <1>3, <1>4

LEMMA ProbeEnds ==
  ASSUME TypeOK, ProbesAreUnderWay,
         NEW c \in Calls, pc[c] = "calling",
         CountSuccess(c) \/ CountFailure(c),
         NEW p \in PCs, p # "calling", Goto(c, p)
  PROVE  ProbesAreUnderWay' /\ BreakerType'
<1>1. CASE ~fresh[c]
  <2>1. UNCHANGED brk
    BY <1>1 DEF CountSuccess, CountFailure
  <2>2. \A q \in Calls : fresh[q] => (pc'[q] = "calling" <=> pc[q] = "calling")
    BY <1>1 DEF Goto, TypeOK
  <2>3. BreakerType'
    BY <2>1 DEF TypeOK, BreakerType, brk
  <2> QED BY <2>1, <2>2, <2>3, ProbesKept
<1>2. CASE NewGeneration(Closed) \/ NewGeneration(Opened)
  BY <1>2, NewGenerationKeeps
<1>3. CASE /\ fresh[c]
           /\ ~NewGeneration(Closed) /\ ~NewGeneration(Opened)
           /\ CountSuccess(c)
  <2>1. /\ ~(breaker.state = "halfopen" /\ breaker.succs + 1 >= Probes)
        /\ breaker' = [breaker EXCEPT !.fails = 0,
             !.succs = IF breaker.state = "halfopen" THEN @ + 1 ELSE @]
        /\ fresh' = fresh
    BY <1>3 DEF CountSuccess
  <2>2. Probing(fresh', pc') = Probing(fresh, pc) \ {c} /\ c \in Probing(fresh, pc)
    BY <1>3, <2>1 DEF Goto, Probing, TypeOK
  <2>3. Cardinality(Probing(fresh', pc')) = Cardinality(Probing(fresh, pc)) - 1
    <3>1. /\ IsFiniteSet(Probing(fresh, pc)) /\ IsFiniteSet(Probing(fresh', pc'))
          /\ Cardinality(Probing(fresh, pc)) \in Nat
      BY ProbingIsFinite
    <3>2. Cardinality(Probing(fresh, pc) \ {c}) = Cardinality(Probing(fresh, pc)) - 1
      BY <2>2, <3>1, FS_RemoveElement
    <3> QED BY <2>2, <3>2
  <2>4. BreakerType'
    <3>1. 0 \in 0..TripAfter-1 /\ fresh' \in [Calls -> BOOLEAN]
      BY <2>1, BreakerAssumption DEF TypeOK, BreakerType
    <3>2. PICK n \in 0..Probes : breaker' = [breaker EXCEPT !.fails = 0, !.succs = n]
      <4>1. CASE breaker.state = "halfopen"
        <5>1. breaker.succs + 1 \in 0..Probes
          BY <2>1, <4>1, BreakerAssumption DEF TypeOK, BreakerType
        <5>2. breaker' = [breaker EXCEPT !.fails = 0, !.succs = breaker.succs + 1]
          BY <2>1, <4>1
        <5> QED BY <5>1, <5>2
      <4>2. CASE breaker.state # "halfopen"
        <5>1. breaker' = [breaker EXCEPT !.fails = 0, !.succs = breaker.succs]
          BY <2>1, <4>2
        <5> QED BY <5>1 DEF TypeOK, BreakerType
      <4> QED BY <4>1, <4>2
    <3> QED BY <3>1, <3>2 DEF TypeOK, BreakerType
  <2>5. /\ breaker'.state = breaker.state /\ breaker'.started = breaker.started
        /\ breaker.state = "halfopen" => breaker'.succs = breaker.succs + 1
    BY <2>1 DEF TypeOK, BreakerType
  <2>6. ProbesAreUnderWay'
    BY <2>3, <2>5, ProbingIsFinite DEF ProbesAreUnderWay, Probing, TypeOK, BreakerType
  <2> QED BY <2>4, <2>6
<1>4. CASE /\ fresh[c]
           /\ ~NewGeneration(Closed) /\ ~NewGeneration(Opened)
           /\ CountFailure(c)
  <2>1. /\ breaker.state # "halfopen" /\ breaker.fails + 1 < TripAfter
        /\ breaker' = [breaker EXCEPT !.fails = @ + 1]
        /\ fresh' = fresh
    BY <1>4, BreakerAssumption DEF CountFailure, ReadyToTrip, TypeOK, BreakerType
  <2>2. BreakerType'
    BY <2>1, BreakerAssumption DEF TypeOK, BreakerType
  <2>3. breaker'.state # "halfopen"
    BY <2>1 DEF TypeOK, BreakerType
  <2> QED BY <2>2, <2>3 DEF ProbesAreUnderWay
<1> QED BY <1>1, <1>2, <1>3, <1>4

(* Every step keeps the breaker.                                           *)
LEMMA BreakerStep ==
  ASSUME TypeOK, ProbesAreUnderWay, Next
  PROVE  ProbesAreUnderWay' /\ BreakerType'
<1>1. ASSUME NEW c \in Calls, CallModel(c)
      PROVE  ProbesAreUnderWay' /\ BreakerType'
  BY <1>1, ProbeBegins DEF CallModel
<1>2. ASSUME NEW c \in Calls,
             GenerateReturns(c) \/ StreamOpens(c) \/ CallFails(c) \/ CallPanics(c)
      PROVE  ProbesAreUnderWay' /\ BreakerType'
  <2>1. /\ pc[c] = "calling"
        /\ CountSuccess(c) \/ CountFailure(c)
        /\ \E p \in {"releasing", "pumping", "leaked"} : Goto(c, p)
    BY <1>2 DEF GenerateReturns, StreamOpens, CallFails, CallPanics
  <2> QED BY <1>2, <2>1, ProbeEnds
          DEF PCs, Holding, GenerateReturns, StreamOpens, CallFails, CallPanics
<1>3. CASE BreakerTimer
  BY <1>3, NewGenerationKeeps DEF BreakerTimer
<1>4. ASSUME NEW c \in Calls, UNCHANGED brk,
             pc' = pc \/ \E p \in PCs \ {"calling"} : pc[c] # "calling" /\ Goto(c, p)
      PROVE  ProbesAreUnderWay' /\ BreakerType'
  <2>1. \A q \in Calls : pc'[q] = "calling" <=> pc[q] = "calling"
    BY <1>4 DEF Goto, TypeOK
  <2> QED BY <1>4, <2>1, ProbesKept DEF brk, TypeOK, BreakerType
<1>5. ASSUME NEW c \in Calls,
             \/ PassLimiter(c) \/ Cancelled(c) \/ Admission(c)
             \/ BreakerRefuses(c) \/ Pumping(c) \/ UpstreamEnds(c)
             \/ ReaderCloses(c) \/ ReaderUnwinds(c)
      PROVE  ProbesAreUnderWay' /\ BreakerType'
  BY <1>4, <1>5 DEF PassLimiter, Cancelled, Refuse, Admission, TakeSlot, Queue,
     TimeOut, CountIn, BreakerRefuses, AfterRefusal, Pumping, PipeIsFull,
     PumpSendsOn, PumpStops, ReturnSlot, CountOut, UpstreamEnds, ReaderCloses,
     ReaderUnwinds, PCs, Holding
<1> QED BY <1>1, <1>2, <1>3, <1>5 DEF Next, Execution

LEMMA StreamsStep ==
  ASSUME TypeOK, Next
  PROVE  /\ upstream' \in [Calls -> {"none", "open", "ended"}]
         /\ reader' \in [Calls -> {"none", "open", "closed", "gone"}]
  BY DEF TypeOK, Next, BreakerTimer, PassLimiter, Cancelled, Refuse, Admission,
     TakeSlot, Queue, TimeOut, CountIn, Execution, BreakerRefuses, CallModel,
     GenerateReturns, StreamOpens, CallFails, CallPanics, Pumping, PipeIsFull,
     PumpSendsOn, PumpStops, ReturnSlot, CountOut, UpstreamEnds, ReaderCloses,
     ReaderUnwinds, streams
-----------------------------------------------------------------------------
LEMMA InitIInv == Init => IInv
<1> SUFFICES ASSUME Init
             PROVE  IInv
  OBVIOUS
<1>1. TypeOK
  BY GateAssumption, BreakerAssumption
     DEF Init, BreakerInit, TypeOK, BreakerType, Closed, PCs
<1>2. \A T : "new" \notin T => At(T) = {}
  BY DEF Init, At
<1>3. \A T : "new" \notin T => Cardinality(At(T)) = 0
  BY <1>2, FS_EmptySet
<1>4. SlotsMatchCalls
  BY <1>3 DEF Init, SlotsMatchCalls, Holding
<1>5. ProbesAreUnderWay
  BY DEF Init, BreakerInit, Closed, ProbesAreUnderWay
<1> QED BY <1>1, <1>4, <1>5 DEF IInv

LEMMA NextIInv == IInv /\ [Next]_vars => IInv'
<1> SUFFICES ASSUME IInv, [Next]_vars
             PROVE  IInv'
  OBVIOUS
<1>1. CASE Next
  BY <1>1, SlotsStep, BreakerStep, StreamsStep DEF IInv, TypeOK
<1>2. CASE UNCHANGED vars
  BY <1>2 DEF IInv, TypeOK, BreakerType, SlotsMatchCalls, ProbesAreUnderWay, At,
     vars, counters, brk, streams
<1> QED BY <1>1, <1>2

(* The state of the gate is always well-typed: in particular the semaphore *)
(* never holds more than its capacity and no release finds it empty.       *)
THEOREM TypeCorrect == Spec => []TypeOK
<1>1. IInv => TypeOK
  BY DEF IInv
<1> QED BY <1>1, InitIInv, NextIInv, PTL DEF Spec

(* Each slot belongs to one call that holds it, and the counters follow.   *)
THEOREM SlotsCorrect == Spec => []SlotsAreKept
<1>1. IInv => SlotsAreKept
  BY GateAssumption DEF IInv, TypeOK, SlotsAreKept
<1> QED BY <1>1, InitIInv, NextIInv, PTL DEF Spec

(* A half-open breaker waits only for calls that are under way.            *)
THEOREM ProbesCorrect == Spec => []ProbesAreUnderWay
<1>1. IInv => ProbesAreUnderWay
  BY DEF IInv
<1> QED BY <1>1, InitIInv, NextIInv, PTL DEF Spec

-----------------------------------------------------------------------------
(* ModelStream                                                             *)

(* Where each goroutine is, and what that says of its message, of its end  *)
(* and of the pipe that it reads.                                          *)
ScannerStage ==
  /\ IF spc \in {"send", "sendLast"} THEN sHold # Nothing ELSE sHold = Nothing
  /\ finish = "none" <=> spc \in {"scan", "send"}
  /\ "model" \in ended <=> spc = "done"

PumpStage ==
  /\ IF ppc = "send" THEN pHold # Nothing ELSE pHold = Nothing
  /\ "pump" \in ended <=> ppc \in {"release", "done"}
  /\ ppc \in {"close", "release", "done"} =>
       pumpReaderClosed \/ (modelPipe = <<>> /\ spc = "done")

ParserStage ==
  /\ IF tpc \in {"send", "sendLast"} THEN tHold # Nothing ELSE tHold = Nothing
  /\ tpc = "send" => tHold # <<ToolCalls>>
  /\ tpc = "sendLast" => tHold = <<ToolCalls>>
  /\ "parse" \in ended <=> tpc = "done"
  /\ tpc \in {"sendLast", "close", "done"} =>
       parseReaderClosed \/ (pumpPipe = <<>> /\ ppc \in {"release", "done"})
  /\ pumpReaderClosed => parseReaderClosed

ReaderStage ==
  /\ parseReaderClosed <=> rpc = "closed"
  /\ rpc = "eof" => parsePipe = <<>> /\ tpc = "done"

Stages == ScannerStage /\ PumpStage /\ ParserStage /\ ReaderStage

Staged == StreamTypeOK /\ Stages

Held == {Nothing} \cup {<<x>> : x \in Messages}

LEMMA HeldIs ==
  /\ \A h \in Held : h \in Seq(Messages) /\ (h # Nothing => Len(h) = 1)
  /\ Nothing \in Held /\ \A x \in Messages : <<x>> \in Held /\ <<x>> # Nothing
  /\ ToolCalls \in Messages /\ Empty \in Messages /\ Messages \subseteq Int
  /\ <<Empty>> # <<ToolCalls>>
<1>1. Pieces \in Nat
  BY ModelStreamAssumption
<1>2. ToolCalls \in Messages /\ Empty \in Messages /\ Messages \subseteq Int /\ Empty # ToolCalls
  BY <1>1 DEF Messages, ToolCalls, Empty
<1>3. \A x \in Messages : <<x>> \in Seq(Messages) /\ Len(<<x>>) = 1 /\ <<x>>[1] = x
  OBVIOUS
<1>4. Nothing \in Seq(Messages) /\ Len(Nothing) = 0
  BY EmptySeq DEF Nothing
<1>5. ASSUME NEW h \in Held
      PROVE  h \in Seq(Messages) /\ (h # Nothing => Len(h) = 1)
  <2>1. h = Nothing \/ \E x \in Messages : h = <<x>>
    BY DEF Held
  <2> QED BY <2>1, <1>3, <1>4
<1>6. Nothing \in Held /\ \A x \in Messages : <<x>> \in Held
  BY DEF Held
<1>7. \A x \in Messages : <<x>> # Nothing
  BY <1>3, <1>4
<1>8. <<Empty>> # <<ToolCalls>>
  BY <1>2, <1>3
<1> QED BY <1>2, <1>5, <1>6, <1>7, <1>8

LEMMA StagedInit == StreamInit => Staged
<1>1. <<>> \in Seq(Messages) /\ Len(<<>>) = 0
  BY EmptySeq
<1>2. ModelCap \in Nat /\ PumpCap \in Nat /\ ParseCap \in Nat /\ Pieces \in Nat
  BY ModelStreamAssumption
<1>3. Nothing = <<>> /\ {Nothing, Nothing, Nothing} \subseteq {Nothing} \cup {<<x>> : x \in Messages}
  BY DEF Nothing
<1> HIDE DEF Nothing
<1> SUFFICES ASSUME StreamInit PROVE Staged
  OBVIOUS
<1>4. StreamTypeOK
  <2>1. {sHold, pHold, tHold} \subseteq {Nothing} \cup {<<x>> : x \in Messages}
    BY DEF StreamInit
  <2>2. {toolCalls, ctxDone, slot, seen, pumpReaderClosed, parseReaderClosed} \subseteq BOOLEAN
    BY DEF StreamInit
  <2>3. modelPipe \in Seq(Messages) /\ pumpPipe \in Seq(Messages) /\ parsePipe \in Seq(Messages)
        /\ got \in Seq(Messages)
    BY <1>1 DEF StreamInit
  <2>4. Len(modelPipe) <= ModelCap /\ Len(pumpPipe) <= PumpCap /\ Len(parsePipe) <= ParseCap
    BY <1>1, <1>2 DEF StreamInit
  <2>5. made \in 0..Pieces /\ ended \subseteq {"model", "pump", "parse"}
    BY <1>2 DEF StreamInit
  <2> QED BY <2>1, <2>2, <2>3, <2>4, <2>5 DEF StreamInit, StreamTypeOK
<1> QED
  BY <1>4 DEF StreamInit, Staged, Stages, ScannerStage, PumpStage, ParserStage,
        ReaderStage, Nothing

(* The message that a goroutine holds goes to the end of its pipe.         *)
LEMMA Sent ==
  ASSUME NEW cap \in Nat, NEW pipe \in Seq(Messages), Len(pipe) < cap, NEW h \in Held
  PROVE  pipe \o h \in Seq(Messages) /\ Len(pipe \o h) <= cap
<1>1. h \in Seq(Messages) /\ Len(h) \in {0, 1}
  <2>1. CASE h = Nothing
    <3>1. <<>> \in Seq(Messages) /\ Len(<<>>) = 0
      BY EmptySeq
    <3> QED BY <2>1, <3>1 DEF Nothing
  <2>2. CASE h # Nothing
    BY <2>2, HeldIs
  <2> QED BY <2>1, <2>2
<1>2. pipe \o h \in Seq(Messages) /\ Len(pipe \o h) = Len(pipe) + Len(h) /\ Len(pipe) \in Nat
  BY <1>1, ConcatProperties, LenProperties
<1> DEFINE a == Len(pipe)
           b == Len(h)
           c == Len(pipe \o h)
<1>3. a \in Nat /\ b \in {0, 1} /\ c = a + b /\ a < cap
  BY <1>1, <1>2
<1> HIDE DEF a, b, c
<1>4. c <= cap
  BY <1>3
<1> QED BY <1>2, <1>4 DEF c

LEMMA Received ==
  ASSUME NEW cap \in Nat, NEW pipe \in Seq(Messages), Len(pipe) <= cap, pipe # <<>>
  PROVE  /\ Head(pipe) \in Messages /\ <<Head(pipe)>> \in Held
         /\ Tail(pipe) \in Seq(Messages) /\ Len(Tail(pipe)) <= cap
<1>1. Head(pipe) \in Messages /\ Tail(pipe) \in Seq(Messages) /\ Len(Tail(pipe)) = Len(pipe) - 1
  BY HeadTailProperties
<1>2. Len(pipe) \in Nat
  BY LenProperties
<1>3. Len(Tail(pipe)) <= cap
  BY <1>1, <1>2
<1>4. <<Head(pipe)>> \in Held
  BY <1>1, HeldIs
<1> QED BY <1>1, <1>3, <1>4

LEMMA StagedByScanner ==
  ASSUME Staged, Scanner
  PROVE  Staged'
<1>0. /\ sHold \in Held /\ ModelCap \in Nat /\ Pieces \in Nat
      /\ modelPipe \in Seq(Messages)
  BY ModelStreamAssumption DEF Staged, StreamTypeOK, Held
<1>1. CASE ScanText
  <2>1. made' \in 0..Pieces /\ made + 1 \in Messages
    BY <1>0, <1>1 DEF ScanText, Staged, StreamTypeOK, Messages
  <2>2. sHold' \in Held /\ sHold' # Nothing
    BY <1>1, <2>1, HeldIs DEF ScanText
  <2> QED BY <1>1, <2>1, <2>2 DEF ScanText, OnlyScanner, pump, parser, readers, shut, Staged,
             StreamTypeOK, Stages, ScannerStage, PumpStage, ParserStage, ReaderStage, Held
<1>2. CASE ScanToolCalls
  <2>2. sHold' \in Held /\ sHold' # Nothing
    BY <1>2, HeldIs DEF ScanToolCalls
  <2> QED BY <1>2, <2>2 DEF ScanToolCalls, OnlyScanner, pump, parser, readers, shut, Staged,
             StreamTypeOK, Stages, ScannerStage, PumpStage, ParserStage, ReaderStage, Held
<1>3. ASSUME NEW how \in {"done", "cut"}, ScanEnds(how) PROVE Staged'
  <2>2. sHold' \in Held /\ (IF spc' = "sendLast" THEN sHold' # Nothing ELSE sHold' = Nothing)
    BY <1>0, <1>3, HeldIs DEF ScanEnds, Staged, Stages, ScannerStage
  <2> QED BY <1>3, <2>2 DEF ScanEnds, OnlyScanner, pump, parser, readers, shut, Staged,
             StreamTypeOK, Stages, ScannerStage, PumpStage, ParserStage, ReaderStage, Held
<1>4. CASE ScannerSends
  <2>1. modelPipe' \in Seq(Messages) /\ Len(modelPipe') <= ModelCap /\ sHold' \in Held
    BY <1>0, <1>4, Sent, HeldIs DEF ScannerSends
  <2> QED BY <1>4, <2>1 DEF ScannerSends, OnlyScanner, pump, parser, readers, shut, Staged,
             StreamTypeOK, Stages, ScannerStage, PumpStage, ParserStage, ReaderStage, Held
<1>5. CASE ScannerCloses
  BY <1>5 DEF ScannerCloses, OnlyScanner, pump, parser, readers, shut, Staged,
             StreamTypeOK, Stages, ScannerStage, PumpStage, ParserStage, ReaderStage
<1> QED BY <1>1, <1>2, <1>3, <1>4, <1>5 DEF Scanner

LEMMA StagedByPump ==
  ASSUME Staged, Pump
  PROVE  Staged'
<1>0. /\ pHold \in Held /\ ModelCap \in Nat /\ PumpCap \in Nat
      /\ modelPipe \in Seq(Messages) /\ pumpPipe \in Seq(Messages)
      /\ Len(modelPipe) <= ModelCap
  BY ModelStreamAssumption DEF Staged, StreamTypeOK, Held
<1>1. CASE PumpReceives
  <2>1. modelPipe' \in Seq(Messages) /\ Len(modelPipe') <= ModelCap /\ pHold' \in Held
        /\ pHold' # Nothing
    BY <1>0, <1>1, Received, HeldIs DEF PumpReceives
  <2> QED BY <1>1, <2>1 DEF PumpReceives, OnlyPump, scanner, parser, readers, shut, Staged,
             StreamTypeOK, Stages, ScannerStage, PumpStage, ParserStage, ReaderStage, Held
<1>2. CASE PumpSeesEnd
  BY <1>2 DEF PumpSeesEnd, ModelEnded, OnlyPump, scanner, parser, readers, shut, Staged,
             StreamTypeOK, Stages, ScannerStage, PumpStage, ParserStage, ReaderStage
<1>3. CASE PumpSends
  <2>1. pumpPipe' \in Seq(Messages) /\ Len(pumpPipe') <= PumpCap /\ pHold' \in Held
    BY <1>0, <1>3, Sent, HeldIs DEF PumpSends
  <2> QED BY <1>3, <2>1 DEF PumpSends, OnlyPump, scanner, parser, readers, shut, Staged,
             StreamTypeOK, Stages, ScannerStage, PumpStage, ParserStage, ReaderStage, Held
<1>4. CASE PumpGivesUp
  BY <1>4, HeldIs DEF PumpGivesUp, OnlyPump, scanner, parser, readers, shut, Staged,
             StreamTypeOK, Stages, ScannerStage, PumpStage, ParserStage, ReaderStage, Held
<1>5. CASE PumpCloses
  BY <1>5 DEF PumpCloses, OnlyPump, scanner, parser, readers, shut, Staged,
             StreamTypeOK, Stages, ScannerStage, PumpStage, ParserStage, ReaderStage
<1>6. CASE PumpReleases
  BY <1>6 DEF PumpReleases, OnlyPump, scanner, parser, readers, shut, Staged,
             StreamTypeOK, Stages, ScannerStage, PumpStage, ParserStage, ReaderStage
<1> QED BY <1>1, <1>2, <1>3, <1>4, <1>5, <1>6 DEF Pump

LEMMA StagedByParser ==
  ASSUME Staged, Parser
  PROVE  Staged'
<1>0. /\ tHold \in Held /\ ParseCap \in Nat /\ PumpCap \in Nat
      /\ parsePipe \in Seq(Messages) /\ pumpPipe \in Seq(Messages)
      /\ Len(pumpPipe) <= PumpCap
  BY ModelStreamAssumption DEF Staged, StreamTypeOK, Held
<1>1. CASE ParserReceives
  <2>1. pumpPipe' \in Seq(Messages) /\ Len(pumpPipe') <= PumpCap /\ Head(pumpPipe) \in Messages
    BY <1>0, <1>1, Received DEF ParserReceives
  <2>2. PassOn(Head(pumpPipe)) \in Messages /\ PassOn(Head(pumpPipe)) # ToolCalls
    BY <2>1, HeldIs DEF PassOn, Empty, ToolCalls
  <2>3. tHold' \in Held /\ tHold' # Nothing /\ tHold' # <<ToolCalls>>
    BY <1>1, <2>2, HeldIs DEF ParserReceives
  <2>4. seen' \in BOOLEAN
    BY <1>1 DEF ParserReceives
  <2> QED BY <1>1, <2>1, <2>3, <2>4 DEF ParserReceives, OnlyParser, scanner, pump, readers, Staged,
             StreamTypeOK, Stages, ScannerStage, PumpStage, ParserStage, ReaderStage, Held
<1>2. CASE ParserSeesEnd
  <2>1. /\ tHold' \in Held
        /\ IF tpc' = "sendLast" THEN tHold' = <<ToolCalls>> /\ tHold' # Nothing
                                ELSE tHold' = Nothing
    BY <1>0, <1>2, HeldIs DEF ParserSeesEnd, Staged, Stages, ParserStage
  <2> QED BY <1>2, <2>1 DEF ParserSeesEnd, OnlyParser, scanner, pump, readers, Staged,
             StreamTypeOK, Stages, ScannerStage, PumpStage, ParserStage, ReaderStage, Held
<1>3. CASE ParserSends
  <2>1. parsePipe' \in Seq(Messages) /\ Len(parsePipe') <= ParseCap /\ tHold' \in Held
    BY <1>0, <1>3, Sent, HeldIs DEF ParserSends
  <2> QED BY <1>3, <2>1 DEF ParserSends, OnlyParser, scanner, pump, readers, Staged,
             StreamTypeOK, Stages, ScannerStage, PumpStage, ParserStage, ReaderStage, Held
<1>4. CASE ParserGivesUp
  BY <1>4, HeldIs DEF ParserGivesUp, CloseUpstream, OnlyParser, scanner, pump, readers, Staged,
             StreamTypeOK, Stages, ScannerStage, PumpStage, ParserStage, ReaderStage, Held
<1>5. CASE ParserCloses
  BY <1>5 DEF ParserCloses, OnlyParser, scanner, pump, readers, Staged,
             StreamTypeOK, Stages, ScannerStage, PumpStage, ParserStage, ReaderStage
<1> QED BY <1>1, <1>2, <1>3, <1>4, <1>5 DEF Parser

LEMMA StagedByReader ==
  ASSUME Staged, Reader \/ ReaderLeaves \/ ContextEnds \/ UNCHANGED streamVars
  PROVE  Staged'
<1>0. /\ ParseCap \in Nat /\ parsePipe \in Seq(Messages) /\ got \in Seq(Messages)
      /\ Len(parsePipe) <= ParseCap
  BY ModelStreamAssumption DEF Staged, StreamTypeOK
<1>1. CASE ReaderReceives
  <2>1. parsePipe' \in Seq(Messages) /\ Len(parsePipe') <= ParseCap /\ Head(parsePipe) \in Messages
    BY <1>0, <1>1, Received DEF ReaderReceives
  <2>2. got' \in Seq(Messages)
    BY <1>0, <1>1, <2>1, AppendProperties DEF ReaderReceives
  <2> QED BY <1>1, <2>1, <2>2 DEF ReaderReceives, OnlyReader, scanner, pump, parser, Staged,
             StreamTypeOK, Stages, ScannerStage, PumpStage, ParserStage, ReaderStage
<1>2. CASE ReaderSeesEnd
  BY <1>2 DEF ReaderSeesEnd, OnlyReader, scanner, pump, parser, Staged,
             StreamTypeOK, Stages, ScannerStage, PumpStage, ParserStage, ReaderStage
<1>3. CASE ReaderLeaves
  BY <1>3 DEF ReaderLeaves, OnlyReader, scanner, pump, parser, Staged,
             StreamTypeOK, Stages, ScannerStage, PumpStage, ParserStage, ReaderStage
<1>4. CASE ContextEnds
  BY <1>4 DEF ContextEnds, readers, shut, scanner, pump, parser, Staged,
             StreamTypeOK, Stages, ScannerStage, PumpStage, ParserStage, ReaderStage
<1>5. CASE UNCHANGED streamVars
  BY <1>5 DEF streamVars, readers, shut, scanner, pump, parser, Staged,
             StreamTypeOK, Stages, ScannerStage, PumpStage, ParserStage, ReaderStage
<1> QED BY <1>1, <1>2, <1>3, <1>4, <1>5 DEF Reader

LEMMA StagedKept == Staged /\ [StreamNext]_streamVars => Staged'
  BY StagedByScanner, StagedByPump, StagedByParser, StagedByReader DEF StreamNext


-----------------------------------------------------------------------------
(* Text of sequences put together.                                         *)
Words == Seq(1..Pieces)

LEMMA TextIs ==
  /\ \A s \in Seq(Messages) : Text(s) \in Words
  /\ \A a, b \in Seq(Messages) : Text(a \o b) = Text(a) \o Text(b)
  /\ Text(<<>>) = <<>>
  /\ \A s \in Seq(Messages), x \in Messages :
       Text(Append(s, x)) = IF x > 0 THEN Append(Text(s), x) ELSE Text(s)
  /\ \A x \in Messages : Text(<<x>>) = IF x > 0 THEN <<x>> ELSE <<>>
<1>0. Pieces \in Nat /\ Messages \cap (1..Pieces) \subseteq 1..Pieces
  BY ModelStreamAssumption
<1>1. ASSUME NEW s \in Seq(Messages) PROVE Text(s) \in Words
  <2>1. KeptWell(s, 1..Pieces, Messages, Len(s), Text(s))
    BY FilterTyped DEF Text
  <2>2. Text(s) \in Seq(Messages \cap (1..Pieces))
    BY <2>1 DEF KeptWell
  <2> QED BY <1>0, <2>2, SeqMonotonic DEF Words
<1>2. \A a, b \in Seq(Messages) : Text(a \o b) = Text(a) \o Text(b)
  BY FilterConcat DEF Text
<1>3. Text(<<>>) = <<>>
  BY FilterEmpty DEF Text
<1>4. ASSUME NEW s \in Seq(Messages), NEW x \in Messages
      PROVE  Text(Append(s, x)) = IF x > 0 THEN Append(Text(s), x) ELSE Text(s)
  <2>1. Text(Append(s, x)) = Keep(Text(s), x, 1..Pieces)
    BY FilterAppend DEF Text
  <2>2. x \in 1..Pieces <=> x > 0
    BY <1>0 DEF Messages
  <2> QED BY <2>1, <2>2 DEF Keep
<1>5. ASSUME NEW x \in Messages PROVE Text(<<x>>) = IF x > 0 THEN <<x>> ELSE <<>>
  <2>1. <<>> \in Seq(Messages) /\ Append(<<>>, x) = <<x>>
    BY EmptySeq
  <2>2. Text(Append(<<>>, x)) = IF x > 0 THEN Append(<<>>, x) ELSE <<>>
    BY <1>3, <1>4, <2>1
  <2> QED BY <2>1, <2>2
<1> QED BY <1>1, <1>2, <1>3, <1>4, <1>5

(* Concatenation of words, as an operator of which the provers know only   *)
(* these laws.                                                             *)
Then(a, b) == a \o b

LEMMA Cat ==
  ASSUME NEW a \in Words, NEW b \in Words
  PROVE  Then(a, b) \in Words /\ Then(a, <<>>) = a /\ Then(<<>>, a) = a /\ <<>> \in Words
  BY ConcatProperties, ConcatEmptySeq, EmptySeq DEF Words, Then

LEMMA Regroup ==
  ASSUME NEW a \in Words, NEW b \in Words, NEW c \in Words
  PROVE  Then(Then(a, b), c) = Then(a, Then(b, c))
<1> DEFINE Regroups(x, y, z) == (x \o y) \o z = x \o (y \o z)
<1>1. \A S : \A x, y, z \in Seq(S) : Regroups(x, y, z)
  BY ConcatAssociative
<1> HIDE DEF Regroups
<1>2. \A x, y, z \in Words : Regroups(x, y, z)
  BY <1>1, Zenon DEF Words
<1>3. Regroups(a, b, c)
  BY <1>2, Zenon
<1> QED BY <1>3, Zenon DEF Regroups, Then

Flow(p, t, q, h, m, s) == Then(Then(Then(Then(Then(p, t), q), h), m), s)

LEMMA TextOfFlow ==
  ASSUME NEW p \in Seq(Messages), NEW t \in Seq(Messages), NEW q \in Seq(Messages),
         NEW h \in Seq(Messages), NEW m \in Seq(Messages), NEW s \in Seq(Messages)
  PROVE  Text(p \o t \o q \o h \o m \o s) = Flow(Text(p), Text(t), Text(q), Text(h), Text(m), Text(s))
<1> DEFINE a == p \o t
           b == a \o q
           c == b \o h
           d == c \o m
<1>1. a \in Seq(Messages)
  BY ConcatProperties
<1>2. b \in Seq(Messages)
  BY <1>1, ConcatProperties
<1>3. c \in Seq(Messages)
  BY <1>2, ConcatProperties
<1>4. d \in Seq(Messages)
  BY <1>3, ConcatProperties
<1>5. Text(a) = Then(Text(p), Text(t))
  BY TextIs DEF Then
<1> HIDE DEF a
<1>6. Text(b) = Then(Text(a), Text(q))
  BY <1>1, TextIs DEF Then
<1> HIDE DEF b
<1>7. Text(c) = Then(Text(b), Text(h))
  BY <1>2, TextIs DEF Then
<1> HIDE DEF c
<1>8. Text(d) = Then(Text(c), Text(m))
  BY <1>3, TextIs DEF Then
<1> HIDE DEF d
<1>9. Text(d \o s) = Then(Text(d), Text(s))
  BY <1>4, TextIs DEF Then
<1>10. Text(d \o s) = Flow(Text(p), Text(t), Text(q), Text(h), Text(m), Text(s))
  BY <1>5, <1>6, <1>7, <1>8, <1>9 DEF Flow
<1> QED BY <1>10 DEF a, b, c, d

(* What a goroutine moves on from one place to the next stays under way.   *)
LEMMA MovesSM ==
  ASSUME NEW p \in Words, NEW t \in Words, NEW q \in Words,
         NEW h \in Words, NEW m \in Words, NEW s \in Words
  PROVE  Flow(p, t, q, h, Then(m, s), <<>>) = Flow(p, t, q, h, m, s)
<1> DEFINE c == Then(Then(Then(p, t), q), h)
<1>1. c \in Words /\ Then(m, s) \in Words
  BY Cat
<1>2. Then(Then(c, m), s) = Then(c, Then(m, s)) /\ Then(c, Then(m, s)) \in Words
  BY <1>1, Regroup, Cat
<1>3. Then(Then(c, Then(m, s)), <<>>) = Then(c, Then(m, s))
  BY <1>2, Cat
<1> QED BY <1>2, <1>3, Zenon DEF Flow

LEMMA MovesMH ==
  ASSUME NEW p \in Words, NEW t \in Words, NEW q \in Words,
         NEW h \in Words, NEW m \in Words, NEW s \in Words
  PROVE  Flow(p, t, q, h, m, s) = Flow(p, t, q, <<>>, Then(h, m), s)
<1> DEFINE b == Then(Then(p, t), q)
<1>1. b \in Words
  BY Cat
<1>2. Then(Then(b, h), m) = Then(b, Then(h, m)) /\ Then(b, <<>>) = b
  BY <1>1, Regroup, Cat
<1> QED BY <1>2, Zenon DEF Flow

LEMMA MovesHQ ==
  ASSUME NEW p \in Words, NEW t \in Words, NEW q \in Words,
         NEW h \in Words, NEW m \in Words, NEW s \in Words
  PROVE  Flow(p, t, Then(q, h), <<>>, m, s) = Flow(p, t, q, h, m, s)
<1> DEFINE a == Then(p, t)
<1>1. a \in Words /\ Then(q, h) \in Words
  BY Cat
<1>2. Then(Then(a, q), h) = Then(a, Then(q, h)) /\ Then(a, Then(q, h)) \in Words
  BY <1>1, Regroup, Cat
<1>3. Then(Then(a, Then(q, h)), <<>>) = Then(a, Then(q, h))
  BY <1>2, Cat
<1> QED BY <1>2, <1>3, Zenon DEF Flow

LEMMA MovesQT ==
  ASSUME NEW p \in Words, NEW t \in Words, NEW q \in Words,
         NEW h \in Words, NEW m \in Words, NEW s \in Words
  PROVE  Flow(p, t, q, h, m, s) = Flow(p, <<>>, Then(t, q), h, m, s)
<1>1. Then(Then(p, t), q) = Then(p, Then(t, q)) /\ Then(p, <<>>) = p
  BY Regroup, Cat
<1> QED BY <1>1, Zenon DEF Flow

LEMMA MovesTP ==
  ASSUME NEW p \in Words, NEW t \in Words, NEW q \in Words,
         NEW h \in Words, NEW m \in Words, NEW s \in Words
  PROVE  Flow(Then(p, t), <<>>, q, h, m, s) = Flow(p, t, q, h, m, s)
<1>1. Then(Then(p, t), <<>>) = Then(p, t)
  BY Cat
<1> QED BY <1>1, Zenon DEF Flow

LEMMA FlowEnds ==
  ASSUME NEW p \in Words, NEW t \in Words, NEW q \in Words,
         NEW h \in Words, NEW m \in Words, NEW s \in Words
  PROVE  /\ Flow(p, t, q, h, m, s) \in Words
         /\ Flow(p, t, q, h, m, s) = Then(Flow(p, t, q, h, m, <<>>), s)
         /\ \A x \in Words : Flow(Then(x, p), t, q, h, m, s) = Then(x, Flow(p, t, q, h, m, s))
<1> DEFINE a == Then(p, t)
           b == Then(a, q)
           c == Then(b, h)
           d == Then(c, m)
<1>1. a \in Words
  BY Cat
<1>2. b \in Words
  BY <1>1, Cat
<1>3. c \in Words
  BY <1>2, Cat
<1>4. d \in Words
  BY <1>3, Cat
<1>5. Then(d, <<>>) = d /\ Then(d, s) \in Words
  BY <1>4, Cat
<1>6. ASSUME NEW x \in Words
      PROVE  Flow(Then(x, p), t, q, h, m, s) = Then(x, Flow(p, t, q, h, m, s))
  <2>1. Then(Then(x, p), t) = Then(x, a)
    BY Regroup
  <2>2. Then(Then(x, a), q) = Then(x, b)
    BY <1>1, Regroup
  <2>3. Then(Then(x, b), h) = Then(x, c)
    BY <1>2, Regroup
  <2>4. Then(Then(x, c), m) = Then(x, d)
    BY <1>3, Regroup
  <2>5. Then(Then(x, d), s) = Then(x, Then(d, s))
    BY <1>4, Regroup
  <2> QED BY <2>1, <2>2, <2>3, <2>4, <2>5 DEF Flow
<1> QED BY <1>5, <1>6 DEF Flow

(* What is held between two parts of what is under way.                    *)
Around(u, v, h) == \E a, b \in Words : u = Then(Then(a, h), b) /\ v = Then(a, b)

LEMMA FlowAround ==
  ASSUME NEW p \in Words, NEW t \in Words, NEW q \in Words,
         NEW h \in Words, NEW m \in Words, NEW s \in Words
  PROVE  /\ Around(Flow(p, t, q, h, m, s), Flow(p, t, q, <<>>, m, s), h)
         /\ Around(Flow(p, t, q, h, m, s), Flow(p, <<>>, q, h, m, s), t)
<1> DEFINE a == Then(p, t)
           b == Then(a, q)
           c == Then(b, h)
           ms == Then(m, s)
           hms == Then(h, ms)
           r == Then(q, hms)
           d == Then(p, q)
           e == Then(d, h)
<1>1. a \in Words /\ ms \in Words /\ d \in Words
  BY Cat
<1>2. b \in Words /\ hms \in Words /\ e \in Words
  BY <1>1, Cat
<1>3. c \in Words /\ r \in Words
  BY <1>2, Cat
<1>4. Then(Then(c, m), s) = Then(c, ms) /\ Then(Then(b, m), s) = Then(b, ms)
      /\ Then(Then(e, m), s) = Then(e, ms)
  BY <1>2, <1>3, Regroup
<1>5. Then(b, <<>>) = b /\ Then(p, <<>>) = p
  BY <1>2, Cat
<1>6. Then(Then(b, h), ms) = Then(b, hms) /\ Then(Then(a, q), hms) = Then(a, r)
      /\ Then(Then(d, h), ms) = Then(d, hms) /\ Then(Then(p, q), hms) = Then(p, r)
  BY <1>1, <1>2, Regroup
<1>7. Flow(p, t, q, h, m, s) = Then(Then(b, h), ms) /\ Flow(p, t, q, <<>>, m, s) = Then(b, ms)
  BY <1>4, <1>5 DEF Flow
<1>8. Flow(p, t, q, h, m, s) = Then(Then(p, t), r)
  BY <1>6, <1>7
<1>9. Flow(p, <<>>, q, h, m, s) = Then(p, r)
  BY <1>4, <1>5, <1>6 DEF Flow
<1> HIDE DEF b, ms, r
<1> QED BY <1>1, <1>2, <1>3, <1>7, <1>8, <1>9 DEF Around

LEMMA FlowIsWords ==
  ASSUME NEW p \in Words, NEW t \in Words, NEW q \in Words,
         NEW h \in Words, NEW m \in Words, NEW s \in Words
  PROVE  Flow(p, t, q, h, m, s) \in Words
  BY FlowEnds

LEMMA FlowLast ==
  ASSUME NEW p \in Words, NEW t \in Words, NEW q \in Words,
         NEW h \in Words, NEW m \in Words, NEW s \in Words
  PROVE  Flow(p, t, q, h, m, s) = Then(Flow(p, t, q, h, m, <<>>), s)
  BY FlowEnds

(* What follows the first part.                                            *)
After(t, q, h, m, s) == Then(t, Then(q, Then(h, Then(m, s))))

LEMMA AfterIsWords ==
  ASSUME NEW t \in Words, NEW q \in Words, NEW h \in Words, NEW m \in Words, NEW s \in Words
  PROVE  After(t, q, h, m, s) \in Words
<1>1. Then(m, s) \in Words
  BY Cat
<1>2. Then(h, Then(m, s)) \in Words
  BY <1>1, Cat
<1>3. Then(q, Then(h, Then(m, s))) \in Words
  BY <1>2, Cat
<1> QED BY <1>3, Cat DEF After

LEMMA FlowFirst ==
  ASSUME NEW p \in Words, NEW t \in Words, NEW q \in Words,
         NEW h \in Words, NEW m \in Words, NEW s \in Words
  PROVE  Flow(p, t, q, h, m, s) = Then(p, After(t, q, h, m, s))
<1> DEFINE ms == Then(m, s)
           hms == Then(h, ms)
           qhms == Then(q, hms)
           a == Then(p, t)
           b == Then(a, q)
           c == Then(b, h)
<1>1. ms \in Words /\ a \in Words
  BY Cat
<1>2. hms \in Words /\ b \in Words
  BY <1>1, Cat
<1>3. qhms \in Words /\ c \in Words
  BY <1>2, Cat
<1>4. Then(Then(c, m), s) = Then(c, ms)
  BY <1>3, Regroup
<1>5. Then(c, ms) = Then(b, hms)
  BY <1>1, <1>2, Regroup
<1>6. Then(b, hms) = Then(a, qhms)
  BY <1>1, <1>2, Regroup
<1>7. Then(a, qhms) = Then(p, Then(t, qhms))
  BY <1>3, Regroup
<1> QED BY <1>4, <1>5, <1>6, <1>7 DEF Flow, After

LEMMA AroundH ==
  ASSUME NEW p \in Words, NEW t \in Words, NEW q \in Words,
         NEW h \in Words, NEW m \in Words, NEW s \in Words
  PROVE  Around(Flow(p, t, q, h, m, s), Flow(p, t, q, <<>>, m, s), h)
  BY FlowAround

LEMMA AroundT ==
  ASSUME NEW p \in Words, NEW t \in Words, NEW q \in Words,
         NEW h \in Words, NEW m \in Words, NEW s \in Words
  PROVE  Around(Flow(p, t, q, h, m, s), Flow(p, <<>>, q, h, m, s), t)
  BY FlowAround

(* A sequence without one of its elements.                                 *)
Without(s, i) == SubSeq(s, 1, i - 1) \o SubSeq(s, i + 1, Len(s))

LEMMA WordDropped ==
  ASSUME NEW a \in Words, NEW b \in Words, NEW e \in 1..Pieces
  PROVE  \E i \in DOMAIN Then(Then(a, <<e>>), b) : Then(a, b) = Without(Then(Then(a, <<e>>), b), i)
<1> DEFINE T == 1..Pieces
<1> a \in Seq(T) /\ b \in Seq(T) /\ e \in T
  BY DEF Words
<1> HIDE DEF T
<1> DEFINE s == (a \o <<e>>) \o b
           n == Len(a)
           k == Len(b)
<1>1. n \in Nat /\ k \in Nat
  BY LenProperties
<1>2. <<e>> \in Seq(T) /\ Len(<<e>>) = 1
  OBVIOUS
<1>3. a \o <<e>> \in Seq(T) /\ Len(a \o <<e>>) = n + 1
      /\ \A i \in 1..(n + 1) : (a \o <<e>>)[i] = IF i <= n THEN a[i] ELSE <<e>>[i - n]
  BY <1>2, ConcatProperties
<1> DEFINE c == a \o <<e>>
<1> HIDE DEF c
<1>4. c \in Seq(T) /\ Len(c) = n + 1 /\ \A i \in 1..n : c[i] = a[i]
  BY <1>1, <1>3 DEF c
<1>5. s \in Seq(T) /\ Len(s) = n + 1 + k
      /\ \A i \in 1..(n + 1 + k) : s[i] = IF i <= n + 1 THEN c[i] ELSE b[i - (n + 1)]
  BY <1>4, ConcatProperties DEF c
<1> HIDE DEF s
<1>6. DOMAIN s = 1..(n + 1 + k)
  BY <1>5, LenProperties
<1> HIDE DEF n, k
<1>7. \A i \in 1..n : s[i] = a[i]
  <2> SUFFICES ASSUME NEW i \in 1..n PROVE s[i] = a[i]
    OBVIOUS
  <2>1. i \in 1..(n + 1 + k) /\ i <= n + 1
    BY <1>1
  <2> QED BY <2>1, <1>4, <1>5
<1>8. \A i \in 1..k : s[n + 1 + i] = b[i]
  <2> SUFFICES ASSUME NEW i \in 1..k PROVE s[n + 1 + i] = b[i]
    OBVIOUS
  <2> DEFINE j == n + 1 + i
  <2>1. j \in 1..(n + 1 + k) /\ ~(j <= n + 1) /\ j - (n + 1) = i
    BY <1>1
  <2> HIDE DEF j
  <2>2. s[j] = b[i]
    BY <2>1, <1>5
  <2> QED BY <2>2 DEF j
<1>9. SubSeq(s, 1, n) = a
  <2>1. \A i \in 1..n : s[i] \in T
    BY <1>7, ElementOfSeq DEF n
  <2>2. /\ SubSeq(s, 1, n) \in Seq(T)
        /\ Len(SubSeq(s, 1, n)) = IF 1 <= n THEN n - 1 + 1 ELSE 0
        /\ \A i \in 1..(n - 1 + 1) : SubSeq(s, 1, n)[i] = s[1 + i - 1]
    BY <1>1, <2>1, SubSeqProperties
  <2>3. Len(SubSeq(s, 1, n)) = n /\ \A i \in 1..n : SubSeq(s, 1, n)[i] = a[i]
    <3>1. n - 1 + 1 = n /\ \A i \in 1..n : 1 + i - 1 = i
      BY <1>1
    <3>2. \A i \in 1..n : SubSeq(s, 1, n)[i] = s[i]
      BY <2>2, <3>1
    <3> QED BY <1>1, <1>7, <2>2, <3>2
  <2> QED BY <2>2, <2>3, SeqEqual DEF n
<1>10. SubSeq(s, n + 2, n + 1 + k) = b
  <2>1. \A i \in (n + 2)..(n + 1 + k) : s[i] \in T
    BY <1>1, <1>5, ElementOfSeq
  <2>2. /\ SubSeq(s, n + 2, n + 1 + k) \in Seq(T)
        /\ Len(SubSeq(s, n + 2, n + 1 + k)) =
             IF n + 2 <= n + 1 + k THEN (n + 1 + k) - (n + 2) + 1 ELSE 0
        /\ \A i \in 1..((n + 1 + k) - (n + 2) + 1) :
             SubSeq(s, n + 2, n + 1 + k)[i] = s[n + 2 + i - 1]
    BY <1>1, <2>1, SubSeqProperties
  <2>3. Len(SubSeq(s, n + 2, n + 1 + k)) = k
        /\ \A i \in 1..k : SubSeq(s, n + 2, n + 1 + k)[i] = b[i]
    <3>1. (n + 1 + k) - (n + 2) + 1 = k /\ \A i \in 1..k : n + 2 + i - 1 = n + 1 + i
      BY <1>1
    <3>2. \A i \in 1..k : SubSeq(s, n + 2, n + 1 + k)[i] = s[n + 1 + i]
      BY <2>2, <3>1
    <3> QED BY <1>1, <1>8, <2>2, <3>1, <3>2
  <2> QED BY <2>2, <2>3, SeqEqual DEF k
<1>11. \E i \in DOMAIN s : a \o b = SubSeq(s, 1, i - 1) \o SubSeq(s, i + 1, Len(s))
  <2> DEFINE j == n + 1
  <2>1. j \in DOMAIN s /\ a \o b = SubSeq(s, 1, j - 1) \o SubSeq(s, j + 1, Len(s))
    <3>1. j - 1 = n /\ j + 1 = n + 2 /\ j \in 1..(n + 1 + k)
      BY <1>1
    <3> HIDE DEF j
    <3> QED BY <1>5, <1>6, <1>9, <1>10, <3>1
  <2> HIDE DEF j
  <2> QED BY <2>1
<1>12. s = Then(Then(a, <<e>>), b) /\ a \o b = Then(a, b)
  BY DEF Then, s, c
<1>13. \E i \in DOMAIN s : a \o b = Without(s, i)
  BY <1>11 DEF Without
<1> QED BY <1>12, <1>13


-----------------------------------------------------------------------------
(* What a step does to the text under way.                                 *)
Kept      == made' = made /\ UnderWay' = UnderWay /\ Text(got)' = Text(got)
Added     == /\ spc = "scan" /\ made < Pieces /\ made' = made + 1
             /\ UnderWay' = Append(UnderWay, made + 1) /\ Text(got)' = Text(got)
             /\ finish' = finish /\ rpc' = rpc
Dropped   == /\ parseReaderClosed /\ made' = made /\ Text(got)' = Text(got)
             /\ finish' = finish /\ rpc' = rpc
             /\ \E i \in DOMAIN UnderWay : UnderWay' = Without(UnderWay, i)
Delivered(w) == UnderWay = <<w>> \o UnderWay' /\ Text(got)' = Append(Text(got), w)
Delivery  == /\ rpc = "recv" /\ made' = made /\ finish' = finish /\ rpc' = rpc
             /\ \E w \in 1..Pieces : Delivered(w)

TextStep == Kept \/ Added \/ Dropped \/ Delivery

LEMMA FlowOfState ==
  ASSUME StreamTypeOK
  PROVE  /\ parsePipe \in Seq(Messages) /\ pumpPipe \in Seq(Messages) /\ modelPipe \in Seq(Messages)
         /\ sHold \in Held /\ pHold \in Held /\ tHold \in Held
         /\ sHold \in Seq(Messages) /\ pHold \in Seq(Messages) /\ tHold \in Seq(Messages)
         /\ UnderWay = Flow(Text(parsePipe), Text(tHold), Text(pumpPipe), Text(pHold),
                            Text(modelPipe), Text(sHold))
<1>1. parsePipe \in Seq(Messages) /\ pumpPipe \in Seq(Messages) /\ modelPipe \in Seq(Messages)
      /\ sHold \in Held /\ pHold \in Held /\ tHold \in Held
  BY DEF StreamTypeOK, Held
<1>2. sHold \in Seq(Messages) /\ pHold \in Seq(Messages) /\ tHold \in Seq(Messages)
  BY <1>1, HeldIs
<1> QED BY <1>1, <1>2, TextOfFlow DEF UnderWay

LEMMA NextIsTyped ==
  ASSUME StreamTypeOK'
  PROVE  /\ parsePipe' \in Seq(Messages) /\ pumpPipe' \in Seq(Messages) /\ modelPipe' \in Seq(Messages)
         /\ sHold' \in Seq(Messages) /\ pHold' \in Seq(Messages) /\ tHold' \in Seq(Messages)
<1>1. parsePipe' \in Seq(Messages) /\ pumpPipe' \in Seq(Messages) /\ modelPipe' \in Seq(Messages)
      /\ sHold' \in Held /\ pHold' \in Held /\ tHold' \in Held
  BY DEF StreamTypeOK, Held
<1> QED BY <1>1, HeldIs

LEMMA FlowOfNext ==
  ASSUME StreamTypeOK'
  PROVE  UnderWay' = Flow(Text(parsePipe'), Text(tHold'), Text(pumpPipe'), Text(pHold'),
                          Text(modelPipe'), Text(sHold'))
<1>1. parsePipe' \in Seq(Messages) /\ pumpPipe' \in Seq(Messages) /\ modelPipe' \in Seq(Messages)
      /\ sHold' \in Held /\ pHold' \in Held /\ tHold' \in Held
  BY DEF StreamTypeOK, Held
<1>2. sHold' \in Seq(Messages) /\ pHold' \in Seq(Messages) /\ tHold' \in Seq(Messages)
  BY <1>1, HeldIs
<1> QED BY <1>1, <1>2, TextOfFlow DEF UnderWay

LEMMA WordsOfState ==
  ASSUME StreamTypeOK
  PROVE  /\ Text(parsePipe) \in Words /\ Text(tHold) \in Words /\ Text(pumpPipe) \in Words
         /\ Text(pHold) \in Words /\ Text(modelPipe) \in Words /\ Text(sHold) \in Words
         /\ UnderWay \in Words /\ Text(got) \in Words /\ <<>> \in Words
<1>1. /\ Text(parsePipe) \in Words /\ Text(tHold) \in Words /\ Text(pumpPipe) \in Words
      /\ Text(pHold) \in Words /\ Text(modelPipe) \in Words /\ Text(sHold) \in Words
  BY FlowOfState, TextIs
<1>2. UnderWay \in Words
  BY <1>1, FlowOfState, FlowEnds
<1>3. Text(got) \in Words
  BY TextIs DEF StreamTypeOK
<1> QED BY <1>1, <1>2, <1>3, EmptySeq DEF Words

LEMMA FirstAndRest ==
  ASSUME NEW s \in Seq(Messages), s # <<>>
  PROVE  /\ Head(s) \in Messages /\ Tail(s) \in Seq(Messages)
         /\ <<Head(s)>> \in Seq(Messages)
         /\ Text(s) = Then(Text(<<Head(s)>>), Text(Tail(s)))
         /\ Text(<<Head(s)>>) \in Words /\ Text(Tail(s)) \in Words
<1>1. Head(s) \in Messages /\ Tail(s) \in Seq(Messages) /\ <<Head(s)>> \in Seq(Messages)
      /\ Len(Tail(s)) = Len(s) - 1 /\ \A i \in 1..Len(Tail(s)) : Tail(s)[i] = s[i + 1]
  BY HeadTailProperties
<1>2. s = <<Head(s)>> \o Tail(s)
  BY <1>1
<1>3. Text(<<Head(s)>> \o Tail(s)) = Then(Text(<<Head(s)>>), Text(Tail(s)))
  BY <1>1, TextIs DEF Then
<1> QED BY <1>1, <1>2, <1>3, TextIs

LEMMA PassOnText ==
  ASSUME NEW x \in Messages
  PROVE  Text(<<PassOn(x)>>) = Text(<<x>>)
<1>1. PassOn(x) \in Messages /\ (PassOn(x) > 0 <=> x > 0) /\ (x > 0 => PassOn(x) = x)
  BY HeldIs DEF PassOn, Empty, ToolCalls
<1> QED BY <1>1, TextIs

LEMMA HeldText ==
  ASSUME NEW h \in Held
  PROVE  Text(h) = <<>> \/ \E w \in 1..Pieces : Text(h) = <<w>>
<1>1. h = <<>> \/ \E x \in Messages : h = <<x>>
  BY DEF Held, Nothing
<1>2. ASSUME NEW x \in Messages, x > 0 PROVE x \in 1..Pieces
  BY <1>2, ModelStreamAssumption DEF Messages
<1> QED BY <1>1, <1>2, TextIs

LEMMA TextByScanner ==
  ASSUME Staged, StreamTypeOK', Scanner
  PROVE  TextStep
<1>0. StreamTypeOK /\ Stages /\ Text(Nothing) = <<>> /\ ToolCalls \in Messages /\ Empty \in Messages
      /\ ~(ToolCalls > 0) /\ ~(Empty > 0)
  BY HeldIs, TextIs DEF Staged, Nothing, Empty, ToolCalls
<1>1. OnlyScanner => parsePipe' = parsePipe /\ tHold' = tHold /\ pumpPipe' = pumpPipe
                     /\ pHold' = pHold /\ got' = got /\ rpc' = rpc
  BY DEF OnlyScanner, pump, parser, readers
<1>20. /\ Text(parsePipe) \in Words /\ Text(tHold) \in Words /\ Text(pumpPipe) \in Words
      /\ Text(pHold) \in Words /\ Text(modelPipe) \in Words /\ Text(sHold) \in Words
  BY <1>0, WordsOfState
<1>9. UnderWay \in Words /\ Text(got) \in Words /\ <<>> \in Words
  BY <1>0, WordsOfState
<1> DEFINE F(m, s) == Flow(Text(parsePipe), Text(tHold), Text(pumpPipe), Text(pHold), m, s)
<1>2. UnderWay = F(Text(modelPipe), Text(sHold))
  BY <1>0, FlowOfState
<1>3. OnlyScanner => UnderWay' = F(Text(modelPipe'), Text(sHold'))
  BY <1>1, FlowOfNext
<1> HIDE DEF F
<1>4. CASE ScanText
  <2>1. sHold = Nothing /\ sHold' = <<made + 1>> /\ modelPipe' = modelPipe /\ got' = got
        /\ spc = "scan" /\ made < Pieces /\ made' = made + 1 /\ OnlyScanner
        /\ finish' = finish /\ rpc' = rpc
    BY <1>0, <1>1, <1>4 DEF ScanText, Stages, ScannerStage
  <2>2. made + 1 \in Messages /\ made + 1 > 0 /\ made + 1 \in 1..Pieces
    BY <1>0, <2>1, ModelStreamAssumption DEF StreamTypeOK, Messages
  <2>3. Text(sHold) = <<>> /\ Text(sHold') = <<made + 1>>
    BY <1>0, <2>1, <2>2, TextIs
  <2>4. <<made + 1>> \in Words
    BY <2>2 DEF Words
  <2>5. F(Text(modelPipe), <<made + 1>>) = Then(F(Text(modelPipe), <<>>), <<made + 1>>)
    <3> DEFINE w == <<made + 1>>
    <3>1. w \in Words
      BY <2>4
    <3> HIDE DEF w
    <3>2. F(Text(modelPipe), w) = Then(F(Text(modelPipe), <<>>), w)
      <4> DEFINE p == Text(parsePipe)
                 t == Text(tHold)
                 q == Text(pumpPipe)
                 h == Text(pHold)
                 m == Text(modelPipe)
      <4>1. p \in Words /\ t \in Words /\ q \in Words /\ h \in Words /\ m \in Words
        BY <1>20
      <4> HIDE DEF p, t, q, h, m
      <4>2. Flow(p, t, q, h, m, w) = Then(Flow(p, t, q, h, m, <<>>), w)
        BY <3>1, <4>1, FlowLast
      <4> QED BY <4>2 DEF F, p, t, q, h, m
    <3> QED BY <3>2 DEF w
  <2>6. UnderWay' = UnderWay \o <<made + 1>>
    <3>1. UnderWay' = F(Text(modelPipe), <<made + 1>>)
      BY <1>3, <2>1, <2>3
    <3>2. UnderWay = F(Text(modelPipe), <<>>)
      BY <1>2, <2>3
    <3> QED BY <3>1, <3>2, <2>5 DEF Then
  <2>7. UnderWay' = Append(UnderWay, made + 1)
    BY <1>9, <2>2, <2>6, AppendIsConcat DEF Words
  <2> QED BY <2>1, <2>7 DEF TextStep, Added
<1>5. CASE ScanToolCalls
  <2>1. sHold = Nothing /\ sHold' = <<ToolCalls>> /\ modelPipe' = modelPipe /\ made' = made
        /\ OnlyScanner
    BY <1>0, <1>5 DEF ScanToolCalls, Stages, ScannerStage
  <2>2. Text(sHold) = <<>> /\ Text(sHold') = <<>>
    BY <1>0, <2>1, TextIs
  <2> QED BY <1>1, <1>2, <1>3, <2>1, <2>2 DEF TextStep, Kept
<1>6. ASSUME NEW how \in {"done", "cut"}, ScanEnds(how) PROVE TextStep
  <2>1. sHold = Nothing /\ sHold' \in {Nothing, <<Empty>>} /\ modelPipe' = modelPipe /\ made' = made
        /\ OnlyScanner
    BY <1>0, <1>6 DEF ScanEnds, Stages, ScannerStage
  <2>2. Text(sHold) = <<>> /\ Text(sHold') = <<>>
    BY <1>0, <2>1, TextIs
  <2> QED BY <1>1, <1>2, <1>3, <2>1, <2>2 DEF TextStep, Kept
<1>7. CASE ScannerSends
  <2>1. modelPipe' = modelPipe \o sHold /\ sHold' = Nothing /\ made' = made /\ OnlyScanner
    BY <1>7 DEF ScannerSends
  <2>2. Text(modelPipe') = Then(Text(modelPipe), Text(sHold)) /\ Text(sHold') = <<>>
    BY <1>0, <2>1, FlowOfState, TextIs DEF Then
  <2>3. F(Then(Text(modelPipe), Text(sHold)), <<>>) = F(Text(modelPipe), Text(sHold))
    BY <1>20, MovesSM DEF F
  <2> QED BY <1>1, <1>2, <1>3, <2>1, <2>2, <2>3 DEF TextStep, Kept
<1>8. CASE ScannerCloses
  <2>1. modelPipe' = modelPipe /\ sHold' = sHold /\ made' = made /\ OnlyScanner
    BY <1>8 DEF ScannerCloses
  <2> QED BY <1>1, <1>2, <1>3, <2>1 DEF TextStep, Kept
<1> QED BY <1>4, <1>5, <1>6, <1>7, <1>8 DEF Scanner

(* The one message that a goroutine holds is dropped or has no text.       *)
LEMMA DropHeld ==
  ASSUME StreamTypeOK, parseReaderClosed, made' = made, got' = got, finish' = finish,
         rpc' = rpc, NEW h \in Held,
         Around(UnderWay, UnderWay', Text(h))
  PROVE  TextStep
<1>1. PICK a \in Words, b \in Words : UnderWay = Then(Then(a, Text(h)), b) /\ UnderWay' = Then(a, b)
  BY DEF Around
<1>2. CASE Text(h) = <<>>
  <2>1. Then(a, <<>>) = a
    BY Cat
  <2> QED BY <1>1, <1>2, <2>1 DEF TextStep, Kept
<1>3. ASSUME NEW w \in 1..Pieces, Text(h) = <<w>> PROVE TextStep
  <2>1. \E i \in DOMAIN UnderWay : UnderWay' = Without(UnderWay, i)
    BY <1>1, <1>3, WordDropped
  <2> QED BY <2>1 DEF TextStep, Dropped
<1> QED BY <1>2, <1>3, HeldText

LEMMA TextByPump ==
  ASSUME Staged, StreamTypeOK', Pump
  PROVE  TextStep
<1>0. StreamTypeOK /\ Stages /\ Text(Nothing) = <<>>
  BY TextIs DEF Staged, Nothing
<1>1. OnlyPump => parsePipe' = parsePipe /\ tHold' = tHold /\ sHold' = sHold
                     /\ got' = got /\ made' = made /\ finish' = finish /\ rpc' = rpc
  BY DEF OnlyPump, scanner, parser, readers
<1>20. /\ Text(parsePipe) \in Words /\ Text(tHold) \in Words /\ Text(pumpPipe) \in Words
      /\ Text(pHold) \in Words /\ Text(modelPipe) \in Words /\ Text(sHold) \in Words
  BY <1>0, WordsOfState
<1>9. UnderWay \in Words /\ Text(got) \in Words /\ <<>> \in Words
  BY <1>0, WordsOfState
<1> DEFINE F(q, h, m) == Flow(Text(parsePipe), Text(tHold), q, h, m, Text(sHold))
<1>2. UnderWay = F(Text(pumpPipe), Text(pHold), Text(modelPipe))
  BY <1>0, FlowOfState
<1>3. OnlyPump => UnderWay' = F(Text(pumpPipe'), Text(pHold'), Text(modelPipe'))
  BY <1>1, FlowOfNext
<1> HIDE DEF F
<1>4. CASE PumpReceives
  <2>1. pHold = Nothing /\ pHold' = <<Head(modelPipe)>> /\ modelPipe' = Tail(modelPipe)
        /\ pumpPipe' = pumpPipe /\ modelPipe # <<>> /\ OnlyPump
    BY <1>0, <1>4 DEF PumpReceives, Stages, PumpStage
  <2>2. Text(modelPipe) = Then(Text(pHold'), Text(modelPipe')) /\ Text(pHold) = <<>>
        /\ Text(pHold') \in Words /\ Text(modelPipe') \in Words
    BY <1>0, <2>1, FlowOfState, FirstAndRest
  <2>5. Text(parsePipe) \in Words /\ Text(tHold) \in Words /\ Text(pumpPipe) \in Words
        /\ Text(pHold') \in Words /\ Text(modelPipe') \in Words /\ Text(sHold) \in Words
    BY <1>20, <2>2
  <2>3. F(Text(pumpPipe), Text(pHold'), Text(modelPipe'))
          = F(Text(pumpPipe), <<>>, Then(Text(pHold'), Text(modelPipe')))
    BY <2>5, MovesMH DEF F
  <2> QED BY <1>1, <1>2, <1>3, <2>1, <2>2, <2>3 DEF TextStep, Kept
<1>5. CASE PumpSends
  <2>1. pumpPipe' = pumpPipe \o pHold /\ pHold' = Nothing /\ modelPipe' = modelPipe /\ OnlyPump
    BY <1>5 DEF PumpSends
  <2>2. Text(pumpPipe') = Then(Text(pumpPipe), Text(pHold)) /\ Text(pHold') = <<>>
    BY <1>0, <2>1, FlowOfState, TextIs DEF Then
  <2>3. F(Then(Text(pumpPipe), Text(pHold)), <<>>, Text(modelPipe))
          = F(Text(pumpPipe), Text(pHold), Text(modelPipe))
    BY <1>20, MovesHQ DEF F
  <2> QED BY <1>1, <1>2, <1>3, <2>1, <2>2, <2>3 DEF TextStep, Kept
<1>6. CASE PumpGivesUp
  <2>1. pHold' = Nothing /\ pumpPipe' = pumpPipe /\ modelPipe' = modelPipe /\ OnlyPump
        /\ parseReaderClosed
    BY <1>0, <1>6 DEF PumpGivesUp, Stages, ParserStage
  <2>2. Around(F(Text(pumpPipe), Text(pHold), Text(modelPipe)),
               F(Text(pumpPipe), <<>>, Text(modelPipe)), Text(pHold))
    BY <1>20, AroundH DEF F
  <2>3. Around(UnderWay, UnderWay', Text(pHold))
    BY <1>0, <1>2, <1>3, <2>1, <2>2
  <2> QED BY <1>0, <1>1, <2>1, <2>3, FlowOfState, DropHeld
<1>7. CASE PumpSeesEnd \/ PumpCloses \/ PumpReleases
  <2>1. modelPipe' = modelPipe /\ pHold' = pHold /\ pumpPipe' = pumpPipe /\ OnlyPump
    BY <1>7 DEF PumpSeesEnd, PumpCloses, PumpReleases
  <2> QED BY <1>1, <1>2, <1>3, <2>1 DEF TextStep, Kept
<1> QED BY <1>4, <1>5, <1>6, <1>7 DEF Pump

LEMMA TextByParser ==
  ASSUME Staged, StreamTypeOK', Parser
  PROVE  TextStep
<1>0. StreamTypeOK /\ Stages /\ Text(Nothing) = <<>> /\ Text(<<ToolCalls>>) = <<>>
  <2>1. ToolCalls \in Messages /\ ~(ToolCalls > 0)
    BY HeldIs DEF ToolCalls
  <2> QED BY <2>1, TextIs DEF Staged, Nothing
<1>1. OnlyParser => modelPipe' = modelPipe /\ pHold' = pHold /\ sHold' = sHold
                     /\ got' = got /\ made' = made /\ finish' = finish /\ rpc' = rpc
  BY DEF OnlyParser, scanner, pump, readers
<1>20. /\ Text(parsePipe) \in Words /\ Text(tHold) \in Words /\ Text(pumpPipe) \in Words
      /\ Text(pHold) \in Words /\ Text(modelPipe) \in Words /\ Text(sHold) \in Words
  BY <1>0, WordsOfState
<1>9. UnderWay \in Words /\ Text(got) \in Words /\ <<>> \in Words
  BY <1>0, WordsOfState
<1> DEFINE F(p, t, q) == Flow(p, t, q, Text(pHold), Text(modelPipe), Text(sHold))
<1>2. UnderWay = F(Text(parsePipe), Text(tHold), Text(pumpPipe))
  BY <1>0, FlowOfState
<1>3. OnlyParser => UnderWay' = F(Text(parsePipe'), Text(tHold'), Text(pumpPipe'))
  BY <1>1, FlowOfNext
<1> HIDE DEF F
<1>4. CASE ParserReceives
  <2>1. tHold = Nothing /\ tHold' = <<PassOn(Head(pumpPipe))>> /\ pumpPipe' = Tail(pumpPipe)
        /\ parsePipe' = parsePipe /\ pumpPipe # <<>> /\ OnlyParser
    BY <1>0, <1>4 DEF ParserReceives, Stages, ParserStage
  <2>2. /\ Text(pumpPipe) = Then(Text(<<Head(pumpPipe)>>), Text(pumpPipe')) /\ Text(tHold) = <<>>
        /\ Text(<<Head(pumpPipe)>>) \in Words /\ Text(pumpPipe') \in Words
        /\ Head(pumpPipe) \in Messages
    BY <1>0, <2>1, FlowOfState, FirstAndRest
  <2>3. Text(tHold') = Text(<<Head(pumpPipe)>>)
    BY <2>1, <2>2, PassOnText
  <2>5. Text(parsePipe) \in Words /\ Text(tHold') \in Words /\ Text(pumpPipe') \in Words
        /\ Text(pHold) \in Words /\ Text(modelPipe) \in Words /\ Text(sHold) \in Words
    BY <1>20, <2>2, <2>3
  <2>4. F(Text(parsePipe), Text(tHold'), Text(pumpPipe'))
          = F(Text(parsePipe), <<>>, Then(Text(tHold'), Text(pumpPipe')))
    BY <2>5, MovesQT DEF F
  <2> QED BY <1>1, <1>2, <1>3, <2>1, <2>2, <2>3, <2>4 DEF TextStep, Kept
<1>5. CASE ParserSeesEnd
  <2>1. tHold = Nothing /\ tHold' \in {Nothing, <<ToolCalls>>} /\ pumpPipe' = pumpPipe
        /\ parsePipe' = parsePipe /\ OnlyParser
    BY <1>0, <1>5 DEF ParserSeesEnd, Stages, ParserStage
  <2>2. Text(tHold) = <<>> /\ Text(tHold') = <<>>
    BY <1>0, <2>1
  <2> QED BY <1>1, <1>2, <1>3, <2>1, <2>2 DEF TextStep, Kept
<1>6. CASE ParserSends
  <2>1. parsePipe' = parsePipe \o tHold /\ tHold' = Nothing /\ pumpPipe' = pumpPipe /\ OnlyParser
    BY <1>6 DEF ParserSends
  <2>2. Text(parsePipe') = Then(Text(parsePipe), Text(tHold)) /\ Text(tHold') = <<>>
    BY <1>0, <2>1, FlowOfState, TextIs DEF Then
  <2>3. F(Then(Text(parsePipe), Text(tHold)), <<>>, Text(pumpPipe))
          = F(Text(parsePipe), Text(tHold), Text(pumpPipe))
    BY <1>20, MovesTP DEF F
  <2> QED BY <1>1, <1>2, <1>3, <2>1, <2>2, <2>3 DEF TextStep, Kept
<1>7. CASE ParserGivesUp
  <2>1. tHold' = Nothing /\ pumpPipe' = pumpPipe /\ parsePipe' = parsePipe /\ OnlyParser
        /\ parseReaderClosed
    BY <1>7 DEF ParserGivesUp
  <2>2. Around(F(Text(parsePipe), Text(tHold), Text(pumpPipe)),
               F(Text(parsePipe), <<>>, Text(pumpPipe)), Text(tHold))
    BY <1>20, AroundT DEF F
  <2>3. Around(UnderWay, UnderWay', Text(tHold))
    BY <1>0, <1>2, <1>3, <2>1, <2>2
  <2> QED BY <1>0, <1>1, <2>1, <2>3, FlowOfState, DropHeld
<1>8. CASE ParserCloses
  <2>1. parsePipe' = parsePipe /\ tHold' = tHold /\ pumpPipe' = pumpPipe /\ OnlyParser
    BY <1>8 DEF ParserCloses
  <2> QED BY <1>1, <1>2, <1>3, <2>1 DEF TextStep, Kept
<1> QED BY <1>4, <1>5, <1>6, <1>7, <1>8 DEF Parser

LEMMA TextByReader ==
  ASSUME Staged, StreamTypeOK', Reader \/ ReaderLeaves \/ ContextEnds \/ UNCHANGED streamVars
  PROVE  TextStep
<1>0. StreamTypeOK
  BY DEF Staged
<1>20. /\ Text(parsePipe) \in Words /\ Text(tHold) \in Words /\ Text(pumpPipe) \in Words
      /\ Text(pHold) \in Words /\ Text(modelPipe) \in Words /\ Text(sHold) \in Words
  BY <1>0, WordsOfState
<1>9. UnderWay \in Words /\ Text(got) \in Words /\ <<>> \in Words
  BY <1>0, WordsOfState
<1> DEFINE F(p) == Flow(p, Text(tHold), Text(pumpPipe), Text(pHold), Text(modelPipe), Text(sHold))
           Still == UNCHANGED <<tHold, pumpPipe, pHold, modelPipe, sHold, made>>
<1>1. UnderWay = F(Text(parsePipe))
  BY <1>0, FlowOfState
<1>2. Still /\ UnderWay' = F(Text(parsePipe'))
  <2>1. Still
    BY DEF Reader, ReaderReceives, ReaderSeesEnd, ReaderLeaves, ContextEnds, OnlyReader, streamVars,
           scanner, pump, parser
  <2> QED BY <2>1, FlowOfNext
<1> HIDE DEF F
<1>3. CASE ReaderReceives
  <2>1. got' = Append(got, Head(parsePipe)) /\ parsePipe' = Tail(parsePipe) /\ parsePipe # <<>>
        /\ rpc = "recv" /\ got \in Seq(Messages) /\ finish' = finish /\ rpc' = rpc
    BY <1>0, <1>3 DEF ReaderReceives, StreamTypeOK, OnlyReader, scanner
  <2> DEFINE x == Head(parsePipe)
  <2>2. /\ Text(parsePipe) = Then(Text(<<x>>), Text(parsePipe')) /\ x \in Messages
        /\ Text(<<x>>) \in Words /\ Text(parsePipe') \in Words
    BY <1>0, <2>1, FlowOfState, FirstAndRest
  <2>9. Text(parsePipe') \in Words /\ Text(tHold) \in Words /\ Text(pumpPipe) \in Words
        /\ Text(pHold) \in Words /\ Text(modelPipe) \in Words /\ Text(sHold) \in Words
    BY <1>20, <2>2
  <2> DEFINE r == After(Text(tHold), Text(pumpPipe), Text(pHold), Text(modelPipe), Text(sHold))
  <2>10. r \in Words
    BY <1>20, AfterIsWords
  <2>3. F(Text(parsePipe)) = Then(Text(<<x>>), F(Text(parsePipe')))
    <3>1. F(Text(parsePipe)) = Then(Text(parsePipe), r)
      BY <1>20, FlowFirst DEF F
    <3>3. F(Text(parsePipe')) = Then(Text(parsePipe'), r)
      BY <2>9, FlowFirst DEF F
    <3> HIDE DEF r
    <3>2. Then(Then(Text(<<x>>), Text(parsePipe')), r) = Then(Text(<<x>>), Then(Text(parsePipe'), r))
      BY <2>2, <2>10, Regroup
    <3> QED BY <2>2, <3>1, <3>2, <3>3
  <2>11. F(Text(parsePipe')) \in Words
    BY <2>9, FlowIsWords DEF F
  <2>4. UnderWay = Then(Text(<<x>>), UnderWay') /\ F(Text(parsePipe')) \in Words
    BY <1>1, <1>2, <2>2, <2>3, <2>11
  <2> HIDE DEF x
  <2>5. Text(got') = IF x > 0 THEN Append(Text(got), x) ELSE Text(got)
    BY <2>1, <2>2, TextIs DEF x
  <2>6. CASE x > 0
    <3>1. x \in 1..Pieces
      BY <2>2, <2>6, ModelStreamAssumption DEF Messages
    <3>2. UnderWay = <<x>> \o UnderWay'
      BY <2>2, <2>4, <2>6, TextIs DEF Then
    <3> QED BY <1>2, <2>1, <2>5, <2>6, <3>1, <3>2 DEF TextStep, Delivery, Delivered
  <2>7. CASE ~(x > 0)
    <3>1. Text(<<x>>) = <<>>
      BY <2>2, <2>7, TextIs
    <3>2. UnderWay' = UnderWay
      BY <1>2, <2>4, <3>1, Cat
    <3> QED BY <1>2, <2>5, <2>7, <3>2 DEF TextStep, Kept
  <2> QED BY <2>6, <2>7
<1>4. CASE ReaderSeesEnd \/ ReaderLeaves \/ ContextEnds \/ UNCHANGED streamVars
  <2>1. parsePipe' = parsePipe /\ got' = got
    BY <1>4 DEF ReaderSeesEnd, ReaderLeaves, ContextEnds, streamVars, readers
  <2> QED BY <1>1, <1>2, <2>1 DEF TextStep, Kept
<1> QED BY <1>3, <1>4 DEF Reader

LEMMA TextMoves ==
  ASSUME Staged, StreamTypeOK', [StreamNext]_streamVars
  PROVE  TextStep
  BY TextByScanner, TextByPump, TextByParser, TextByReader DEF StreamNext


-----------------------------------------------------------------------------
(* Until the reader closes, what it received and what is under way are all *)
(* the pieces scanned, in their order.                                     *)
Numbers(n) == [i \in 1..n |-> i]
InOrder == parseReaderClosed \/ Then(Text(got), UnderWay) = Numbers(made)

LEMMA NumbersAre ==
  ASSUME NEW n \in Nat
  PROVE  /\ Numbers(n) \in Seq(Int) /\ Len(Numbers(n)) = n
         /\ \A i \in 1..n : Numbers(n)[i] = i
         /\ Numbers(n + 1) = Append(Numbers(n), n + 1)
<1>1. \A k \in Nat : Numbers(k) \in Seq(Int) /\ Len(Numbers(k)) = k /\ \A i \in 1..k : Numbers(k)[i] = i
  BY DEF Numbers
<1>2. n + 1 \in Nat /\ n + 1 \in Int
  OBVIOUS
<1> DEFINE a == Append(Numbers(n), n + 1)
           b == Numbers(n + 1)
<1>3. a \in Seq(Int) /\ Len(a) = n + 1 /\ \A i \in 1..(n + 1) : a[i] = i
  <2>1. /\ a \in Seq(Int) /\ Len(a) = Len(Numbers(n)) + 1
        /\ \A i \in 1..Len(Numbers(n)) : a[i] = Numbers(n)[i]
        /\ a[Len(Numbers(n)) + 1] = n + 1
    BY <1>1, <1>2, AppendProperties
  <2> HIDE DEF a
  <2>2. Len(a) = n + 1 /\ a[n + 1] = n + 1 /\ \A i \in 1..n : a[i] = i
    BY <1>1, <2>1
  <2>3. ASSUME NEW i \in 1..(n + 1) PROVE a[i] = i
    <3>1. i = n + 1 \/ i \in 1..n
      OBVIOUS
    <3> QED BY <3>1, <2>2
  <2> QED BY <2>1, <2>2, <2>3
<1>4. b \in Seq(Int) /\ Len(b) = n + 1 /\ \A i \in 1..(n + 1) : b[i] = i
  BY <1>1, <1>2
<1> HIDE DEF a, b
<1>5. a = b
  BY <1>3, <1>4, SeqEqual
<1> QED BY <1>1, <1>5 DEF a, b

LEMMA OrderKept ==
  ASSUME Staged, Staged', TextStep, InOrder, parseReaderClosed => parseReaderClosed'
  PROVE  InOrder'
<1>0. /\ Text(got) \in Words /\ UnderWay \in Words /\ made \in Nat
      /\ UnderWay' \in Words
      /\ parseReaderClosed' \/ ~parseReaderClosed
  <2>1. StreamTypeOK /\ StreamTypeOK'
    BY DEF Staged
  <2>2. Text(got) \in Words /\ UnderWay \in Words
    BY <2>1, WordsOfState
  <2>3. UnderWay' \in Words
    <3>1. /\ Text(parsePipe') \in Words /\ Text(tHold') \in Words /\ Text(pumpPipe') \in Words
          /\ Text(pHold') \in Words /\ Text(modelPipe') \in Words /\ Text(sHold') \in Words
      BY <2>1, NextIsTyped, TextIs
    <3> QED BY <2>1, <3>1, FlowOfNext, FlowIsWords
  <2> QED BY <2>1, <2>2, <2>3, ModelStreamAssumption DEF StreamTypeOK
<1>1. SUFFICES ASSUME ~parseReaderClosed, Then(Text(got), UnderWay) = Numbers(made)
               PROVE  Then(Text(got)', UnderWay') = Numbers(made')
  BY <1>0 DEF InOrder
<1>2. CASE Kept
  BY <1>1, <1>2 DEF Kept
<1>3. CASE Added
  <2> DEFINE e == <<made + 1>>
  <2>1. made + 1 \in 1..Pieces /\ e \in Words
    BY <1>0, <1>3, ModelStreamAssumption DEF Added, Words
  <2>2. UnderWay' = Then(UnderWay, e)
    BY <1>0, <1>3, <2>1, AppendIsConcat DEF Added, Then, Words
  <2> HIDE DEF e
  <2>3. Then(Text(got), Then(UnderWay, e)) = Then(Then(Text(got), UnderWay), e)
    BY <1>0, <2>1, Regroup
  <2>4. Then(Numbers(made), e) = Append(Numbers(made), made + 1)
    BY <1>0, NumbersAre, AppendIsConcat DEF Then, e
  <2>5. Numbers(made + 1) = Append(Numbers(made), made + 1)
    BY <1>0, NumbersAre
  <2> QED BY <1>1, <1>3, <2>2, <2>3, <2>4, <2>5 DEF Added
<1>4. CASE Dropped
  BY <1>1, <1>4 DEF Dropped
<1>5. CASE Delivery
  <2>1. PICK w \in 1..Pieces : Delivered(w)
    BY <1>5 DEF Delivery
  <2> DEFINE e == <<w>>
  <2>2. e \in Words
    BY DEF Words
  <2>3. UnderWay = Then(e, UnderWay') /\ Text(got)' = Then(Text(got), e)
    <3>1. Append(Text(got), w) = Text(got) \o <<w>>
      BY <1>0, AppendIsConcat DEF Words
    <3> QED BY <2>1, <3>1 DEF Delivered, Then
  <2> HIDE DEF e
  <2>4. Then(Then(Text(got), e), UnderWay') = Then(Text(got), Then(e, UnderWay'))
    BY <1>0, <2>2, Regroup
  <2> QED BY <1>1, <1>5, <2>3, <2>4 DEF Delivery
<1> QED BY <1>2, <1>3, <1>4, <1>5 DEF TextStep

-----------------------------------------------------------------------------
(* The message with the tool calls.                                        *)
Has(s) == \E i \in DOMAIN s : s[i] = ToolCalls

LEMMA HasIs ==
  /\ ~Has(Nothing) /\ \A x \in Messages : Has(<<x>>) <=> x = ToolCalls
  /\ \A a, b \in Seq(Messages) : Has(a \o b) <=> Has(a) \/ Has(b)
  /\ \A s \in Seq(Messages) :
       s # <<>> => (Has(s) <=> Has(<<Head(s)>>) \/ Has(Tail(s)))
<1>1. ~Has(Nothing)
  BY DEF Has, Nothing
<1>2. \A x \in Messages : Has(<<x>>) <=> x = ToolCalls
  <2>1. \A x \in Messages : <<x>> \in Seq(Messages) /\ Len(<<x>>) = 1 /\ <<x>>[1] = x
                            /\ DOMAIN <<x>> = 1..1
    OBVIOUS
  <2> QED BY <2>1 DEF Has
<1>3. ASSUME NEW a \in Seq(Messages), NEW b \in Seq(Messages)
      PROVE  Has(a \o b) <=> Has(a) \/ Has(b)
  <2> DEFINE n == Len(a)
             m == Len(b)
             c == a \o b
  <2>1. n \in Nat /\ m \in Nat /\ DOMAIN a = 1..n /\ DOMAIN b = 1..m
    BY LenProperties
  <2>2. DOMAIN c = 1..(n + m) /\ \A i \in 1..(n + m) : c[i] = IF i <= n THEN a[i] ELSE b[i - n]
    BY ConcatProperties, LenProperties
  <2> HIDE DEF n, m, c
  <2>3. ASSUME Has(c) PROVE Has(a) \/ Has(b)
    <3>1. PICK i \in 1..(n + m) : c[i] = ToolCalls
      BY <2>2, <2>3 DEF Has
    <3>2. CASE i <= n
      <4>1. i \in 1..n /\ a[i] = ToolCalls
        BY <2>1, <2>2, <3>1, <3>2
      <4> QED BY <2>1, <4>1 DEF Has
    <3>3. CASE ~(i <= n)
      <4>1. i - n \in 1..m /\ b[i - n] = ToolCalls
        BY <2>1, <2>2, <3>1, <3>3
      <4> QED BY <2>1, <4>1 DEF Has
    <3> QED BY <3>2, <3>3
  <2>4. ASSUME Has(a) PROVE Has(c)
    <3>1. PICK i \in 1..n : a[i] = ToolCalls
      BY <2>1, <2>4 DEF Has
    <3>2. i \in 1..(n + m) /\ c[i] = ToolCalls
      BY <2>1, <2>2, <3>1
    <3> QED BY <2>2, <3>2 DEF Has
  <2>5. ASSUME Has(b) PROVE Has(c)
    <3>1. PICK i \in 1..m : b[i] = ToolCalls
      BY <2>1, <2>5 DEF Has
    <3> DEFINE k == n + i
    <3>2. k \in 1..(n + m) /\ ~(k <= n) /\ k - n = i
      BY <2>1
    <3> HIDE DEF k
    <3>3. c[k] = ToolCalls
      BY <2>2, <3>1, <3>2
    <3> QED BY <2>2, <3>2, <3>3 DEF Has
  <2> QED BY <2>3, <2>4, <2>5 DEF c
<1>4. ASSUME NEW s \in Seq(Messages), s # <<>>
      PROVE  Has(s) <=> Has(<<Head(s)>>) \/ Has(Tail(s))
  <2>1. Tail(s) \in Seq(Messages) /\ <<Head(s)>> \in Seq(Messages)
        /\ Head(s) \in Messages
    BY <1>4, HeadTailProperties
  <2>2. s = <<Head(s)>> \o Tail(s)
    BY <1>4
  <2>3. Has(<<Head(s)>> \o Tail(s)) <=> Has(<<Head(s)>>) \/ Has(Tail(s))
    BY <2>1, <1>3
  <2> QED BY <2>2, <2>3
<1> QED BY <1>1, <1>2, <1>3, <1>4

(* Where the tool calls can be.                                            *)
Upstream == Has(sHold) \/ Has(modelPipe) \/ Has(pHold) \/ Has(pumpPipe)
Onward   == seen \/ Has(tHold) \/ Has(parsePipe)

(* Nobody passes on tool calls that were not scanned, and while the reader *)
(* is there those that were scanned are somewhere.                         *)
CallsKnown ==
  /\ Upstream \/ Onward => toolCalls
  /\ toolCalls => seen \/ Upstream \/ parseReaderClosed

(* The message with the tool calls is the last on its way to the reader.   *)
CallsLast ==
  /\ \A i \in DOMAIN got :
       got[i] = ToolCalls => /\ i = Len(got) /\ toolCalls /\ spc = "done"
                             /\ Len(Text(got)) = made
  /\ \/ parseReaderClosed
     \/ /\ Has(parsePipe) \/ Has(got) => tpc \in {"close", "done"}
        /\ Has(got) => parsePipe = <<>>
        /\ \A i \in DOMAIN parsePipe : parsePipe[i] = ToolCalls => i = Len(parsePipe)

(* And it is there once parse_tool_calls has finished.                     *)
CallsThere ==
  \/ parseReaderClosed
  \/ seen /\ tpc \in {"close", "done"} =>
       \/ parsePipe # <<>> /\ parsePipe[Len(parsePipe)] = ToolCalls
       \/ parsePipe = <<>> /\ got # <<>> /\ got[Len(got)] = ToolCalls

LEMMA CallsKnownKept ==
  ASSUME Staged, CallsKnown, [StreamNext]_streamVars
  PROVE  CallsKnown'
<1>0. /\ StreamTypeOK /\ Stages /\ ~Has(Nothing)
      /\ parsePipe \in Seq(Messages) /\ pumpPipe \in Seq(Messages) /\ modelPipe \in Seq(Messages)
      /\ sHold \in Seq(Messages) /\ pHold \in Seq(Messages) /\ tHold \in Seq(Messages)
      /\ ToolCalls \in Messages /\ Empty \in Messages /\ ToolCalls # Empty
      /\ (~toolCalls \/ toolCalls)
  <2>1. StreamTypeOK
    BY DEF Staged
  <2> QED BY <2>1, FlowOfState, HasIs, HeldIs DEF Staged, ToolCalls, Empty
<1>1. CASE ScanText
  <2>1. made + 1 \in Messages /\ made + 1 # ToolCalls
    BY <1>0, <1>1, ModelStreamAssumption DEF ScanText, StreamTypeOK, Messages, ToolCalls
  <2>2. ~Has(sHold') /\ sHold = Nothing
    BY <1>0, <1>1, <2>1, HasIs DEF ScanText, Stages, ScannerStage
  <2> QED BY <1>0, <1>1, <2>2 DEF ScanText, OnlyScanner, pump, parser, shut, CallsKnown, Upstream, Onward
<1>2. CASE ScanToolCalls
  <2>1. Has(sHold')
    BY <1>0, <1>2, HasIs DEF ScanToolCalls
  <2> QED BY <1>2, <2>1 DEF ScanToolCalls, CallsKnown, Upstream, Onward
<1>3. ASSUME NEW how \in {"done", "cut"}, ScanEnds(how) PROVE CallsKnown'
  <2>1. ~Has(sHold') /\ ~Has(sHold)
    BY <1>0, <1>3, HasIs DEF ScanEnds, Stages, ScannerStage
  <2> QED BY <1>3, <2>1 DEF ScanEnds, OnlyScanner, pump, parser, shut, CallsKnown, Upstream, Onward
<1>4. CASE ScannerSends
  <2>1. Has(modelPipe') <=> Has(modelPipe) \/ Has(sHold)
    BY <1>0, <1>4, HasIs DEF ScannerSends
  <2>2. ~Has(sHold')
    BY <1>0, <1>4 DEF ScannerSends
  <2> QED BY <1>4, <2>1, <2>2 DEF ScannerSends, OnlyScanner, pump, parser, shut, CallsKnown, Upstream, Onward
<1>5. CASE PumpReceives
  <2>1. Has(modelPipe) <=> Has(pHold') \/ Has(modelPipe')
    BY <1>0, <1>5, HasIs DEF PumpReceives
  <2>2. ~Has(pHold)
    BY <1>0, <1>5 DEF PumpReceives, Stages, PumpStage
  <2> QED BY <1>5, <2>1, <2>2 DEF PumpReceives, OnlyPump, scanner, parser, shut, CallsKnown, Upstream, Onward
<1>6. CASE PumpSends
  <2>1. Has(pumpPipe') <=> Has(pumpPipe) \/ Has(pHold)
    BY <1>0, <1>6, HasIs DEF PumpSends
  <2>2. ~Has(pHold')
    BY <1>0, <1>6 DEF PumpSends
  <2> QED BY <1>6, <2>1, <2>2 DEF PumpSends, OnlyPump, scanner, parser, shut, CallsKnown, Upstream, Onward
<1>7. CASE PumpGivesUp
  <2>1. ~Has(pHold') /\ parseReaderClosed
    BY <1>0, <1>7 DEF PumpGivesUp, Stages, ParserStage
  <2> QED BY <1>7, <2>1 DEF PumpGivesUp, OnlyPump, scanner, parser, shut, CallsKnown, Upstream, Onward
<1>8. CASE ParserReceives
  <2>1. /\ Has(pumpPipe) <=> Has(<<Head(pumpPipe)>>) \/ Has(pumpPipe')
        /\ Head(pumpPipe) \in Messages
    BY <1>0, <1>8, HasIs, HeadTailProperties DEF ParserReceives
  <2>2. Has(<<Head(pumpPipe)>>) <=> Head(pumpPipe) = ToolCalls
    BY <2>1, HasIs
  <2>3. ~Has(tHold')
    <3>1. PassOn(Head(pumpPipe)) \in Messages /\ PassOn(Head(pumpPipe)) # ToolCalls
      BY <1>0, <2>1 DEF PassOn
    <3> QED BY <1>8, <3>1, HasIs DEF ParserReceives
  <2> QED BY <1>8, <2>1, <2>2, <2>3 DEF ParserReceives, OnlyParser, scanner, pump, CallsKnown, Upstream, Onward
<1>9. CASE ParserSeesEnd
  <2>1. Has(tHold') => seen
    BY <1>0, <1>9 DEF ParserSeesEnd, Stages, ParserStage
  <2> QED BY <1>9, <2>1 DEF ParserSeesEnd, OnlyParser, scanner, pump, CallsKnown, Upstream, Onward
<1>10. CASE ParserSends
  <2>1. Has(parsePipe') <=> Has(parsePipe) \/ Has(tHold)
    BY <1>0, <1>10, HasIs DEF ParserSends
  <2>2. ~Has(tHold')
    BY <1>0, <1>10 DEF ParserSends
  <2> QED BY <1>10, <2>1, <2>2 DEF ParserSends, OnlyParser, scanner, pump, CallsKnown, Upstream, Onward
<1>11. CASE ParserGivesUp
  <2>1. ~Has(tHold')
    BY <1>0, <1>11 DEF ParserGivesUp
  <2> QED BY <1>11, <2>1 DEF ParserGivesUp, OnlyParser, scanner, pump, CallsKnown, Upstream, Onward
<1>12. CASE ReaderReceives
  <2>1. Has(parsePipe') => Has(parsePipe)
    BY <1>0, <1>12, HasIs DEF ReaderReceives
  <2> QED BY <1>12, <2>1 DEF ReaderReceives, OnlyReader, scanner, pump, parser, CallsKnown, Upstream, Onward
<1>13. CASE ScannerCloses \/ PumpSeesEnd \/ PumpCloses \/ PumpReleases \/ ParserCloses
            \/ ReaderSeesEnd \/ ReaderLeaves \/ ContextEnds \/ UNCHANGED streamVars
  <2>1. /\ UNCHANGED <<sHold, modelPipe, pHold, pumpPipe, tHold, parsePipe, seen, toolCalls>>
        /\ parseReaderClosed => parseReaderClosed'
    BY <1>13 DEF ScannerCloses, PumpSeesEnd, PumpCloses, PumpReleases, ParserCloses,
         ReaderSeesEnd, ReaderLeaves, ContextEnds, OnlyScanner, OnlyPump, OnlyParser, OnlyReader,
         scanner, pump, parser, readers, shut, streamVars
  <2> QED BY <2>1 DEF CallsKnown, Upstream, Onward
<1> QED BY <1>1, <1>2, <1>3, <1>4, <1>5, <1>6, <1>7, <1>8, <1>9, <1>10, <1>11, <1>12, <1>13
           DEF StreamNext, Scanner, Pump, Parser, Reader

LEMMA EveryoneDone ==
  ASSUME Staged, ~parseReaderClosed, tpc \in {"close", "done"}
  PROVE  /\ tHold = Nothing /\ pumpPipe = <<>> /\ pHold = Nothing /\ modelPipe = <<>>
         /\ sHold = Nothing /\ spc = "done"
  BY DEF Staged, Stages, ScannerStage, PumpStage, ParserStage

LEMMA AllReceived ==
  ASSUME Staged, InOrder, ~parseReaderClosed, tpc \in {"close", "done"}, Text(parsePipe) = <<>>
  PROVE  UnderWay = <<>> /\ Len(Text(got)) = made
<1>0. StreamTypeOK /\ made \in Nat
  BY ModelStreamAssumption DEF Staged, StreamTypeOK
<1>1. Text(Nothing) = <<>> /\ Then(<<>>, <<>>) = <<>> /\ <<>> \in Words
  BY TextIs, EmptySeq, Cat DEF Nothing, Words
<1>2. UnderWay = Flow(<<>>, <<>>, <<>>, <<>>, <<>>, <<>>)
  BY <1>0, <1>1, EveryoneDone, FlowOfState DEF Nothing
<1>3. UnderWay = <<>>
  BY <1>1, <1>2 DEF Flow
<1>4. Text(got) \in Words
  BY <1>0, WordsOfState
<1>5. Then(Text(got), <<>>) = Text(got)
  BY <1>1, <1>4, Cat
<1>6. Text(got) = Numbers(made)
  BY <1>3, <1>5 DEF InOrder
<1> QED BY <1>0, <1>3, <1>6, NumbersAre

LEMMA CallsLastKept ==
  ASSUME Staged, InOrder, CallsKnown, CallsLast, [StreamNext]_streamVars
  PROVE  CallsLast'
<1>0. /\ StreamTypeOK /\ Stages /\ got \in Seq(Messages)
      /\ parsePipe \in Seq(Messages) /\ tHold \in Seq(Messages) /\ tHold \in Held
      /\ ToolCalls \in Messages /\ ~(ToolCalls > 0)
      /\ (~toolCalls \/ toolCalls)
  <2>1. StreamTypeOK
    BY DEF Staged
  <2> QED BY <2>1, FlowOfState, HasIs, HeldIs DEF Staged, ToolCalls, StreamTypeOK
<1>1. CASE got' = got /\ parsePipe' = parsePipe
  <2>1. /\ spc = "done" => spc' = "done" /\ made' = made
        /\ toolCalls => toolCalls'
        /\ tpc \in {"close", "done"} => tpc' \in {"close", "done"}
        /\ parseReaderClosed => parseReaderClosed'
    BY DEF StreamNext, Scanner, ScanText, ScanToolCalls, ScanEnds, ScannerSends, ScannerCloses,
       ContextEnds, Pump, PumpReceives, PumpSeesEnd, PumpSends, PumpGivesUp, PumpCloses, PumpReleases,
       Parser, ParserReceives, ParserSeesEnd, ParserSends, ParserGivesUp, ParserCloses,
       Reader, ReaderReceives, ReaderSeesEnd, ReaderLeaves, OnlyScanner, OnlyPump, OnlyParser,
       OnlyReader, scanner, pump, parser, readers, shut, streamVars
  <2>2. Has(parsePipe)' = Has(parsePipe) /\ Has(got)' = Has(got)
    BY <1>1 DEF Has
  <2> QED BY <1>1, <2>1, <2>2 DEF CallsLast
<1>2. CASE ParserSends
  <2>1. /\ parsePipe' = parsePipe \o tHold /\ got' = got /\ UNCHANGED <<toolCalls, spc, made, parseReaderClosed>>
        /\ ~parseReaderClosed /\ tpc \notin {"close", "done"}
        /\ tpc' = IF tpc = "send" THEN "recv" ELSE "close"
    BY <1>2 DEF ParserSends, OnlyParser, scanner, readers
  <2>2. ~Has(parsePipe) /\ ~Has(got)
    BY <2>1 DEF CallsLast
  <2>3. PICK x \in Messages : tHold = <<x>>
    BY <1>0, <1>2 DEF ParserSends, Stages, ParserStage, Held
  <2>4. parsePipe' = Append(parsePipe, x)
    BY <1>0, <2>1, <2>3, AppendIsConcat
  <2>5. /\ DOMAIN parsePipe' = 1..Len(parsePipe') /\ Len(parsePipe') = Len(parsePipe) + 1
        /\ \A i \in 1..Len(parsePipe) : parsePipe'[i] = parsePipe[i]
        /\ parsePipe'[Len(parsePipe) + 1] = x
        /\ DOMAIN parsePipe = 1..Len(parsePipe) /\ Len(parsePipe) \in Nat
    BY <1>0, <2>4, AppendProperties, LenProperties
  <2>6. ASSUME NEW i \in DOMAIN parsePipe', parsePipe'[i] = ToolCalls
        PROVE  i = Len(parsePipe') /\ x = ToolCalls
    <3> DEFINE n == Len(parsePipe)
    <3>1. i \in 1..(n + 1) /\ n \in Nat
      BY <2>5
    <3> HIDE DEF n
    <3>2. i \in 1..n \/ i = n + 1
      BY <3>1
    <3>3. i \notin 1..n
      BY <2>2, <2>5, <2>6 DEF n, Has
    <3> QED BY <2>5, <2>6, <3>2, <3>3 DEF n
  <2>7. tpc = "send" => x # ToolCalls
    BY <1>0, <2>3 DEF Stages, ParserStage
  <2>8. Has(parsePipe)' => tpc' \in {"close", "done"}
    BY <1>2, <2>1, <2>6, <2>7 DEF Has, ParserSends
  <2>9. ~Has(got)'
    BY <2>1, <2>2 DEF Has
  <2> QED BY <2>1, <2>6, <2>8, <2>9 DEF CallsLast
<1>3. CASE ReaderReceives
  <2>1. /\ parsePipe # <<>> /\ got' = Append(got, Head(parsePipe)) /\ parsePipe' = Tail(parsePipe)
        /\ UNCHANGED <<toolCalls, spc, made, tpc, parseReaderClosed>> /\ rpc = "recv"
    BY <1>3 DEF ReaderReceives, OnlyReader, scanner, parser
  <2>2. ~parseReaderClosed /\ ~Has(got)
    BY <1>0, <2>1 DEF Stages, ReaderStage, CallsLast
  <2> DEFINE x == Head(parsePipe)
             n == Len(got)
             p == Tail(parsePipe)
             k == Len(p)
  <2>3. /\ x \in Messages /\ x = parsePipe[1] /\ 1 \in DOMAIN parsePipe
        /\ p \in Seq(Messages) /\ Len(parsePipe) = k + 1 /\ DOMAIN p = 1..k
        /\ DOMAIN parsePipe = 1..Len(parsePipe) /\ k \in Nat
        /\ \A i \in 1..k : p[i] = parsePipe[i + 1]
    <3>1. /\ x \in Messages /\ x = parsePipe[1] /\ p \in Seq(Messages)
          /\ Len(p) = Len(parsePipe) - 1 /\ \A i \in 1..Len(p) : p[i] = parsePipe[i + 1]
      BY <1>0, <2>1, HeadTailProperties
    <3>2. Len(parsePipe) \in Nat /\ Len(p) \in Nat /\ DOMAIN p = 1..Len(p)
          /\ DOMAIN parsePipe = 1..Len(parsePipe)
      BY <1>0, <3>1, LenProperties
    <3> HIDE DEF p
    <3> QED BY <3>1, <3>2
  <2>4. /\ DOMAIN got' = 1..(n + 1) /\ Len(got') = n + 1 /\ n \in Nat /\ DOMAIN got = 1..n
        /\ \A i \in 1..n : got'[i] = got[i]
        /\ got'[n + 1] = x
    BY <1>0, <2>1, <2>3, AppendProperties, LenProperties
  <2> HIDE DEF x, n, p, k
  <2>5. ASSUME NEW i \in DOMAIN got', got'[i] = ToolCalls
        PROVE  i = n + 1 /\ x = ToolCalls
    <3>1. i \in 1..n \/ i = n + 1
      BY <2>4
    <3>2. i \notin 1..n
      BY <2>2, <2>4, <2>5 DEF Has
    <3> QED BY <2>4, <2>5, <3>1, <3>2
  <2>6. ASSUME x = ToolCalls
        PROVE  k = 0 /\ tpc \in {"close", "done"} /\ toolCalls
    <3>1. Has(parsePipe) /\ parsePipe[1] = ToolCalls
      BY <2>3, <2>6 DEF Has
    <3>2. 1 = Len(parsePipe) /\ tpc \in {"close", "done"}
      BY <2>2, <2>3, <3>1 DEF CallsLast
    <3> QED BY <2>3, <3>1, <3>2 DEF CallsKnown, Onward
  <2>7. ASSUME x = ToolCalls
        PROVE  /\ parsePipe' = <<>> /\ spc = "done" /\ Len(Text(got')) = made
    <3>1. k = 0 /\ tpc \in {"close", "done"} /\ toolCalls
      BY <2>6, <2>7
    <3>2. p = <<>>
      BY <2>3, <3>1, EmptySeq DEF k
    <3>3. Text(parsePipe) = <<>>
      <4>1. Text(parsePipe) = Then(Text(<<x>>), Text(p)) /\ Text(p) \in Words
        BY <1>0, <2>1, FirstAndRest DEF x, p
      <4>2. Text(<<x>>) = <<>> /\ Text(p) = <<>>
        BY <1>0, <2>7, <3>2, TextIs
      <4> QED BY <4>1, <4>2, Cat
    <3>4. spc = "done" /\ Len(Text(got)) = made
      BY <2>2, <3>1, <3>3, EveryoneDone, AllReceived
    <3>5. Text(got') = Text(got)
      BY <1>0, <2>1, <2>7, TextIs DEF x
    <3> QED BY <2>1, <3>2, <3>4, <3>5 DEF p
  <2>8. \A i \in DOMAIN parsePipe' : parsePipe'[i] = ToolCalls => i = Len(parsePipe')
    <3> SUFFICES ASSUME NEW i \in 1..k, p[i] = ToolCalls PROVE i = k
      BY <2>1, <2>3 DEF p, k
    <3>1. i + 1 \in 1..Len(parsePipe) /\ parsePipe[i + 1] = ToolCalls
      BY <2>3
    <3>2. i + 1 = Len(parsePipe)
      BY <2>2, <2>3, <3>1 DEF CallsLast
    <3> QED BY <2>3, <3>2
  <2>9. Has(parsePipe)' => Has(parsePipe)
    BY <1>0, <2>1, HasIs
  <2>10. Has(got)' => parsePipe' = <<>> /\ tpc \in {"close", "done"}
    BY <2>4, <2>5, <2>6, <2>7 DEF Has
  <2>11. Has(parsePipe)' => tpc \in {"close", "done"}
    BY <2>2, <2>9 DEF CallsLast
  <2>12. \A i \in DOMAIN got' :
           got'[i] = ToolCalls => /\ i = Len(got') /\ toolCalls' /\ spc' = "done"
                                  /\ Len(Text(got')) = made'
    BY <2>1, <2>4, <2>5, <2>6, <2>7
  <2> QED BY <2>1, <2>8, <2>10, <2>11, <2>12 DEF CallsLast
<1>4. ParserSends \/ ReaderReceives \/ (got' = got /\ parsePipe' = parsePipe)
  <2>1. Scanner => OnlyScanner
    BY DEF Scanner, ScanText, ScanToolCalls, ScanEnds, ScannerSends, ScannerCloses
  <2>2. Pump => OnlyPump
    BY DEF Pump, PumpReceives, PumpSeesEnd, PumpSends, PumpGivesUp, PumpCloses, PumpReleases
  <2>3. OnlyScanner \/ OnlyPump \/ ContextEnds \/ UNCHANGED streamVars
          => got' = got /\ parsePipe' = parsePipe
    BY DEF OnlyScanner, OnlyPump, ContextEnds, streamVars, parser, readers
  <2>4. ParserReceives \/ ParserSeesEnd \/ ParserGivesUp \/ ParserCloses
          => got' = got /\ parsePipe' = parsePipe
    BY DEF ParserReceives, ParserSeesEnd, ParserGivesUp, ParserCloses, OnlyParser, readers
  <2>5. ReaderSeesEnd \/ ReaderLeaves => got' = got /\ parsePipe' = parsePipe
    BY DEF ReaderSeesEnd, ReaderLeaves
  <2> QED BY <2>1, <2>2, <2>3, <2>4, <2>5 DEF StreamNext, Parser, Reader
<1> QED BY <1>1, <1>2, <1>3, <1>4

LEMMA CallsThereKept ==
  ASSUME Staged, InOrder, CallsLast, CallsThere, [StreamNext]_streamVars
  PROVE  CallsThere'
<1>0. /\ StreamTypeOK /\ Stages /\ got \in Seq(Messages)
      /\ parsePipe \in Seq(Messages) /\ tHold \in Seq(Messages) /\ tHold \in Held
  <2>1. StreamTypeOK
    BY DEF Staged
  <2> QED BY <2>1, FlowOfState DEF Staged, StreamTypeOK
<1>1. CASE ParserSends
  <2>1. /\ parsePipe' = parsePipe \o tHold /\ seen' = seen
        /\ tpc' \in {"close", "done"} => tHold = <<ToolCalls>>
    BY <1>0, <1>1 DEF ParserSends, Stages, ParserStage
  <2>2. ASSUME tHold = <<ToolCalls>>
        PROVE  parsePipe' # <<>> /\ parsePipe'[Len(parsePipe')] = ToolCalls
    <3>1. parsePipe' = Append(parsePipe, ToolCalls) /\ ToolCalls \in Messages
      BY <1>0, <2>1, <2>2, AppendIsConcat, HeldIs
    <3>2. /\ Len(parsePipe') = Len(parsePipe) + 1 /\ parsePipe'[Len(parsePipe) + 1] = ToolCalls
          /\ Len(parsePipe) \in Nat
      BY <1>0, <3>1, AppendProperties, LenProperties
    <3>3. parsePipe' # <<>>
      BY <3>2, EmptySeq
    <3> QED BY <3>2, <3>3
  <2> QED BY <2>1, <2>2 DEF CallsThere
<1>2. CASE ReaderReceives
  <2>1. /\ parsePipe # <<>> /\ got' = Append(got, Head(parsePipe)) /\ parsePipe' = Tail(parsePipe)
        /\ UNCHANGED <<seen, tpc, parseReaderClosed>>
    BY <1>2 DEF ReaderReceives, OnlyReader, scanner, parser
  <2> SUFFICES ASSUME ~parseReaderClosed, seen, tpc \in {"close", "done"}
               PROVE  \/ parsePipe' # <<>> /\ parsePipe'[Len(parsePipe')] = ToolCalls
                      \/ parsePipe' = <<>> /\ got' # <<>> /\ got'[Len(got')] = ToolCalls
    BY <2>1 DEF CallsThere
  <2> DEFINE k == Len(parsePipe')
  <2>2. parsePipe[Len(parsePipe)] = ToolCalls
    BY <2>1 DEF CallsThere
  <2>3. /\ Head(parsePipe) = parsePipe[1] /\ Head(parsePipe) \in Messages
        /\ parsePipe' \in Seq(Messages)
        /\ Len(parsePipe') = Len(parsePipe) - 1
        /\ \A i \in 1..Len(parsePipe') : parsePipe'[i] = parsePipe[i + 1]
    BY <1>0, <2>1, HeadTailProperties
  <2>4. k \in Nat /\ Len(parsePipe) = k + 1
    BY <1>0, <2>3, LenProperties
  <2>5. CASE parsePipe' = <<>>
    <3>1. k = 0
      BY <2>5
    <3>2. Head(parsePipe) = ToolCalls
      BY <2>2, <2>3, <2>4, <3>1
    <3>3. Len(got') = Len(got) + 1 /\ got'[Len(got) + 1] = Head(parsePipe) /\ Len(got) \in Nat
      BY <1>0, <2>1, <2>3, AppendProperties, LenProperties
    <3>4. got' # <<>>
      BY <3>3, EmptySeq
    <3> QED BY <2>5, <3>2, <3>3, <3>4
  <2>6. CASE parsePipe' # <<>>
    <3>1. k # 0
      BY <2>3, <2>6, EmptySeq
    <3> HIDE DEF k
    <3>2. k \in 1..k
      BY <2>4, <3>1
    <3>3. parsePipe'[k] = parsePipe[k + 1]
      BY <2>3, <3>2 DEF k
    <3> QED BY <2>2, <2>4, <2>6, <3>3 DEF k
  <2> QED BY <2>5, <2>6
<1>3. CASE ParserReceives \/ ParserSeesEnd \/ ParserGivesUp \/ ParserCloses
  BY <1>3 DEF ParserReceives, ParserSeesEnd, ParserGivesUp, ParserCloses, OnlyParser, readers, CallsThere
<1>4. CASE ReaderSeesEnd \/ ReaderLeaves
  BY <1>4 DEF ReaderSeesEnd, ReaderLeaves, OnlyReader, parser, CallsThere
<1>5. CASE Scanner \/ Pump \/ ContextEnds \/ UNCHANGED streamVars
  <2>1. Scanner => OnlyScanner
    BY DEF Scanner, ScanText, ScanToolCalls, ScanEnds, ScannerSends, ScannerCloses
  <2>2. Pump => OnlyPump
    BY DEF Pump, PumpReceives, PumpSeesEnd, PumpSends, PumpGivesUp, PumpCloses, PumpReleases
  <2>3. OnlyScanner \/ OnlyPump \/ ContextEnds \/ UNCHANGED streamVars
          => UNCHANGED <<got, parsePipe, seen, tpc, parseReaderClosed>>
    BY DEF OnlyScanner, OnlyPump, ContextEnds, streamVars, parser, readers, shut
  <2> QED BY <1>5, <2>1, <2>2, <2>3 DEF CallsThere
<1> QED BY <1>1, <1>2, <1>3, <1>4, <1>5 DEF StreamNext, Parser, Reader

-----------------------------------------------------------------------------
StreamInv == Staged /\ InOrder /\ CallsKnown /\ CallsLast /\ CallsThere

LEMMA StreamInvInit == StreamInit => StreamInv
<1> SUFFICES ASSUME StreamInit PROVE StreamInv
  OBVIOUS
<1>1. Staged
  BY StagedInit
<1>2. Text(<<>>) = <<>> /\ Then(<<>>, <<>>) = <<>> /\ <<>> \in Words
  BY TextIs, EmptySeq, Cat DEF Words
<1>3. InOrder
  <2>1. UnderWay = Flow(<<>>, <<>>, <<>>, <<>>, <<>>, <<>>)
    BY <1>1, <1>2, FlowOfState DEF Staged, StreamInit, Nothing
  <2>2. Numbers(0) = <<>>
    BY NumbersAre, EmptySeq
  <2> QED BY <1>2, <2>1, <2>2 DEF Flow, InOrder, StreamInit
<1>4. ~Has(<<>>)
  BY HasIs DEF Nothing
<1> QED BY <1>1, <1>3, <1>4 DEF StreamInit, StreamInv, CallsKnown, CallsLast, CallsThere,
           Upstream, Onward, Has, Nothing

LEMMA StreamInvKept == StreamInv /\ [StreamNext]_streamVars => StreamInv'
<1> SUFFICES ASSUME StreamInv, [StreamNext]_streamVars PROVE StreamInv'
  OBVIOUS
<1>1. Staged'
  BY StagedKept DEF StreamInv
<1>2. TextStep
  BY <1>1, TextMoves DEF StreamInv, Staged
<1>3. parseReaderClosed => parseReaderClosed'
  BY DEF StreamNext, Scanner, ScanText, ScanToolCalls, ScanEnds, ScannerSends, ScannerCloses,
       ContextEnds, Pump, PumpReceives, PumpSeesEnd, PumpSends, PumpGivesUp, PumpCloses, PumpReleases,
       Parser, ParserReceives, ParserSeesEnd, ParserSends, ParserGivesUp, ParserCloses,
       Reader, ReaderReceives, ReaderSeesEnd, ReaderLeaves, OnlyScanner, OnlyPump, OnlyParser,
       OnlyReader, shut, streamVars
<1>4. InOrder'
  BY <1>1, <1>2, <1>3, OrderKept DEF StreamInv
<1> QED BY <1>1, <1>4, CallsKnownKept, CallsLastKept, CallsThereKept DEF StreamInv

LEMMA InvIsSound == StreamInv => StreamIsSound
<1> SUFFICES ASSUME StreamInv PROVE StreamIsSound
  OBVIOUS
<1>0. StreamTypeOK /\ Stages /\ InOrder
  BY DEF StreamInv, Staged
<1>1. NothingLost
  <2>1. rpc # "closed" => Text(got) \o UnderWay = [i \in 1..made |-> i]
    BY <1>0 DEF InOrder, Stages, ReaderStage, Then, Numbers
  <2>2. ASSUME rpc = "eof"
        PROVE  /\ Len(Text(got)) = made
               /\ toolCalls <=> got # <<>> /\ Last(got) = ToolCalls
    <3>1. ~parseReaderClosed /\ tpc = "done" /\ parsePipe = <<>>
      BY <1>0, <2>2 DEF Stages, ReaderStage
    <3>2. Len(Text(got)) = made
      BY <1>0, <3>1, AllReceived, TextIs DEF StreamInv
    <3>3. ~Upstream
      BY <3>1, EveryoneDone, HasIs DEF StreamInv, Upstream, Nothing
    <3>4. ASSUME toolCalls PROVE got # <<>> /\ got[Len(got)] = ToolCalls
      BY <3>1, <3>3, <3>4 DEF StreamInv, CallsKnown, CallsThere
    <3>5. ASSUME got # <<>>, got[Len(got)] = ToolCalls PROVE toolCalls
      <4>1. Len(got) \in DOMAIN got
        BY <1>0, <3>5, EmptySeq, LenProperties DEF StreamTypeOK
      <4> QED BY <3>5, <4>1 DEF StreamInv, CallsLast
    <3> QED BY <1>0, <3>2, <3>4, <3>5 DEF Last, StreamTypeOK
  <2> QED BY <2>1, <2>2 DEF NothingLost
<1>2. ToolCallsOnceAndLast
  BY DEF StreamInv, CallsLast, ToolCallsOnceAndLast
<1> QED BY <1>0, <1>1, <1>2 DEF StreamIsSound

(* The text received and under way is the text scanned, in order, and the  *)
(* tool calls come once and last, for any length of the answer and any     *)
(* capacity of the pipes.                                                  *)
THEOREM StreamSound == StreamSpec => []StreamIsSound
<1>1. StreamSpec => []StreamInv
  BY StreamInvInit, StreamInvKept, PTL DEF StreamSpec
<1> QED BY <1>1, InvIsSound, PTL


-----------------------------------------------------------------------------
(* The chain as one pipe: a step that moves no text may end the writer's   *)
(* or the reader's part.                                                   *)
Ends ==
  \/ UNCHANGED <<finish, rpc>>
  \/ spc = "scan" /\ finish' # "none" /\ rpc' = rpc
  \/ rpc = "recv" /\ parsePipe = <<>> /\ tpc = "done" /\ rpc' = "eof" /\ finish' = finish
  \/ rpc = "recv" /\ rpc' = "closed" /\ finish' = finish

LEMMA EndsSo ==
  ASSUME Staged, [StreamNext]_streamVars
  PROVE  Ends
<1>1. CASE Scanner
  BY <1>1 DEF Scanner, ScanText, ScanToolCalls, ScanEnds, ScannerSends, ScannerCloses, OnlyScanner,
       readers, Ends
<1>2. CASE Pump
  BY <1>2 DEF Pump, PumpReceives, PumpSeesEnd, PumpSends, PumpGivesUp, PumpCloses, PumpReleases,
       OnlyPump, scanner, readers, Ends
<1>3. CASE Parser
  BY <1>3 DEF Parser, ParserReceives, ParserSeesEnd, ParserSends, ParserGivesUp, ParserCloses,
       OnlyParser, scanner, readers, Ends
<1>4. CASE Reader \/ ReaderLeaves
  BY <1>4 DEF Staged, Stages, ParserStage, Reader, ReaderReceives, ReaderSeesEnd, ReaderLeaves,
       OnlyReader, scanner, Ends
<1>5. CASE ContextEnds \/ UNCHANGED streamVars
  BY <1>5 DEF ContextEnds, streamVars, scanner, readers, Ends
<1> QED BY <1>1, <1>2, <1>3, <1>4, <1>5 DEF StreamNext

LEMMA NextReceived ==
  ASSUME NEW g \in Words, NEW u \in Words, NEW w \in 1..Pieces, NEW n \in Nat,
         Then(g, <<w>> \o u) = Numbers(n)
  PROVE  /\ w = Len(g) + 1 /\ Len(Append(g, w)) = Len(g) + 1
         /\ <<w>> \o u # <<>> /\ Head(<<w>> \o u) = w /\ Tail(<<w>> \o u) = u
<1> DEFINE m == Len(g)
           v == <<w>> \o u
<1>1. g \in Seq(1..Pieces) /\ u \in Seq(1..Pieces) /\ <<w>> \in Seq(1..Pieces) /\ m \in Nat
      /\ Len(<<w>>) = 1 /\ <<w>>[1] = w
  BY LenProperties DEF Words
<1>2. /\ v \in Seq(1..Pieces) /\ Len(v) = 1 + Len(u) /\ Len(u) \in Nat
      /\ \A i \in 1..(1 + Len(u)) : v[i] = IF i <= 1 THEN <<w>>[i] ELSE u[i - 1]
  BY <1>1, ConcatProperties, LenProperties
<1>3. v[1] = w /\ Len(v) \in Nat /\ 1 <= Len(v)
  BY <1>1, <1>2
<1>4. v # <<>>
  BY <1>3, EmptySeq
<1>5. Head(v) = w /\ Tail(v) = u
  <2>1. Head(v) = v[1] /\ Tail(v) \in Seq(1..Pieces) /\ Len(Tail(v)) = Len(v) - 1
        /\ \A i \in 1..Len(Tail(v)) : Tail(v)[i] = v[i + 1]
    BY <1>2, <1>4, HeadTailProperties
  <2> DEFINE r == Tail(v)
             k == Len(u)
  <2>2. k \in Nat /\ Len(r) = k
    BY <1>2, <2>1
  <2>3. ASSUME NEW i \in 1..k PROVE r[i] = u[i]
    <3> DEFINE j == i + 1
    <3>1. j \in 1..(1 + k) /\ ~(j <= 1) /\ j - 1 = i
      BY <2>2
    <3> HIDE DEF j
    <3>2. v[j] = u[i]
      BY <1>2, <3>1
    <3> QED BY <2>1, <2>2, <3>2 DEF j
  <2> HIDE DEF r
  <2>4. r = u
    BY <1>1, <2>1, <2>2, <2>3, SeqEqual DEF r
  <2> QED BY <1>3, <2>1, <2>4 DEF r
<1>6. w = m + 1
  <2> DEFINE c == g \o v
  <2>1. /\ Len(c) = m + Len(v)
        /\ \A i \in 1..(m + Len(v)) : c[i] = IF i <= m THEN g[i] ELSE v[i - m]
    BY <1>1, <1>2, ConcatProperties
  <2>2. c = Numbers(n)
    BY DEF Then
  <2> HIDE DEF c, v, m
  <2> DEFINE j == m + 1
  <2>3. j \in 1..(m + Len(v)) /\ ~(j <= m) /\ j - m = 1
    BY <1>1, <1>3
  <2> HIDE DEF j
  <2>4. c[j] = w
    BY <1>3, <2>1, <2>3
  <2>5. n = m + Len(v) /\ c[j] = j
    BY <2>1, <2>2, <2>3, NumbersAre
  <2> QED BY <2>4, <2>5 DEF j
<1>7. Len(Append(g, w)) = m + 1
  BY <1>1, AppendProperties
<1> QED BY <1>4, <1>5, <1>6, <1>7

LEMMA PipeInit == StreamInit => Pipe!Init
<1> SUFFICES ASSUME StreamInit PROVE Pipe!Init
  OBVIOUS
<1>1. Text(<<>>) = <<>> /\ Then(<<>>, <<>>) = <<>> /\ Len(<<>>) = 0
  BY TextIs, EmptySeq, Cat DEF Words
<1>2. UnderWay = Flow(<<>>, <<>>, <<>>, <<>>, <<>>, <<>>)
  BY <1>1, StagedInit, FlowOfState DEF Staged, StreamInit, Nothing
<1>3. UnderWay = <<>>
  BY <1>1, <1>2 DEF Flow
<1> QED BY <1>1, <1>3 DEF StreamInit, Pipe!Init

LEMMA PipeStep ==
  ASSUME StreamInv, StreamInv', [StreamNext]_streamVars
  PROVE  [Pipe!Next]_(Pipe!vars)
<1> DEFINE g == Text(got)
           W == IF finish = "none" THEN "open" ELSE "closed"
           R == IF rpc = "recv" THEN "open" ELSE rpc
<1>0. StreamTypeOK /\ Stages /\ InOrder /\ Text(got) \in Words /\ UnderWay \in Words /\ made \in Nat
  <2>1. StreamTypeOK
    BY DEF StreamInv, Staged
  <2> QED BY <2>1, WordsOfState, ModelStreamAssumption DEF StreamInv, Staged, StreamTypeOK
<1>1. TextStep /\ Ends
  <2>1. StreamTypeOK'
    BY DEF StreamInv, Staged
  <2> QED BY <2>1, TextMoves, EndsSo DEF StreamInv
<1>2. CASE Kept
  <2>1. CASE UNCHANGED <<finish, rpc>>
    BY <1>2, <2>1 DEF Kept, Pipe!vars
  <2>2. CASE spc = "scan" /\ finish' # "none" /\ rpc' = rpc
    <3>1. finish = "none"
      BY <1>0, <2>2 DEF Stages, ScannerStage
    <3>2. Pipe!CloseWriter
      BY <1>2, <2>2, <3>1 DEF Kept, Pipe!CloseWriter
    <3> QED BY <3>2 DEF Pipe!Next
  <2>3. CASE rpc = "recv" /\ parsePipe = <<>> /\ tpc = "done" /\ rpc' = "eof" /\ finish' = finish
    <3>1. ~parseReaderClosed /\ spc = "done"
      BY <1>0, <2>3, EveryoneDone DEF Stages, ReaderStage, StreamInv
    <3>2. finish # "none"
      BY <1>0, <3>1 DEF Stages, ScannerStage
    <3>3. UnderWay = <<>>
      BY <2>3, <3>1, AllReceived, TextIs DEF StreamInv
    <3>4. Pipe!SeeEnd
      BY <1>2, <2>3, <3>2, <3>3 DEF Kept, Pipe!SeeEnd
    <3> QED BY <3>4 DEF Pipe!Next
  <2>4. CASE rpc = "recv" /\ rpc' = "closed" /\ finish' = finish
    <3>1. Pipe!CloseReader
      BY <1>2, <2>4 DEF Kept, Pipe!CloseReader
    <3> QED BY <3>1 DEF Pipe!Next
  <2> QED BY <1>1, <2>1, <2>2, <2>3, <2>4 DEF Ends
<1>3. CASE Added
  <2>1. finish = "none"
    BY <1>0, <1>3 DEF Added, Stages, ScannerStage
  <2>2. Pipe!Send
    BY <1>3, <2>1 DEF Added, Pipe!Send
  <2> QED BY <2>2 DEF Pipe!Next
<1>4. CASE Dropped
  <2>1. rpc = "closed"
    BY <1>0, <1>4 DEF Dropped, Stages, ReaderStage
  <2>2. Pipe!Drop
    BY <1>4, <2>1 DEF Dropped, Without, Pipe!Drop
  <2> QED BY <2>2 DEF Pipe!Next
<1>5. CASE Delivery
  <2>1. PICK w \in 1..Pieces : Delivered(w)
    BY <1>5 DEF Delivery
  <2>2. /\ UnderWay = <<w>> \o UnderWay' /\ Text(got)' = Append(Text(got), w)
        /\ made' = made /\ finish' = finish /\ rpc' = rpc /\ rpc = "recv"
    BY <1>5, <2>1 DEF Delivery, Delivered
  <2>3. UnderWay' \in Words
    <3>1. /\ StreamTypeOK'
          /\ Text(parsePipe') \in Words /\ Text(tHold') \in Words /\ Text(pumpPipe') \in Words
          /\ Text(pHold') \in Words /\ Text(modelPipe') \in Words /\ Text(sHold') \in Words
      BY NextIsTyped, TextIs DEF StreamInv, Staged
    <3> QED BY <3>1, FlowOfNext, FlowIsWords
  <2>4. Then(Text(got), UnderWay) = Numbers(made)
    BY <1>0, <2>2 DEF InOrder, Stages, ReaderStage
  <2>5. /\ w = Len(Text(got)) + 1 /\ Len(Append(Text(got), w)) = Len(Text(got)) + 1
        /\ UnderWay # <<>> /\ Head(UnderWay) = w /\ Tail(UnderWay) = UnderWay'
    <3> DEFINE u == UnderWay'
    <3>1. u \in Words /\ UnderWay = <<w>> \o u /\ Then(Text(got), <<w>> \o u) = Numbers(made)
      BY <2>2, <2>3, <2>4
    <3> HIDE DEF u
    <3>2. /\ w = Len(Text(got)) + 1 /\ Len(Append(Text(got), w)) = Len(Text(got)) + 1
          /\ <<w>> \o u # <<>> /\ Head(<<w>> \o u) = w /\ Tail(<<w>> \o u) = u
      BY <1>0, <3>1, NextReceived
    <3> QED BY <3>1, <3>2 DEF u
  <2>6. Pipe!Receive
    BY <2>2, <2>5 DEF Pipe!Receive
  <2> QED BY <2>6 DEF Pipe!Next
<1> QED BY <1>1, <1>2, <1>3, <1>4, <1>5 DEF TextStep

(* The scanner, the pump and parse_tool_calls together implement one pipe  *)
(* that its reader may close.                                              *)
THEOREM StreamRefines == StreamSpec => RefinesPipe
<1>1. StreamSpec => []StreamInv
  BY StreamInvInit, StreamInvKept, PTL DEF StreamSpec
<1>2. StreamInv /\ StreamInv' /\ [StreamNext]_streamVars => [Pipe!Next]_(Pipe!vars)
  BY PipeStep
<1> QED BY <1>1, <1>2, PipeInit, PTL DEF StreamSpec, RefinesPipe, Pipe!Spec

-----------------------------------------------------------------------------
(* Gate and stream side by side: a step of one is a stutter of the other.  *)
LEMMA EachPart == MCSpec => Spec /\ StreamSpec
<1> DEFINE Vars == <<part, vars, streamVars>>
<1>1. MCInit => Init /\ StreamInit
  BY DEF MCInit
<1>2. [MCNext]_Vars => [Next]_vars
  BY DEF MCNext
<1>3. [MCNext]_Vars => [StreamNext]_streamVars
  BY DEF MCNext
<1> QED BY <1>1, <1>2, <1>3, PTL DEF MCSpec, Spec, StreamSpec

(* What TLC checks of the safety of both on its instance, for any          *)
(* constants.                                                              *)
THEOREM LlmSafe ==
  MCSpec => [](SlotsAreKept /\ ProbesAreUnderWay /\ StreamIsSound) /\ RefinesPipe
<1>1. MCSpec => []SlotsAreKept /\ []ProbesAreUnderWay /\ []StreamIsSound /\ RefinesPipe
  BY EachPart, SlotsCorrect, ProbesCorrect, StreamSound, StreamRefines
<1> QED BY <1>1, PTL

=============================================================================
