---------------------------- MODULE ToolsProofs -----------------------------
(* Proofs about the calls of tools: the collector of calls and results,    *)
(* the retry gate and the wrapper, for any calls, rounds, runs and limits. *)
EXTENDS MCTools, SequenceLemmas, FiniteSetTheorems

-----------------------------------------------------------------------------
(* The collector of tool calls.                                            *)

Started  == {c \in BagCalls : pc[c] # "new"}
Returned == {c \in BagCalls : pc[c] \in {"filling", "done"}}
NoEmpty  == \A c \in Returned : text[c] # None

Records == [call : BagCalls \cup {None}, result : BagCalls \cup {None}]

BagTyped ==
  /\ records \in Seq(Records)
  /\ results \in Seq(BagCalls \cup {None})
  /\ text \in [BagCalls -> BagCalls \cup {None}]
  /\ pc \in [BagCalls -> {"new", "running", "filling", "done"}]

(* Every call that has started has one record.                             *)
OneRecordEach ==
  /\ \A i \in DOMAIN records : records[i].call \in Started
  /\ \A c \in Started : \E i \in DOMAIN records : records[i].call = c
  /\ \A i, j \in DOMAIN records : records[i].call = records[j].call => i = j

(* What the filled slots hold is what the calls that are done returned.    *)
OneResultEach ==
  /\ \A c \in BagCalls : text[c] \in {None, c} /\ (text[c] = c => c \in Returned)
  /\ \A i \in Filled : records[i].result \in Done /\ text[records[i].result] # None
  /\ \A c \in Done : text[c] # None => \E i \in Filled : records[i].result = c
  /\ \A i, j \in Filled : records[i].result = records[j].result => i = j

(* A round begins when those before it are done.                           *)
RoundsInTurn ==
  \A c \in Started, d \in BagCalls : RoundOf[d] < RoundOf[c] => d \in Done

ResultsCounted == Len(results) = Cardinality(Returned)

BagInv == BagTyped /\ OneRecordEach /\ OneResultEach /\ RoundsInTurn /\ ResultsCounted
          /\ RoundsAreExact

(* A set maps into a smaller one only if two of its elements meet.         *)
LEMMA Meet ==
  ASSUME NEW S \in SUBSET BagCalls, NEW T \in SUBSET S, NEW c \in S \ T, NEW f \in [S -> T]
  PROVE  \E x, y \in S : x # y /\ f[x] = f[y]
<1>1. IsFiniteSet(S) /\ IsFiniteSet(T)
  BY BagAssumption, FS_Subset
<1>2. Cardinality(T) <= Cardinality(S) /\ Cardinality(T) # Cardinality(S)
  BY <1>1, FS_Subset
<1>3. Cardinality(T) < Cardinality(S)
  BY <1>1, <1>2, FS_CardinalityType
<1> QED BY <1>1, <1>3, FS_PigeonHole

(* A result that comes finds an empty slot.                                *)
LEMMA SlotFree ==
  ASSUME BagInv, NEW c \in BagCalls, pc[c] = "filling"
  PROVE  EmptySlots # {}
<1> SUFFICES ASSUME \A i \in DOMAIN records : i \in Filled PROVE FALSE
  BY DEF EmptySlots, Filled
<1> DEFINE Slot(s) == CHOOSE i \in DOMAIN records : records[i].call = s
           f == [s \in Started |-> records[Slot(s)].result]
<1>1. \A s \in Started : Slot(s) \in DOMAIN records /\ records[Slot(s)].call = s
  BY DEF BagInv, OneRecordEach
<1>2. f \in [Started -> Done]
  BY <1>1 DEF BagInv, OneResultEach
<1>3. Started \in SUBSET BagCalls /\ Done \in SUBSET Started /\ c \in Started \ Done
  BY DEF Started, Done
<1>4. PICK x, y \in Started : x # y /\ f[x] = f[y]
  <2> HIDE DEF f
  <2> QED BY <1>2, <1>3, Meet
<1>5. Slot(x) = Slot(y)
  BY <1>1, <1>4 DEF BagInv, OneResultEach
<1> QED BY <1>1, <1>4, <1>5

(* And as long as no tool returns nothing, it is one of its own round.     *)
LEMMA SlotOfTheRound ==
  ASSUME BagInv, NoEmpty, NEW c \in BagCalls, pc[c] = "filling", NEW i \in EmptySlots
  PROVE  RoundOf[records[i].call] = RoundOf[c]
<1> DEFINE d == records[i].call
           S == {e \in BagCalls : RoundOf[e] = RoundOf[d]}
           Slot(e) == CHOOSE j \in Filled : records[j].result = e
           f == [e \in S |-> records[Slot(e)].call]
<1>1. i \in DOMAIN records /\ records[i].result = None /\ d \in Started /\ d \in BagCalls
  BY DEF EmptySlots, BagInv, OneRecordEach, Started
<1>2. RoundOf[d] \in Nat /\ RoundOf[c] \in Nat
  BY <1>1, BagAssumption
<1>3. ~(RoundOf[c] < RoundOf[d])
  BY <1>1 DEF BagInv, RoundsInTurn, Done
<1>4. ASSUME RoundOf[d] < RoundOf[c] PROVE FALSE
  <2>1. \A e \in S : e \in Done /\ text[e] # None
    BY <1>4 DEF BagInv, RoundsInTurn, Started, Done, NoEmpty, Returned
  <2>2. \A e \in S : Slot(e) \in Filled /\ records[Slot(e)].result = e
    BY <2>1 DEF BagInv, OneResultEach
  <2>3. \A e \in S : /\ records[Slot(e)].call \in BagCalls
                     /\ RoundOf[records[Slot(e)].call] = RoundOf[e]
                     /\ records[Slot(e)].call # d
    <3> SUFFICES ASSUME NEW e \in S
                 PROVE  /\ records[Slot(e)].call \in BagCalls
                        /\ RoundOf[records[Slot(e)].call] = RoundOf[e]
                        /\ records[Slot(e)].call # d
      OBVIOUS
    <3>1. Slot(e) \in Filled /\ records[Slot(e)].result = e /\ Slot(e) \in DOMAIN records
      BY <2>2 DEF Filled
    <3> HIDE DEF Slot
    <3>2. records[Slot(e)].call \in BagCalls
      BY <3>1 DEF BagInv, OneRecordEach, Started
    <3>3. RoundOf[records[Slot(e)].call] = RoundOf[e]
      BY <3>1 DEF BagInv, RoundsAreExact, NoEmpty, Returned
    <3>4. Slot(e) # i
      BY <1>1, <3>1 DEF Filled
    <3> QED BY <1>1, <3>1, <3>2, <3>3, <3>4 DEF BagInv, OneRecordEach
  <2> DEFINE T == S \ {d}
  <2>4. f \in [S -> T] /\ S \in SUBSET BagCalls /\ T \in SUBSET S /\ d \in S \ T
    BY <1>1, <2>3
  <2>5. PICK x, y \in S : x # y /\ f[x] = f[y]
    <3> HIDE DEF f, d, S, T
    <3> QED BY <2>4, Meet
  <2>6. Slot(x) \in DOMAIN records /\ Slot(y) \in DOMAIN records
        /\ records[Slot(x)].call = records[Slot(y)].call
    BY <2>2, <2>5 DEF Filled
  <2>7. Slot(x) = Slot(y)
    <3> HIDE DEF Slot
    <3> QED BY <2>6 DEF BagInv, OneRecordEach
  <2> QED BY <2>2, <2>5, <2>7
<1> QED BY <1>2, <1>3, <1>4
-----------------------------------------------------------------------------
LEMMA AppendAt ==
  ASSUME NEW S, NEW s \in Seq(S), NEW e
  PROVE  /\ DOMAIN Append(s, e) = DOMAIN s \cup {Len(s) + 1} /\ Len(s) + 1 \notin DOMAIN s
         /\ \A i \in DOMAIN s : Append(s, e)[i] = s[i]
         /\ Append(s, e)[Len(s) + 1] = e
OBVIOUS

LEMMA SetResult ==
  ASSUME NEW rec \in Records, NEW t \in BagCalls \cup {None}
  PROVE  /\ [rec EXCEPT !.result = t] \in Records
         /\ [rec EXCEPT !.result = t].call = rec.call
         /\ [rec EXCEPT !.result = t].result = t
BY DEF Records

LEMMA BagInvInit == BagInit => BagInv
<1> SUFFICES ASSUME BagInit PROVE BagInv
  OBVIOUS
<1>1. Started = {} /\ Returned = {} /\ Done = {} /\ DOMAIN records = {}
  BY DEF BagInit, Started, Returned, Done
<1>2. ResultsCounted
  BY <1>1, FS_EmptySet DEF BagInit, ResultsCounted
<1>3. Filled = {} /\ OneRecordEach /\ RoundsInTurn
  BY <1>1 DEF Filled, OneRecordEach, RoundsInTurn
<1>4. OneResultEach
  BY <1>1, <1>3, BagAssumption DEF BagInit, OneResultEach
<1>5. BagTyped
  BY DEF BagInit, BagTyped
<1>6. RoundsAreExact
  BY <1>3 DEF RoundsAreExact
<1> QED BY <1>2, <1>3, <1>4, <1>5, <1>6 DEF BagInv

LEMMA OnStartKeeps ==
  ASSUME BagInv, NEW c \in BagCalls, OnStart(c)
  PROVE  BagInv'
<1> DEFINE n == Len(records) + 1
<1>1. /\ DOMAIN records' = DOMAIN records \cup {n} /\ n \notin DOMAIN records
      /\ \A i \in DOMAIN records : records'[i] = records[i]
      /\ records'[n] = [call |-> c, result |-> None]
  BY AppendAt DEF OnStart, BagInv, BagTyped
<1>2. BagTyped'
  <2>1. [call |-> c, result |-> None] \in Records
    BY DEF Records
  <2> QED BY <2>1 DEF OnStart, BagInv, BagTyped
<1>3. Started' = Started \cup {c} /\ Returned' = Returned /\ Done' = Done /\ c \notin Started
  BY DEF OnStart, BagInv, BagTyped, Started, Returned, Done
<1>4. Filled' = Filled
  BY <1>1 DEF Filled
<1>5. OneRecordEach'
  <2>1. \A i \in DOMAIN records' : records'[i].call \in Started'
    BY <1>1, <1>3 DEF BagInv, OneRecordEach
  <2>2. \A s \in Started' : \E i \in DOMAIN records' : records'[i].call = s
    BY <1>1, <1>3 DEF BagInv, OneRecordEach
  <2>3. \A i, j \in DOMAIN records' : records'[i].call = records'[j].call => i = j
    BY <1>1, <1>3 DEF BagInv, OneRecordEach
  <2> QED BY <2>1, <2>2, <2>3 DEF OneRecordEach
<1>6. OneResultEach' /\ RoundsAreExact'
  <2>1. \A i \in Filled : records'[i] = records[i]
    BY <1>1 DEF Filled
  <2>2. UNCHANGED text /\ \A b \in BagCalls : pc'[b] \in {"filling", "done"} => b \in Returned
    BY <1>3 DEF OnStart, Returned
  <2>3. OneResultEach'
    BY <1>3, <1>4, <2>1, <2>2 DEF BagInv, OneResultEach
  <2>4. (\A b \in BagCalls : pc'[b] \in {"filling", "done"} => text'[b] # None)
          <=> \A b \in BagCalls : pc[b] \in {"filling", "done"} => text[b] # None
    BY <1>3, <2>2 DEF Returned
  <2> QED BY <1>4, <2>1, <2>3, <2>4 DEF BagInv, RoundsAreExact
<1>7. RoundsInTurn'
  BY <1>3 DEF OnStart, BagInv, RoundsInTurn, Done
<1>8. ResultsCounted'
  BY <1>3 DEF OnStart, BagInv, ResultsCounted
<1> QED BY <1>2, <1>5, <1>6, <1>7, <1>8 DEF BagInv

LEMMA OnEndKeeps ==
  ASSUME BagInv, NEW c \in BagCalls, OnEnd(c)
  PROVE  BagInv'
<1>1. /\ UNCHANGED records /\ pc[c] = "running" /\ pc' = [pc EXCEPT ![c] = "filling"]
      /\ \A b \in BagCalls : b # c => text'[b] = text[b]
      /\ text'[c] \in {c, None} /\ results' = Append(results, text'[c])
  BY DEF OnEnd, BagInv, BagTyped
<1>2. BagTyped'
  BY DEF OnEnd, BagInv, BagTyped
<1>3. /\ Started' = Started /\ Returned' = Returned \cup {c} /\ Done' = Done
      /\ c \notin Returned /\ c \notin Done
  BY <1>1 DEF BagInv, BagTyped, Started, Returned, Done
<1>4. Filled' = Filled
  BY <1>1 DEF Filled
<1>5. OneRecordEach' /\ RoundsInTurn'
  BY <1>1, <1>3 DEF BagInv, OneRecordEach, RoundsInTurn
<1>6. \A b \in Done : b \in BagCalls /\ b # c /\ text'[b] = text[b]
  BY <1>1, <1>3 DEF Done
<1>7. OneResultEach'
  <2>1. \A b \in BagCalls : text'[b] \in {None, b} /\ (text'[b] = b => b \in Returned')
    BY <1>1, <1>3 DEF BagInv, OneResultEach
  <2> QED BY <1>1, <1>3, <1>4, <1>6, <2>1 DEF BagInv, OneResultEach
<1>8. RoundsAreExact'
  <2>1. NoEmpty' => NoEmpty
    BY <1>1, <1>3 DEF NoEmpty, Returned
  <2> QED BY <1>1, <1>4, <2>1 DEF BagInv, RoundsAreExact, NoEmpty, Returned
<1>9. ResultsCounted'
  <2>1. Cardinality(Returned') = Cardinality(Returned) + 1
    <3>1. IsFiniteSet(Returned)
      BY BagAssumption, FS_Subset DEF Returned
    <3> QED BY <1>3, <3>1, FS_AddElement
  <2>2. Len(results') = Len(results) + 1
    BY <1>1 DEF BagInv, BagTyped
  <2> QED BY <2>1, <2>2 DEF BagInv, ResultsCounted
<1> QED BY <1>2, <1>5, <1>7, <1>8, <1>9 DEF BagInv

LEMMA FillResultKeeps ==
  ASSUME BagInv, NEW c \in BagCalls, FillResult(c)
  PROVE  BagInv'
<1> DEFINE n == SlotFor(EmptySlots)
<1>1. pc[c] = "filling" /\ pc' = [pc EXCEPT ![c] = "done"] /\ UNCHANGED <<results, text>>
  BY DEF FillResult
<1>2. n \in EmptySlots
  <2>1. EmptySlots # {}
    BY <1>1, SlotFree
  <2>2. EmptySlots \in SUBSET Nat
    BY DEF EmptySlots, BagInv, BagTyped
  <2>3. \E i \in EmptySlots : \A j \in EmptySlots : i <= j
    BY <2>1, <2>2, HasLeast
  <2> QED BY <2>1, <2>3 DEF SlotFor
<1>3. n \in DOMAIN records /\ records[n].result = None
  BY <1>2 DEF EmptySlots
<1>4. records' = [records EXCEPT ![n].result = text[c]]
  BY <1>3 DEF FillResult
<1> HIDE DEF n
<1>5. /\ DOMAIN records' = DOMAIN records
      /\ \A i \in DOMAIN records : i # n => records'[i] = records[i]
      /\ records'[n].call = records[n].call /\ records'[n].result = text[c]
  <2>1. records[n] \in Records /\ text[c] \in BagCalls \cup {None}
    BY <1>3 DEF BagInv, BagTyped
  <2> QED BY <1>3, <1>4, <2>1, SetResult
<1>6. BagTyped'
  <2> DEFINE e == [records[n] EXCEPT !.result = text[c]]
  <2>1. records \in Seq(Records) /\ text[c] \in BagCalls \cup {None}
    BY DEF BagInv, BagTyped
  <2>2. e \in Records
    BY <1>3, <2>1, SetResult
  <2>3. records' = [records EXCEPT ![n] = e]
    BY <1>3, <1>4
  <2> HIDE DEF e
  <2>4. records' \in Seq(Records)
    BY <1>3, <2>1, <2>2, <2>3
  <2> QED BY <1>1, <2>4 DEF BagInv, BagTyped
<1>7. Started' = Started /\ Returned' = Returned /\ Done' = Done \cup {c} /\ c \notin Done
  BY <1>1 DEF BagInv, BagTyped, Started, Returned, Done
<1>8. Filled' = IF text[c] = None THEN Filled ELSE Filled \cup {n}
  BY <1>3, <1>5 DEF Filled
<1>9. \A i \in Filled : i # n /\ records'[i] = records[i]
  BY <1>3, <1>5 DEF Filled
<1>10. OneRecordEach'
  <2>1. \A i \in DOMAIN records : records'[i].call = records[i].call
    BY <1>5
  <2> QED BY <1>5, <1>7, <2>1 DEF BagInv, OneRecordEach
<1>11. OneResultEach'
  <2>1. \A b \in BagCalls : text'[b] \in {None, b} /\ (text'[b] = b => b \in Returned')
    BY <1>1, <1>7 DEF BagInv, OneResultEach
  <2>2. \A i \in Filled' : records'[i].result \in Done' /\ text'[records'[i].result] # None
    BY <1>1, <1>5, <1>7, <1>8, <1>9 DEF BagInv, OneResultEach
  <2>3. \A b \in Done' : text'[b] # None => \E i \in Filled' : records'[i].result = b
    BY <1>1, <1>5, <1>7, <1>8, <1>9 DEF BagInv, OneResultEach
  <2>4. \A i, j \in Filled' : records'[i].result = records'[j].result => i = j
    <3>1. \A i \in Filled : records'[i].result \in Done
      BY <1>9 DEF BagInv, OneResultEach
    <3>2. text[c] # None => records'[n].result = c
      BY <1>5 DEF BagInv, OneResultEach
    <3> QED BY <1>7, <1>8, <1>9, <3>1, <3>2 DEF BagInv, OneResultEach
  <2> QED BY <2>1, <2>2, <2>3, <2>4 DEF OneResultEach
<1>12. RoundsInTurn'
  BY <1>7 DEF BagInv, RoundsInTurn
<1>13. RoundsAreExact'
  <2>1. NoEmpty' <=> NoEmpty
    BY <1>1, <1>7 DEF NoEmpty
  <2>2. NoEmpty => RoundOf[records[n].call] = RoundOf[c] /\ text[c] = c
    BY <1>1, <1>2, SlotOfTheRound DEF BagInv, OneResultEach, NoEmpty, Returned
  <2> QED BY <1>5, <1>8, <1>9, <2>1, <2>2 DEF BagInv, RoundsAreExact, NoEmpty, Returned
<1>14. ResultsCounted'
  BY <1>1, <1>7 DEF BagInv, ResultsCounted
<1> QED BY <1>6, <1>10, <1>11, <1>12, <1>13, <1>14 DEF BagInv

LEMMA BagStep == BagInv /\ [BagNext]_bagVars => BagInv'
<1>1. ASSUME BagInv, UNCHANGED bagVars PROVE BagInv'
  BY <1>1 DEF bagVars, BagInv, BagTyped, OneRecordEach, OneResultEach, RoundsInTurn,
     ResultsCounted, RoundsAreExact, Started, Returned, Done, Filled
<1> QED BY <1>1, OnStartKeeps, OnEndKeeps, FillResultKeeps DEF BagNext

LEMMA BagInvMeans == BagInv => RecordsAreRight
<1> SUFFICES ASSUME BagInv PROVE RecordsAreRight
  OBVIOUS
<1>1. Len(results) <= Cardinality(BagCalls)
  BY BagAssumption, FS_Subset DEF BagInv, ResultsCounted, Returned
<1>2. Len(records) <= Cardinality(BagCalls)
  <2> DEFINE f == [i \in 1..Len(records) |-> records[i].call]
  <2>1. Len(records) \in Nat
    BY DEF BagInv, BagTyped
  <2>2. f \in Injection(1..Len(records), BagCalls)
    <3>1. f \in [1..Len(records) -> BagCalls] /\ DOMAIN records = 1..Len(records)
      BY <2>1 DEF BagInv, BagTyped, OneRecordEach, Started
    <3>2. \A i, j \in 1..Len(records) : f[i] = f[j] => i = j
      BY <3>1 DEF BagInv, OneRecordEach
    <3> HIDE DEF f
    <3>3. IsInjective(f)
      BY <3>1, <3>2 DEF IsInjective
    <3> QED BY <3>1, <3>3 DEF Injection
  <2>3. Cardinality(1..Len(records)) <= Cardinality(BagCalls)
    BY <2>2, BagAssumption, FS_Injection
  <2>4. Cardinality(1..Len(records)) = Len(records)
    <3>1. Cardinality(1..Len(records)) = IF 1 > Len(records) THEN 0 ELSE Len(records) - 1 + 1
      BY <2>1, FS_Interval
    <3> QED BY <2>1, <3>1
  <2> QED BY <2>3, <2>4
<1>3. BagTypeOK
  BY <1>1, <1>2 DEF BagInv, BagTyped, BagTypeOK, Records
<1>4. ASSUME NEW c \in BagCalls
      PROVE  Cardinality({i \in DOMAIN records : records[i].call = c})
               = IF pc[c] = "new" THEN 0 ELSE 1
  <2>1. CASE pc[c] = "new"
    <3>1. {i \in DOMAIN records : records[i].call = c} = {}
      BY <2>1 DEF BagInv, OneRecordEach, Started
    <3> QED BY <2>1, <3>1, FS_EmptySet
  <2>2. CASE pc[c] # "new"
    <3>1. PICK j \in DOMAIN records : records[j].call = c
      BY <2>2 DEF BagInv, OneRecordEach, Started
    <3>2. {i \in DOMAIN records : records[i].call = c} = {j}
      BY <3>1 DEF BagInv, OneRecordEach
    <3> QED BY <2>2, <3>2, FS_Singleton
  <2> QED BY <2>1, <2>2
<1>5. \A i \in DOMAIN records : records[i].call # None
  BY BagAssumption DEF BagInv, OneRecordEach, Started
<1>6. {records[i].result : i \in Filled} = {text[c] : c \in Done} \ {None}
  BY BagAssumption DEF BagInv, OneResultEach, Done
<1> QED BY <1>3, <1>4, <1>5, <1>6
        DEF RecordsAreRight, RecordsMatchCalls, BagInv, OneResultEach

(* Every call has one record and no result is lost, overwritten or given   *)
(* to a call of another round, for any number of calls and rounds.         *)
THEOREM RecordsComplete == BagSpec => []RecordsAreRight
BY BagInvInit, BagStep, BagInvMeans, PTL DEF BagSpec

-----------------------------------------------------------------------------
(* The retry gate.                                                         *)

JudgedTypes == [text : {"ok", "paramText", "stop"}, own : Nat]

(* What the tools node hands to the gate.                                  *)
Fresh(s) ==
  /\ s \in Seq(JudgedTypes) /\ Len(s) <= MaxCalls
  /\ \A i \in DOMAIN s : s[i].own = 0 /\ s[i].text \in {"ok", "paramText"}

(* The results that the gate has judged, and its verdict for a run alone.  *)
Exact(s) == \A i \in DOMAIN s : s[i].own > 0 => (s[i].text = "stop" <=> s[i].own > MaxRetries)

LEMMA ExactOneMore ==
  ASSUME NEW s \in Seq(JudgedTypes), NEW e \in JudgedTypes
  PROVE  /\ Append(s, e) \in Seq(JudgedTypes) /\ Len(Append(s, e)) = Len(s) + 1
         /\ Exact(s) /\ (e.own > 0 => (e.text = "stop" <=> e.own > MaxRetries)) => Exact(Append(s, e))
<1> DEFINE n == Len(s)
           t == Append(s, e)
<1>1. /\ t \in Seq(JudgedTypes) /\ Len(t) = n + 1 /\ n \in Nat
      /\ DOMAIN t = 1..(n + 1) /\ DOMAIN s = 1..n
      /\ \A i \in 1..n : t[i] = s[i]
      /\ t[n + 1] = e
  BY AppendProperties, LenProperties
<1> HIDE DEF n, t
<1>2. ASSUME Exact(s), e.own > 0 => (e.text = "stop" <=> e.own > MaxRetries) PROVE Exact(t)
  <2> SUFFICES ASSUME NEW i \in 1..(n + 1)
               PROVE  t[i].own > 0 => (t[i].text = "stop" <=> t[i].own > MaxRetries)
    BY <1>1 DEF Exact
  <2>1. i \in 1..n \/ i = n + 1
    BY <1>1
  <2> QED BY <1>1, <1>2, <2>1 DEF Exact
<1> QED BY <1>1, <1>2 DEF n, t

Starts(r) == [count |-> count, streak |-> streak[r], out |-> <<>>]

LEMMA JudgedSofar ==
  ASSUME NEW r \in Runs, NEW n \in Nat, msgs[r] \in Seq(JudgedTypes), n <= Len(msgs[r])
  PROVE  \E g : g = [i \in 0..n |-> IF i = 0 THEN Starts(r) ELSE Judge(g[i - 1], msgs[r][i])]
<1> DEFINE Step(g, i) == IF i = 0 THEN Starts(r) ELSE Judge(g[i - 1], msgs[r][i])
           Has(k) == \E g : g = [i \in 0..k |-> Step(g, i)]
           S == {k \in Nat : Has(k)}
<1>1. 0 \in S
  <2>1. [i \in 0..0 |-> Starts(r)] = [i \in 0..0 |-> Step([j \in 0..0 |-> Starts(r)], i)]
    OBVIOUS
  <2> QED BY <2>1
<1>2. ASSUME NEW k \in S PROVE k + 1 \in S
  <2>1. PICK g : g = [i \in 0..k |-> Step(g, i)]
    OBVIOUS
  <2> DEFINE h == [i \in 0..(k + 1) |-> IF i = k + 1 THEN Judge(g[k], msgs[r][k + 1]) ELSE g[i]]
  <2>2. \A i \in 0..(k + 1) : h[i] = Step(h, i)
    <3> SUFFICES ASSUME NEW i \in 0..(k + 1) PROVE h[i] = Step(h, i)
      OBVIOUS
    <3>1. \A j \in 0..k : h[j] = g[j] /\ g[j] = Step(g, j)
      <4>1. \A j \in 0..k : j \in 0..(k + 1) /\ j # k + 1
        OBVIOUS
      <4>2. \A j \in 0..k : h[j] = g[j]
        BY <4>1
      <4> HIDE DEF Step, h
      <4>3. \A j \in 0..k : g[j] = Step(g, j)
        BY <2>1
      <4> QED BY <4>2, <4>3
    <3>2. h[k + 1] = Judge(g[k], msgs[r][k + 1])
      OBVIOUS
    <3>3. k \in Nat
      OBVIOUS
    <3> HIDE DEF h
    <3>4. CASE i = k + 1
      <4>1. i # 0 /\ i - 1 = k /\ h[k] = g[k]
        BY <3>1, <3>3, <3>4
      <4> QED BY <3>2, <3>4, <4>1
    <3>5. CASE i \in 1..k
      <4>1. i # 0 /\ h[i - 1] = g[i - 1] /\ h[i] = g[i] /\ g[i] = Step(g, i)
        BY <3>1, <3>3, <3>5
      <4> QED BY <4>1
    <3>6. CASE i = 0
      BY <3>1, <3>3, <3>6
    <3> QED BY <3>3, <3>4, <3>5, <3>6
  <2>3. h = [i \in 0..(k + 1) |-> Step(h, i)]
    BY <2>2
  <2> HIDE DEF h
  <2>4. Has(k + 1) /\ k + 1 \in Nat
    BY <2>3
  <2> QED BY <2>4
<1>3. S = Nat
  BY <1>1, <1>2, AllNumbers
<1> QED BY <1>3

(* What Judgements is: each message is judged by the gate that the one     *)
(* before it leaves.                                                       *)
LEMMA JudgementsAre ==
  ASSUME NEW r \in Runs, msgs[r] \in Seq(JudgedTypes)
  PROVE  LET G == Judgements(r) IN
         /\ G[0] = Starts(r)
         /\ \A i \in 1..Len(msgs[r]) : G[i] = Judge(G[i - 1], msgs[r][i])
<1> DEFINE n == Len(msgs[r])
           G == Judgements(r)
<1>1. n \in Nat
  OBVIOUS
<1>2. \E g : g = [i \in 0..n |-> IF i = 0 THEN Starts(r) ELSE Judge(g[i - 1], msgs[r][i])]
  BY <1>1, JudgedSofar
<1>3. G = [i \in 0..n |-> IF i = 0 THEN Starts(r) ELSE Judge(G[i - 1], msgs[r][i])]
  BY <1>2 DEF Judgements, Starts
<1> HIDE DEF G
<1>4. G[0] = Starts(r)
  BY <1>1, <1>3
<1>5. \A i \in 1..n : G[i] = Judge(G[i - 1], msgs[r][i])
  BY <1>1, <1>3
<1> QED BY <1>4, <1>5 DEF G

(* The gate counts what the run counts, when both start with one count.    *)
JudgedUpTo(g, r, i) ==
  /\ g.count \in Nat /\ g.streak \in Nat
  /\ g.out \in Seq(JudgedTypes) /\ Len(g.out) = i
  /\ count = streak[r] => g.count = g.streak /\ Exact(g.out)

LEMMA JudgementsExact ==
  ASSUME NEW r \in Runs, Fresh(msgs[r]), count \in Nat, streak[r] \in Nat
  PROVE  JudgedUpTo(Judgements(r)[Len(msgs[r])], r, Len(msgs[r]))
<1> DEFINE n == Len(msgs[r])
           G == Judgements(r)
           S == {k \in Nat : k <= n => JudgedUpTo(G[k], r, k)}
<1>1. n \in Nat /\ msgs[r] \in Seq(JudgedTypes)
  BY DEF Fresh
<1>2. G[0] = Starts(r) /\ \A i \in 1..n : G[i] = Judge(G[i - 1], msgs[r][i])
  BY <1>1, JudgementsAre
<1> HIDE DEF G
<1>3. 0 \in S
  <2>1. G[0].count = count /\ G[0].streak = streak[r] /\ G[0].out = <<>>
    BY <1>2 DEF Starts
  <2> DEFINE g == G[0]
  <2> HIDE DEF g
  <2>2. g.count = count /\ g.streak = streak[r] /\ g.out = <<>>
    BY <2>1 DEF g
  <2>3. JudgedUpTo(g, r, 0)
    BY <2>2 DEF JudgedUpTo, Exact
  <2> QED BY <2>3 DEF g
<1>4. ASSUME NEW k \in S PROVE k + 1 \in S
  <2> SUFFICES ASSUME k + 1 <= n PROVE JudgedUpTo(G[k + 1], r, k + 1)
    OBVIOUS
  <2> DEFINE g == G[k]
             m == msgs[r][k + 1]
  <2>1. k \in Nat /\ k + 1 \in 1..n /\ k + 1 - 1 = k
    BY <1>1
  <2>2. JudgedUpTo(g, r, k) /\ G[k + 1] = Judge(g, m)
    BY <1>1, <1>2, <2>1
  <2>3. m \in JudgedTypes /\ m.own = 0 /\ m.text \in {"ok", "paramText"}
    BY <2>1 DEF Fresh
  <2> HIDE DEF g, m
  <2>4. CASE m.text = "paramText"
    <3> DEFINE e == Result(IF OverLimit(g.count + 1) THEN "stop" ELSE "paramText", g.streak + 1)
    <3>1. /\ Judge(g, m).count = g.count + 1 /\ Judge(g, m).streak = g.streak + 1
          /\ Judge(g, m).out = Append(g.out, e)
      BY <2>4 DEF Judge
    <3>2. e \in JudgedTypes /\ e.own = g.streak + 1
          /\ (e.text = "stop" <=> g.count + 1 > MaxRetries)
      BY <2>2 DEF Result, JudgedTypes, JudgedUpTo, OverLimit
    <3> HIDE DEF e
    <3>3. /\ g.count \in Nat /\ g.streak \in Nat /\ g.out \in Seq(JudgedTypes) /\ Len(g.out) = k
          /\ count = streak[r] => g.count = g.streak /\ Exact(g.out)
      BY <2>2 DEF JudgedUpTo
    <3>4. /\ Append(g.out, e) \in Seq(JudgedTypes) /\ Len(Append(g.out, e)) = k + 1
          /\ count = streak[r] => Exact(Append(g.out, e))
      BY <3>2, <3>3, ExactOneMore
    <3> DEFINE v == Judge(g, m)
    <3>5. G[k + 1] = v /\ v.count = g.count + 1 /\ v.streak = g.streak + 1 /\ v.out = Append(g.out, e)
      BY <2>2, <3>1
    <3> HIDE DEF v
    <3>6. v.count \in Nat /\ v.streak \in Nat /\ (count = streak[r] => v.count = v.streak)
      BY <3>3, <3>5
    <3>7. v.out \in Seq(JudgedTypes) /\ Len(v.out) = k + 1 /\ (count = streak[r] => Exact(v.out))
      BY <3>4, <3>5
    <3> QED BY <3>5, <3>6, <3>7 DEF JudgedUpTo
  <2>5. CASE m.text # "paramText"
    <3>1. /\ Judge(g, m).count = 0 /\ Judge(g, m).streak = 0
          /\ Judge(g, m).out = Append(g.out, m)
      BY <2>5 DEF Judge, AfterSuccess
    <3>2. /\ g.out \in Seq(JudgedTypes) /\ Len(g.out) = k
          /\ count = streak[r] => Exact(g.out)
      BY <2>2 DEF JudgedUpTo
    <3>3. /\ Append(g.out, m) \in Seq(JudgedTypes) /\ Len(Append(g.out, m)) = k + 1
          /\ count = streak[r] => Exact(Append(g.out, m))
      BY <2>3, <3>2, ExactOneMore
    <3> QED BY <2>1, <2>2, <3>1, <3>3 DEF JudgedUpTo
  <2> QED BY <2>4, <2>5
<1>5. S = Nat
  BY <1>3, <1>4, AllNumbers
<1> QED BY <1>1, <1>5 DEF G

-----------------------------------------------------------------------------
(* The count of the gate is that of a run that is alone; what it has       *)
(* judged is right.                                                        *)
MsgsTyped(r) ==
  /\ msgs[r] \in Seq(JudgedTypes) /\ Len(msgs[r]) <= MaxCalls
  /\ node[r] = "retry_gate" => Fresh(msgs[r])

LoopTyped ==
  /\ count \in Nat
  /\ node \in [Runs -> Nodes \cup {"ended", "failed"}]
  /\ steps \in [Runs -> 0..MaxRunSteps]
  /\ DOMAIN msgs = Runs /\ \A r \in Runs : MsgsTyped(r)
  /\ streak \in [Runs -> Nat]
  /\ why \in [Runs -> Failures \cup {"none"}]

GateCounts(r) ==
  Alone(r) => count = streak[r] /\ (node[r] = "tool_as_user" => Exact(msgs[r]))

LoopInv == LoopTyped /\ \A r \in Runs : GateCounts(r)

LEMMA LoopInvInit == LoopInit => LoopInv
  BY AgentLoopAssumption
     DEF LoopInit, LoopInv, LoopTyped, MsgsTyped, GateCounts, Nodes, Failures

(* A run that has left its first node never comes back to it.              *)
LEMMA LeavesTheStart ==
  ASSUME LoopInv, NEW r \in Runs, Run(r)
  PROVE  /\ node' \in [Runs -> Nodes \cup {"ended", "failed"}] /\ node'[r] # "to_messages"
         /\ \A q \in Runs : q # r => node'[q] = node[q]
BY DEF Run, ToMessages, ModelCallsTools, ModelAnswers, ToolsReturn, ToolsFail, Intercept,
       ToolAsUser, ExceedsSteps, Execute, LoopInv, LoopTyped, Nodes

LEMMA StepsBounded ==
  ASSUME LoopInv, NEW r \in Runs, Run(r)
  PROVE  steps' \in [Runs -> 0..MaxRunSteps]
<1>1. ASSUME NEW n \in {1, 2}, MayStep(r, n), steps' = [steps EXCEPT ![r] = Counted(r, n)]
      PROVE  steps' \in [Runs -> 0..MaxRunSteps]
  BY <1>1, AgentLoopAssumption DEF MayStep, Counted, LoopInv, LoopTyped
<1>2. CASE UNCHANGED steps
  BY <1>2 DEF LoopInv, LoopTyped
<1> QED BY <1>1, <1>2
        DEF Run, ToMessages, ModelCallsTools, ModelAnswers, ToolsReturn, ToolsFail, Intercept,
            ToolAsUser, ExceedsSteps, Execute

LEMMA WhyTyped ==
  ASSUME LoopInv, NEW r \in Runs, Run(r)
  PROVE  why' \in [Runs -> Failures \cup {"none"}]
BY DEF Run, ToMessages, ModelCallsTools, ModelAnswers, ToolsReturn, ToolsFail, Intercept,
       ToolAsUser, ExceedsSteps, LoopInv, LoopTyped, Failures

(* What a step of r does to the messages and the counts.                   *)
LEMMA RunJudged ==
  ASSUME LoopInv, NEW r \in Runs, Run(r)
  PROVE  /\ count' \in Nat /\ streak' \in [Runs -> Nat]
         /\ DOMAIN msgs' = Runs /\ MsgsTyped(r)'
         /\ \A q \in Runs : q # r => msgs'[q] = msgs[q] /\ streak'[q] = streak[q]
         /\ count = streak[r] =>
              count' = streak'[r] /\ (node'[r] = "tool_as_user" => Exact(msgs'[r]))
<1> USE DEF LoopInv, LoopTyped, Execute
<1>1. CASE \/ ToMessages(r) \/ ModelCallsTools(r) \/ ModelAnswers(r) \/ ExceedsSteps(r)
           \/ \E cause \in Failures \ {"maxSteps"} : ToolsFail(r, cause)
  <2>1. /\ UNCHANGED <<count, msgs, streak>> /\ node'[r] # "tool_as_user"
        /\ node'[r] # "retry_gate"
    BY <1>1 DEF ToMessages, ModelCallsTools, ModelAnswers, ExceedsSteps, ToolsFail
  <2> QED BY <2>1 DEF MsgsTyped
<1>2. CASE ToolsReturn(r)
  <2>1. PICK texts \in BoundedSeq({"ok", "paramText"}, MaxCalls) \ {<<>>} :
          msgs' = [msgs EXCEPT ![r] = [i \in DOMAIN texts |-> Result(texts[i], 0)]]
    BY <1>2 DEF ToolsReturn
  <2>2. texts \in Seq({"ok", "paramText"}) /\ Len(texts) <= MaxCalls
    <3>1. PICK m \in 0..MaxCalls : texts \in [1..m -> {"ok", "paramText"}]
      BY DEF BoundedSeq, SeqOf
    <3> QED BY <3>1, AgentLoopAssumption
  <2> DEFINE s == [i \in DOMAIN texts |-> Result(texts[i], 0)]
  <2>3. Fresh(s)
    <3>1. /\ DOMAIN texts = 1..Len(texts) /\ Len(texts) \in Nat
          /\ \A i \in DOMAIN texts : texts[i] \in {"ok", "paramText"}
      BY <2>2
    <3>2. \A i \in DOMAIN texts : /\ s[i] \in JudgedTypes /\ s[i].own = 0
                                  /\ s[i].text \in {"ok", "paramText"}
      BY <3>1 DEF Result, JudgedTypes
    <3>3. s \in Seq(JudgedTypes) /\ Len(s) = Len(texts) /\ DOMAIN s = DOMAIN texts
      BY <3>1, <3>2
    <3> HIDE DEF s
    <3> QED BY <2>2, <3>2, <3>3 DEF Fresh
  <2> HIDE DEF s
  <2>4. node'[r] = "retry_gate" /\ UNCHANGED <<count, streak>>
    BY <1>2 DEF ToolsReturn
  <2> QED BY <2>1, <2>3, <2>4 DEF MsgsTyped, Fresh, s
<1>3. CASE Intercept(r)
  <2> DEFINE n == Len(msgs[r])
             g == Judgements(r)[n]
  <2>1. JudgedUpTo(g, r, n)
    BY <1>3, JudgementsExact DEF Intercept, MsgsTyped
  <2>2. /\ count' = g.count /\ streak' = [streak EXCEPT ![r] = g.streak]
        /\ msgs' = [msgs EXCEPT ![r] = g.out] /\ node'[r] = "tool_as_user"
    BY <1>3 DEF Intercept
  <2>3. n <= MaxCalls
    BY DEF MsgsTyped
  <2> HIDE DEF g, n
  <2> QED BY <2>1, <2>2, <2>3 DEF JudgedUpTo, MsgsTyped
<1>4. CASE ToolAsUser(r)
  <2>1. /\ msgs' = [msgs EXCEPT ![r] = <<>>] /\ UNCHANGED <<count, streak>>
        /\ node'[r] = "chat_model"
    BY <1>4 DEF ToolAsUser
  <2> QED BY <2>1, AgentLoopAssumption DEF MsgsTyped, JudgedTypes
<1> QED BY <1>1, <1>2, <1>3, <1>4 DEF Run

LEMMA LoopStep == LoopInv /\ [LoopNext]_loopVars => LoopInv'
<1>1. ASSUME LoopInv, UNCHANGED loopVars PROVE LoopInv'
  BY <1>1 DEF loopVars, LoopInv, LoopTyped, MsgsTyped, GateCounts, Alone
<1>2. ASSUME LoopInv, NEW r \in Runs, Run(r) PROVE LoopInv'
  <2>1. /\ node' \in [Runs -> Nodes \cup {"ended", "failed"}] /\ node'[r] # "to_messages"
        /\ \A q \in Runs : q # r => node'[q] = node[q]
    BY <1>2, LeavesTheStart
  <2>2. /\ count' \in Nat /\ streak' \in [Runs -> Nat]
        /\ DOMAIN msgs' = Runs /\ MsgsTyped(r)'
        /\ \A q \in Runs : q # r => msgs'[q] = msgs[q] /\ streak'[q] = streak[q]
        /\ count = streak[r] =>
             count' = streak'[r] /\ (node'[r] = "tool_as_user" => Exact(msgs'[r]))
    BY <1>2, RunJudged
  <2>3. \A q \in Runs : q # r => MsgsTyped(q)'
    BY <1>2, <2>1, <2>2 DEF LoopInv, LoopTyped, MsgsTyped
  <2>4. LoopTyped'
    BY <1>2, <2>1, <2>2, <2>3, StepsBounded, WhyTyped DEF LoopTyped
  <2>5. GateCounts(r)'
    <3>1. Alone(r)' => Alone(r)
      BY <2>1 DEF Alone
    <3> QED BY <1>2, <2>2, <3>1 DEF LoopInv, GateCounts
  <2>6. \A q \in Runs : q # r => ~Alone(q)'
    BY <2>1 DEF Alone
  <2> QED BY <2>4, <2>5, <2>6 DEF LoopInv, GateCounts
<1> QED BY <1>1, <1>2 DEF LoopNext

(* However many calls a turn has and however many runs share the gate, it  *)
(* stops one that has been alone when it exceeds the limit, and not before. *)
THEOREM GateExact == LoopSpec => []GateIsExact
<1>1. LoopInv => GateIsExact
  <2> SUFFICES ASSUME LoopInv PROVE GateIsExact
    OBVIOUS
  <2>1. LoopTypeOK
    <3>1. \A r \in Runs : \A i \in DOMAIN msgs[r] : msgs[r][i] \in JudgedTypes
      BY DEF LoopInv, LoopTyped, MsgsTyped
    <3>2. \A r \in Runs : \A i \in DOMAIN msgs[r] : msgs[r][i].text \in {"ok", "paramText", "stop"}
      BY <3>1 DEF JudgedTypes
    <3> QED BY <3>2 DEF LoopInv, LoopTyped, LoopTypeOK, MsgsTyped
  <2>2. GateIsExactAlone
    <3> SUFFICES ASSUME NEW r \in Runs, Alone(r), node[r] = "tool_as_user",
                        NEW m \in ToSet(msgs[r]), m.own > 0
                 PROVE  m.text = "stop" <=> m.own > MaxRetries
      BY DEF GateIsExactAlone, Judged
    <3>1. Exact(msgs[r])
      BY DEF LoopInv, GateCounts
    <3>2. PICK i \in DOMAIN msgs[r] : m = msgs[r][i]
      BY DEF ToSet
    <3> QED BY <3>1, <3>2 DEF Exact
  <2> QED BY <2>1, <2>2 DEF GateIsExact
<1> QED BY <1>1, LoopInvInit, LoopStep, PTL DEF LoopSpec

-----------------------------------------------------------------------------
(* The wrapper around a tool.                                              *)

WrapperTyped ==
  /\ BreakerType
  /\ caller \in [Calls -> {"new", "select", "returned"}]
  /\ worker \in [Calls -> {"none", "running", "ended"} \cup Outcomes]
  /\ ch \in [Calls -> Seq({"ok", "error"})] /\ \A c \in Calls : Len(ch[c]) <= 1
  /\ answer \in [Calls -> {"none", "ok", "error", "timeout", "refused"}]

(* A goroutine starts with its call, and sends once.                       *)
SendsOnce ==
  \A c \in Calls : /\ caller[c] = "new" => worker[c] = "none"
                   /\ worker[c] # "ended" => ch[c] = <<>>

WrapperInv == WrapperTyped /\ SendsOnce /\ ProbesAreCounted

(* The calls whose outcome the breaker will count.                         *)
Awaited(f, g) == {c \in Calls : f[c] /\ g[c] = "select"}

LEMMA AwaitedIsFinite ==
  ASSUME NEW f, NEW g
  PROVE  IsFiniteSet(Awaited(f, g)) /\ Cardinality(Awaited(f, g)) \in Nat
  BY WrapperAssumption, FS_Subset, FS_CardinalityType DEF Awaited

LEMMA CountedIs ==
  /\ ProbesAreCounted <=> (breaker.state = "halfopen" =>
       breaker.started = breaker.succs + Cardinality(Awaited(fresh, caller)))
  /\ ProbesAreCounted' <=> (breaker'.state = "halfopen" =>
       breaker'.started = breaker'.succs + Cardinality(Awaited(fresh', caller')))
  BY DEF ProbesAreCounted, Awaited

LEMMA ProbesStay ==
  ASSUME ProbesAreCounted, UNCHANGED brk,
         \A c \in Calls : fresh[c] => (caller'[c] = "select" <=> caller[c] = "select")
  PROVE  ProbesAreCounted'
<1>1. Awaited(fresh', caller') = Awaited(fresh, caller)
  BY DEF brk, Awaited
<1> QED BY <1>1 DEF ProbesAreCounted, Awaited, brk

(* A breaker that changes its state waits for nobody.                      *)
LEMMA GenerationIsNew ==
  ASSUME NEW b \in {Closed, Opened, HalfOpen}, NewGeneration(b)
  PROVE  ProbesAreCounted' /\ BreakerType'
<1>1. Awaited(fresh', caller') = {}
  BY DEF NewGeneration, Awaited
<1>2. Cardinality(Awaited(fresh', caller')) = 0
  BY <1>1, FS_EmptySet
<1>3. ProbesAreCounted'
  BY <1>2 DEF ProbesAreCounted, Awaited, NewGeneration, Closed, Opened, HalfOpen
<1>4. BreakerType'
  BY BreakerAssumption DEF NewGeneration, BreakerType, Closed, Opened, HalfOpen
<1> QED BY <1>3, <1>4

(* A call that begins is awaited, and counted if it is a probe.            *)
LEMMA InvokeCounts ==
  ASSUME WrapperInv, NEW c \in Calls, Invoke(c)
  PROVE  ProbesAreCounted' /\ BreakerType'
<1>1. caller[c] = "new" /\ BeginCall(c) /\ caller' = [caller EXCEPT ![c] = "select"]
  BY DEF Invoke
<1>2. /\ Awaited(fresh', caller') = Awaited(fresh, caller) \cup {c}
      /\ c \notin Awaited(fresh, caller)
  BY <1>1 DEF BeginCall, Awaited, WrapperInv, WrapperTyped, BreakerType
<1>3. Cardinality(Awaited(fresh', caller')) = Cardinality(Awaited(fresh, caller)) + 1
  BY <1>2, FS_AddElement, AwaitedIsFinite
<1>a. BreakerType /\ ProbesAreCounted
  BY DEF WrapperInv, WrapperTyped
<1>b. fresh' \in [Calls -> BOOLEAN]
  BY <1>1, <1>a DEF BeginCall, BreakerType
<1>4. CASE breaker.state = "halfopen"
  <2>1. breaker.started < Probes /\ breaker' = [breaker EXCEPT !.started = breaker.started + 1]
    BY <1>1, <1>4, <1>a, BreakerAssumption DEF BeginCall, Refuses, BreakerType
  <2>2. breaker.started + 1 \in 0..Probes
    BY <1>a, <2>1, BreakerAssumption DEF BreakerType
  <2>3. BreakerType'
    BY <1>a, <1>b, <2>1, <2>2 DEF BreakerType
  <2>4. /\ breaker'.succs = breaker.succs /\ breaker'.started = breaker.started + 1
        /\ breaker.succs \in Int /\ breaker.started \in Int
    BY <1>a, <2>1 DEF BreakerType
  <2>5. breaker'.started = breaker'.succs + Cardinality(Awaited(fresh', caller'))
    BY <1>3, <1>4, <1>a, <2>4, CountedIs, AwaitedIsFinite
  <2> QED BY <2>3, <2>5, CountedIs
<1>5. CASE breaker.state # "halfopen"
  <2>1. breaker' = breaker
    BY <1>1, <1>5, <1>a DEF BeginCall, BreakerType
  <2> QED BY <1>5, <1>a, <1>b, <2>1 DEF ProbesAreCounted, BreakerType
<1> QED BY <1>4, <1>5

(* A call that ends in time, late or not at all is counted once, and not   *)
(* by a breaker that has changed its state since.                          *)
LEMMA OutcomeCounts ==
  ASSUME WrapperInv, NEW c \in Calls, caller[c] = "select", NEW a, Outcome(c, a)
  PROVE  ProbesAreCounted' /\ BreakerType'
<1>1. /\ CountSuccess(c) \/ CountFailure(c)
      /\ caller' = [caller EXCEPT ![c] = "returned"]
  BY DEF Outcome, Return
<1>2. /\ BreakerType /\ ProbesAreCounted
      /\ \A q \in Calls \ {c} : caller'[q] = caller[q]
      /\ caller'[c] # "select"
  BY <1>1 DEF WrapperInv, WrapperTyped
<1>3. CASE ~fresh[c]
  <2>1. UNCHANGED brk
    BY <1>1, <1>3 DEF CountSuccess, CountFailure
  <2>2. \A q \in Calls : fresh[q] => (caller'[q] = "select" <=> caller[q] = "select")
    BY <1>2, <1>3
  <2>3. BreakerType'
    BY <1>2, <2>1 DEF BreakerType, brk
  <2> QED BY <1>2, <2>1, <2>2, <2>3, ProbesStay
<1>4. CASE NewGeneration(Closed) \/ NewGeneration(Opened)
  BY <1>4, GenerationIsNew
<1>5. CASE fresh[c] /\ ~NewGeneration(Closed) /\ ~NewGeneration(Opened) /\ CountSuccess(c)
  <2>1. /\ ~(breaker.state = "halfopen" /\ breaker.succs + 1 >= Probes)
        /\ breaker' = [breaker EXCEPT !.fails = 0,
             !.succs = IF breaker.state = "halfopen" THEN @ + 1 ELSE @]
        /\ fresh' = fresh
    BY <1>5 DEF CountSuccess
  <2>2. /\ Awaited(fresh', caller') = Awaited(fresh, caller) \ {c}
        /\ c \in Awaited(fresh, caller)
    BY <1>2, <1>5, <2>1 DEF Awaited
  <2>3. Cardinality(Awaited(fresh', caller')) = Cardinality(Awaited(fresh, caller)) - 1
    BY <2>2, AwaitedIsFinite, FS_RemoveElement
  <2>4. /\ breaker'.state = breaker.state /\ breaker'.started = breaker.started
        /\ breaker'.fails = 0
        /\ breaker'.succs = IF breaker.state = "halfopen" THEN breaker.succs + 1
                                                          ELSE breaker.succs
    BY <1>2, <2>1 DEF BreakerType
  <2>5. BreakerType'
    <3>1. 0 \in 0..TripAfter-1 /\ breaker'.succs \in 0..Probes
      BY <1>2, <2>1, <2>4, BreakerAssumption DEF BreakerType
    <3>2. breaker' = [breaker EXCEPT !.fails = 0, !.succs = breaker'.succs]
      BY <1>2, <2>1, <2>4 DEF BreakerType
    <3> QED BY <1>2, <2>1, <3>1, <3>2 DEF BreakerType
  <2>6. ProbesAreCounted'
    <3>1. breaker.succs \in Int /\ breaker.started \in Int
      BY <1>2 DEF BreakerType
    <3>2. breaker.state = "halfopen" =>
            breaker.started = breaker.succs + Cardinality(Awaited(fresh, caller))
      BY <1>2, CountedIs
    <3>3. breaker'.state = "halfopen" =>
            breaker'.started = breaker'.succs + Cardinality(Awaited(fresh', caller'))
      BY <2>3, <2>4, <3>1, <3>2, AwaitedIsFinite
    <3> QED BY <3>3, CountedIs
  <2> QED BY <2>5, <2>6
<1>6. CASE fresh[c] /\ ~NewGeneration(Closed) /\ ~NewGeneration(Opened) /\ CountFailure(c)
  <2>1. /\ breaker.state # "halfopen" /\ breaker.fails + 1 < TripAfter
        /\ breaker' = [breaker EXCEPT !.fails = @ + 1]
        /\ fresh' = fresh
    BY <1>2, <1>6, BreakerAssumption DEF CountFailure, ReadyToTrip, BreakerType
  <2>2. BreakerType'
    BY <1>2, <2>1, BreakerAssumption DEF BreakerType
  <2>3. breaker'.state # "halfopen"
    BY <1>2, <2>1 DEF BreakerType
  <2> QED BY <2>2, <2>3 DEF ProbesAreCounted
<1> QED BY <1>1, <1>3, <1>4, <1>5, <1>6

LEMMA WrapperStarts == WrapperInit => WrapperInv
<1> SUFFICES ASSUME WrapperInit PROVE WrapperInv
  OBVIOUS
<1>1. WrapperTyped /\ SendsOnce
  BY BreakerAssumption
     DEF WrapperInit, BreakerInit, WrapperTyped, BreakerType, Closed, SendsOnce, Outcomes
<1>2. ProbesAreCounted
  BY DEF WrapperInit, BreakerInit, Closed, ProbesAreCounted
<1> QED BY <1>1, <1>2 DEF WrapperInv

LEMMA WrapperStep == WrapperInv /\ [WrapperNext]_wrapperVars => WrapperInv'
<1> SUFFICES ASSUME WrapperInv, [WrapperNext]_wrapperVars PROVE WrapperInv'
  OBVIOUS
<1>0. /\ WrapperTyped /\ SendsOnce /\ ProbesAreCounted
      /\ <<>> \in Seq({"ok", "error"}) /\ Len(<<>>) = 0
  BY DEF WrapperInv
<1>1. CASE BreakerTimer
  <2>1. ProbesAreCounted' /\ BreakerType'
    BY <1>1, GenerationIsNew DEF BreakerTimer
  <2> QED BY <1>0, <1>1, <2>1 DEF BreakerTimer, WrapperInv, WrapperTyped, SendsOnce
<1>2. ASSUME NEW c \in Calls, Refused(c) PROVE WrapperInv'
  <2>1. /\ caller[c] = "new" /\ caller' = [caller EXCEPT ![c] = "returned"]
        /\ answer' = [answer EXCEPT ![c] = "refused"] /\ UNCHANGED <<brk, worker, ch>>
    BY <1>2 DEF Refused, Return
  <2>2. ProbesAreCounted'
    <3>1. \A q \in Calls : caller'[q] = "select" <=> caller[q] = "select"
      BY <1>0, <2>1 DEF WrapperTyped
    <3> QED BY <1>0, <2>1, <3>1, ProbesStay
  <2> QED BY <1>0, <2>1, <2>2 DEF WrapperInv, WrapperTyped, SendsOnce, BreakerType, brk
<1>3. ASSUME NEW c \in Calls, Invoke(c) PROVE WrapperInv'
  <2>1. /\ caller' = [caller EXCEPT ![c] = "select"] /\ worker' = [worker EXCEPT ![c] = "running"]
        /\ UNCHANGED <<ch, answer>> /\ caller[c] = "new"
    BY <1>3 DEF Invoke
  <2>2. ch[c] = <<>>
    BY <1>0, <2>1 DEF SendsOnce
  <2> QED BY <1>0, <1>3, <2>1, <2>2, InvokeCounts DEF WrapperInv, WrapperTyped, SendsOnce
<1>4. ASSUME NEW c \in Calls, NEW outcome \in Outcomes, ToolEnds(c, outcome) PROVE WrapperInv'
  <2>1. /\ worker[c] = "running" /\ worker' = [worker EXCEPT ![c] = outcome]
        /\ UNCHANGED <<brk, caller, ch, answer>>
    BY <1>4 DEF ToolEnds
  <2>2. ProbesAreCounted'
    BY <1>0, <2>1, ProbesStay
  <2> QED BY <1>0, <2>1, <2>2 DEF WrapperInv, WrapperTyped, SendsOnce, BreakerType, brk, Outcomes
<1>5. ASSUME NEW c \in Calls, WorkerSends(c) PROVE WrapperInv'
  <2>1. PICK v \in {"ok", "error"} : ch' = [ch EXCEPT ![c] = Append(@, v)]
    BY <1>5 DEF WorkerSends
  <2>2. /\ worker[c] \in Outcomes /\ worker' = [worker EXCEPT ![c] = "ended"]
        /\ UNCHANGED <<brk, caller, answer>>
    BY <1>5 DEF WorkerSends
  <2>3. ch[c] = <<>>
    BY <1>0, <2>2 DEF SendsOnce, Outcomes
  <2>4. ch'[c] = <<v>> /\ <<v>> \in Seq({"ok", "error"}) /\ Len(<<v>>) = 1
    BY <1>0, <2>1, <2>3 DEF WrapperTyped
  <2>5. ProbesAreCounted'
    BY <1>0, <2>2, ProbesStay
  <2>6. /\ ch' \in [Calls -> Seq({"ok", "error"})]
        /\ \A q \in Calls : Len(ch'[q]) <= 1 /\ (q # c => ch'[q] = ch[q])
    <3>1. ch' = [ch EXCEPT ![c] = <<v>>]
      BY <1>0, <2>1, <2>3, <2>4 DEF WrapperTyped
    <3> QED BY <1>0, <2>4, <3>1 DEF WrapperTyped
  <2>7. worker[c] # "none"
    BY <2>2 DEF Outcomes
  <2> QED BY <1>0, <2>2, <2>5, <2>6, <2>7
          DEF WrapperInv, WrapperTyped, SendsOnce, BreakerType, brk, Outcomes
<1>6. ASSUME NEW c \in Calls, CallerReceives(c) PROVE WrapperInv'
  <2>1. /\ caller[c] = "select" /\ ch[c] # <<>> /\ UNCHANGED worker
        /\ ch' = [ch EXCEPT ![c] = Tail(@)]
    BY <1>6 DEF CallerReceives
  <2>2. PICK a : a = Head(ch[c]) /\ Outcome(c, a)
    BY <1>6 DEF CallerReceives
  <2>3. a \in {"ok", "error"} /\ Tail(ch[c]) = <<>>
    BY <1>0, <2>1, <2>2 DEF WrapperTyped
  <2>4. caller' = [caller EXCEPT ![c] = "returned"] /\ answer' = [answer EXCEPT ![c] = a]
    BY <2>2 DEF Outcome, Return
  <2> QED BY <1>0, <2>1, <2>2, <2>3, <2>4, OutcomeCounts DEF WrapperInv, WrapperTyped, SendsOnce
<1>7. ASSUME NEW c \in Calls, CallerTimesOut(c) PROVE WrapperInv'
  <2>1. /\ caller[c] = "select" /\ Outcome(c, "timeout") /\ UNCHANGED <<worker, ch>>
        /\ caller' = [caller EXCEPT ![c] = "returned"]
        /\ answer' = [answer EXCEPT ![c] = "timeout"]
    BY <1>7 DEF CallerTimesOut, Outcome, Return
  <2> QED BY <1>0, <2>1, OutcomeCounts DEF WrapperInv, WrapperTyped, SendsOnce
<1>8. CASE UNCHANGED wrapperVars
  BY <1>0, <1>8
     DEF wrapperVars, brk, WrapperInv, WrapperTyped, SendsOnce, BreakerType, ProbesAreCounted
<1> QED BY <1>1, <1>2, <1>3, <1>4, <1>5, <1>6, <1>7, <1>8 DEF WrapperNext, Caller

THEOREM WrapperCorrect == WrapperSpec => []WrapperInv
<1> QED BY WrapperStarts, WrapperStep, PTL DEF WrapperSpec

(* No probe of a half-open breaker is lost and no goroutine waits for room,*)
(* whenever tools end, panic or hang, callers time out and the breaker     *)
(* changes its state, for any number of calls.                             *)
THEOREM NothingHeld == WrapperSpec => []NothingIsHeld
<1>1. WrapperInv => NothingIsHeld
  <2>1. SendsOnce => WorkersFindRoom
    BY DEF SendsOnce, WorkersFindRoom, Room, Outcomes
  <2> QED BY <2>1 DEF WrapperInv, NothingIsHeld
<1> QED BY <1>1, WrapperCorrect, PTL

(* The breaker never counts more than it may, and every call is somewhere. *)
THEOREM WrapperTypeCorrect == WrapperSpec => []WrapperTypeOK
<1>1. WrapperInv => WrapperTypeOK
  BY DEF WrapperInv, WrapperTyped, WrapperTypeOK
<1> QED BY <1>1, WrapperCorrect, PTL

-----------------------------------------------------------------------------
(* The three parts side by side: a step of one is a stutter of the others. *)
LEMMA EachPart == MCSpec => LoopSpec /\ BagSpec /\ WrapperSpec
<1> DEFINE Vars == <<part, loopVars, bagVars, wrapperVars>>
<1>1. MCInit => LoopInit /\ BagInit /\ WrapperInit
  BY DEF MCInit
<1>2. [MCNext]_Vars => [LoopNext]_loopVars
  BY DEF MCNext
<1>3. [MCNext]_Vars => [BagNext]_bagVars
  BY DEF MCNext
<1>4. [MCNext]_Vars => [WrapperNext]_wrapperVars
  BY DEF MCNext
<1> QED BY <1>1, <1>2, <1>3, <1>4, PTL DEF MCSpec, LoopSpec, BagSpec, WrapperSpec

(* What TLC checks of the safety of each part on its instance, for any     *)
(* constants.                                                              *)
THEOREM ToolsSafe == MCSpec => [](GateIsExact /\ RecordsAreRight /\ NothingIsHeld)
<1>1. MCSpec => []GateIsExact /\ []RecordsAreRight /\ []NothingIsHeld
  BY EachPart, GateExact, RecordsComplete, NothingHeld
<1> QED BY <1>1, PTL

=============================================================================
