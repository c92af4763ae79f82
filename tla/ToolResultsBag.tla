--------------------------- MODULE ToolResultsBag ---------------------------
(***************************************************************************)
(* The collector of tool calls and results of one agent run                *)
(* (internal/callback/tool_collector.go).                                  *)
(*                                                                         *)
(* Actors: the calls of one round run concurrently in the tools node; the  *)
(* next round starts when all of them are done.  Each call reports its     *)
(* start and its end to the bag; the end is two critical sections, one for *)
(* Results and one for Records.                                            *)
(*                                                                         *)
(* eino passes no tool call id to the callbacks of a tool, so FillResult   *)
(* always takes the first empty slot; the branches for messages with ids   *)
(* are left out.  A result is the call that produced it, or empty: a tool  *)
(* may return the empty string.                                            *)
(***************************************************************************)
EXTENDS Integers, Sequences, FiniteSets, SequencesExt

CONSTANTS
  BagCalls,        \* the tool calls of the run
  RoundOf,      \* the round each call belongs to
  None          \* an empty text

ASSUME BagAssumption ==
  /\ RoundOf \in [BagCalls -> Nat]
  /\ None \notin BagCalls
  /\ IsFiniteSet(BagCalls)

VARIABLES
  records,   \* bag.Records: the call and the result of each record
  results,   \* bag.Results
  text,      \* what each call returned
  pc         \* where each call is

bagVars == <<records, results, text, pc>>

BagInit ==
  /\ records = <<>> /\ results = <<>>
  /\ text = [c \in BagCalls |-> None]
  /\ pc   = [c \in BagCalls |-> "new"]

(* OnStart: appendRecord. *)
OnStart(c) ==
  /\ pc[c] = "new"
  /\ \A d \in BagCalls : RoundOf[d] < RoundOf[c] => pc[d] = "done"
  /\ records' = Append(records, [call |-> c, result |-> None])
  /\ pc' = [pc EXCEPT ![c] = "running"]
  /\ UNCHANGED <<results, text>>

(* OnEnd: the first half of appendMsg. *)
OnEnd(c) ==
  /\ pc[c] = "running"
  /\ \E t \in {c, None} :
       /\ text' = [text EXCEPT ![c] = t]
       /\ results' = Append(results, t)
  /\ pc' = [pc EXCEPT ![c] = "filling"]
  /\ UNCHANGED records

EmptySlots == {i \in DOMAIN records : records[i].result = None}

F_TheFirst(S)  == 1
F_NewRecord(S) == Len(records) + 1
(* The first empty slot, or a new record behind the others.                *)
SlotFor(S) == IF S = {} THEN Len(records) + 1
              ELSE CHOOSE i \in S : \A j \in S : i <= j

(* FillResult, the second half of appendMsg. *)
FillResult(c) ==
  LET i == SlotFor(EmptySlots) IN
  /\ pc[c] = "filling"
  /\ records' = IF i \in DOMAIN records
                THEN [records EXCEPT ![i].result = text[c]]
                ELSE Append(records, [call |-> None, result |-> text[c]])
  /\ pc' = [pc EXCEPT ![c] = "done"]
  /\ UNCHANGED <<results, text>>

BagNext == \E c \in BagCalls : OnStart(c) \/ OnEnd(c) \/ FillResult(c)

BagSpec == BagInit /\ [][BagNext]_bagVars

-----------------------------------------------------------------------------
(* Every variable has its type. *)
BagTypeOK ==
  /\ records \in Seq([call : BagCalls \cup {None}, result : BagCalls \cup {None}])
  /\ results \in Seq(BagCalls \cup {None})
  /\ Len(records) <= Cardinality(BagCalls) /\ Len(results) <= Cardinality(BagCalls)
  /\ text \in [BagCalls -> BagCalls \cup {None}]
  /\ pc \in [BagCalls -> {"new", "running", "filling", "done"}]

Filled == {i \in DOMAIN records : records[i].result # None}
Done   == {c \in BagCalls : pc[c] = "done"}

(* Every call has one record, whatever order the callbacks come in: none   *)
(* is added because a result found no empty slot.  And no result is lost   *)
(* or overwritten: the filled slots hold the texts of the calls that are   *)
(* done, each once.                                                        *)
RecordsMatchCalls ==
  /\ \A i \in DOMAIN records : records[i].call # None
  /\ \A c \in BagCalls :
       Cardinality({i \in DOMAIN records : records[i].call = c})
         = IF pc[c] = "new" THEN 0 ELSE 1
  /\ {records[i].result : i \in Filled} = {text[c] : c \in Done} \ {None}
  /\ \A i, j \in Filled : records[i].result = records[j].result => i = j

(* A result may end up with another call of its round but never with one   *)
(* of another round, as long as no tool has returned an empty text; so a   *)
(* round with one call is exact (the comment on ToolResultsBag).           *)
RoundsAreExact ==
  (\A c \in BagCalls : pc[c] \in {"filling", "done"} => text[c] # None) =>
     \A i \in Filled : RoundOf[records[i].call] = RoundOf[records[i].result]

(* One record for each call, and its result at most one of its round.      *)
RecordsAreRight == BagTypeOK /\ RecordsMatchCalls /\ RoundsAreExact

=============================================================================
