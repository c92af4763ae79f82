--------------------------- MODULE BatchPipeline ----------------------------
(***************************************************************************)
(* Several tasks in one request: the pipeline that runs the agent graph    *)
(* for each (internal/pipeline/batch.go), the SSE handler of /batch        *)
(* (handler/batch.go) and the tool run_batch (component/tool/batch_tool.go)*)
(* that read its channel.                                                  *)
(*                                                                         *)
(* Actors: the goroutine of the batch and the reader.  They share a        *)
(* channel with room for every event, and the context that the reader      *)
(* cancels when the client leaves or the wrapper's time is over.           *)
(*                                                                         *)
(* Abstractions: an answer is "task_done" or "task_error"; the summary     *)
(* text is the two numbers that it shows.                                  *)
(***************************************************************************)
EXTENDS Naturals, Sequences, FiniteSets, TLC

CONSTANTS
  MaxTasks,      \* 10 in the code
  ChannelRoom,   \* 32 in the code
  Ids            \* what a request calls its tasks, "" included

ASSUME BatchAssumption == MaxTasks \in Nat /\ ChannelRoom \in Nat

VARIABLES
  tasks,         \* the tasks of the request
  batchAt,       \* where the goroutine is
  batchId,       \* the task that it runs
  outcome,       \* how that task ended
  results,       \* of the tasks that ended
  batchCh,       \* the channel
  batchGone,     \* the context is done
  readerKind,    \* "sse" or "tool"
  readerAt,      \* where the reader is
  received       \* what it was told

batchVars == <<tasks, batchAt, batchId, outcome, results, batchCh, batchGone, readerKind, readerAt, received>>

BatchInit ==
  /\ tasks = <<>> /\ batchAt = "none" /\ batchId = "" /\ outcome = "" /\ results = <<>>
  /\ batchCh = <<>> /\ batchGone = FALSE /\ readerKind = "none" /\ readerAt = "new" /\ received = <<>>

-----------------------------------------------------------------------------
(* The bound on the tasks, and neither fewer than one.                     *)
SubmitBatch ==
  /\ readerAt = "new"
  /\ readerKind' \in {"sse", "tool"}
  /\ tasks' \in UNION {[1 .. n -> Ids] : n \in 0 .. MaxTasks + 1}
  /\ IF Len(tasks') \in 1 .. MaxTasks
     THEN readerAt' = "reads" /\ batchAt' = "next"
     ELSE readerAt' = "left" /\ batchAt' = "none"
  /\ UNCHANGED <<batchId, outcome, results, batchCh, batchGone, received>>

(* trySend: of two ready cases the select takes either.                    *)
TrySend(e, then) ==
  \/ Len(batchCh) < ChannelRoom /\ batchCh' = Append(batchCh, e) /\ batchAt' = then
  \/ batchGone /\ batchAt' = "closed" /\ UNCHANGED batchCh

Ended(o) == Cardinality({i \in DOMAIN results : results[i] = o})

(* The summary counts the tasks that went well among those that ended; the *)
(* report of a cancelled batch counts those that ended among all of them.  *)
BatchSummary ==
  [type |-> "summary", id |-> "", done |-> Ended("task_done"), of |-> Len(results)]
F_CancelReport ==
  [type |-> "cancelled", id |-> "", done |-> Ended("task_done"), of |-> Len(tasks)]
CancelReport ==
  [type |-> "cancelled", id |-> "", done |-> Len(results), of |-> Len(tasks)]

(* A task without a name is called after its number, whatever the others   *)
(* are called.                                                             *)
TaskId(i) == IF tasks[i] = "" THEN "task_" \o ToString(i) ELSE tasks[i]

StartTask ==
  /\ batchAt = "next" /\ ~batchGone /\ Len(results) < Len(tasks)
  /\ batchId' = TaskId(Len(results) + 1)
  /\ TrySend([type |-> "task_start", id |-> batchId'], "invoke")
  /\ UNCHANGED <<tasks, outcome, results, batchGone, readerKind, readerAt, received>>

(* The context is looked at before each task.                              *)
BatchCancelled ==
  /\ batchAt = "next" /\ batchGone /\ Len(results) < Len(tasks)
  /\ TrySend(CancelReport, "closed")
  /\ UNCHANGED <<tasks, batchId, outcome, results, batchGone, readerKind, readerAt, received>>

(* Invoke returns; an error after the end of the context is not reported.  *)
TaskEnds ==
  /\ batchAt = "invoke"
  /\ \E o \in {"task_done", "task_error"} :
       /\ outcome' = o
       /\ batchAt' = IF o = "task_error" /\ batchGone THEN "closed" ELSE "report"
  /\ UNCHANGED <<tasks, batchId, results, batchCh, batchGone, readerKind, readerAt, received>>

F_AddResult(o) == IF o = "task_done" THEN Append(results, o) ELSE results
AddResult(o)   == Append(results, o)

ReportTask ==
  /\ batchAt = "report"
  /\ TrySend([type |-> outcome, id |-> batchId], "next")
  /\ results' = IF batchAt' = "next" THEN AddResult(outcome) ELSE results
  /\ UNCHANGED <<tasks, batchId, outcome, batchGone, readerKind, readerAt, received>>

(* The summary, and whether or not it was sent, the last event.            *)
Summarise ==
  /\ batchAt = "next" /\ Len(results) = Len(tasks)
  /\ \/ Len(batchCh) < ChannelRoom /\ batchCh' = Append(batchCh, BatchSummary)
     \/ batchGone /\ UNCHANGED batchCh
  /\ batchAt' = "last"
  /\ UNCHANGED <<tasks, batchId, outcome, results, batchGone, readerKind, readerAt, received>>

BatchDone ==
  /\ batchAt = "last"
  /\ TrySend([type |-> "done", id |-> ""], "closed")
  /\ UNCHANGED <<tasks, batchId, outcome, results, batchGone, readerKind, readerAt, received>>

-----------------------------------------------------------------------------
(* c.Stream returns after the last event, run_batch when the channel is    *)
(* closed.                                                                 *)
ReadEvent ==
  /\ readerAt = "reads" /\ batchCh # <<>>
  /\ received' = Append(received, Head(batchCh)) /\ batchCh' = Tail(batchCh)
  /\ readerAt' = IF readerKind = "sse" /\ Head(batchCh).type = "done" THEN "left" ELSE "reads"
  /\ batchGone' = (batchGone \/ readerAt' = "left")
  /\ UNCHANGED <<tasks, batchAt, batchId, outcome, results, readerKind>>

ReadClosed ==
  /\ readerAt = "reads" /\ batchCh = <<>> /\ batchAt = "closed"
  /\ readerAt' = "left" /\ batchGone' = TRUE
  /\ UNCHANGED <<tasks, batchAt, batchId, outcome, results, batchCh, readerKind, received>>

(* The client leaves; the wrapper of run_batch stops waiting, but the tool *)
(* itself reads on.                                                        *)
ReaderCancels ==
  /\ readerAt = "reads" /\ ~batchGone
  /\ batchGone' = TRUE
  /\ readerAt' = IF readerKind = "sse" THEN "left" ELSE "reads"
  /\ UNCHANGED <<tasks, batchAt, batchId, outcome, results, batchCh, readerKind, received>>

BatchSteps == StartTask \/ BatchCancelled \/ TaskEnds \/ ReportTask \/ Summarise \/ BatchDone
BatchNext  == SubmitBatch \/ BatchSteps \/ ReadEvent \/ ReadClosed \/ ReaderCancels

BatchSpec == BatchInit /\ [][BatchNext]_batchVars

-----------------------------------------------------------------------------
(* Every variable has its type. *)
BatchTypeOK ==
  /\ batchAt \in {"none", "next", "invoke", "report", "last", "closed"}
  /\ readerAt \in {"new", "reads", "left"} /\ batchGone \in BOOLEAN
  /\ results \in Seq({"task_done", "task_error"}) /\ Len(batchCh) <= ChannelRoom

Told(T) == {i \in DOMAIN received : received[i].type \in T}

(* What a reader has been told is true and in order, whatever was cancelled*)
(* on the way: each outcome follows the start of its own task, a summary   *)
(* counts the outcomes before it, the report of a cancelled batch counts   *)
(* the tasks that ended and leaves some open, and a reader who stayed to   *)
(* the end of a batch that nobody cancelled has an outcome of every task.  *)
BatchReportIsTrue ==
  /\ \A i \in Told({"task_done", "task_error"}) :
       i > 1 /\ received[i - 1] = [type |-> "task_start", id |-> received[i].id]
  /\ \A i \in Told({"summary"}) :
       /\ received[i].done = Cardinality(Told({"task_done"}))
       /\ received[i].of = Cardinality(Told({"task_done", "task_error"}))
       /\ received[i].of = Len(tasks)
  /\ \A i \in Told({"cancelled"}) :
       /\ received[i].done = Cardinality(Told({"task_done", "task_error"}))
       /\ received[i].done < received[i].of /\ received[i].of = Len(tasks)
  /\ Told({"done"}) # {} /\ Told({"summary"}) # {} =>
       Cardinality(Told({"task_done", "task_error"})) = Len(tasks)

=============================================================================
