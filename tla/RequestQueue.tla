---------------------------- MODULE RequestQueue ----------------------------
(***************************************************************************)
(* The product-level queue in front of the agent graph                     *)
(* (internal/service/request_queue.go) together with the only code that    *)
(* uses it, the SSE branch of handleAgent (internal/handler/chat.go).      *)
(*                                                                         *)
(* Actors: one HTTP handler goroutine per request, and the single          *)
(* dispatcher goroutine.  They share the pending slice and the dedup map   *)
(* under a mutex (so Submit and Claim are one step each), the one-slot     *)
(* dispatch channel, and per request a buffered ResultCh and an ExecDone   *)
(* channel.                                                                *)
(*                                                                         *)
(* Abstractions: a question is only its dedup key; the answer stream is    *)
(* only "being read" or not; CreatedAt is the position in pending, which   *)
(* is appended to under the mutex.  Every caller sets Timeout > 0 and a    *)
(* non-nil Ctx, so the branches for their absence are left out.            *)
(***************************************************************************)
EXTENDS Integers, Sequences, FiniteSets, SequencesExt

CONSTANTS
  Requests,       \* the QueuedRequest objects, one per HTTP request
  Keys,           \* dedup keys: conversation id and hash of the question
  KeyOf,          \* the dedup key of each request
  Prio,           \* the priority of each request, lower is served first
  ChanCap,        \* capacity of a ResultCh (16 in the code)
  HandlerMayAbort,\* may a handler goroutine die while it reads the stream?
  None            \* no request

ASSUME RequestQueueAssumption ==
  /\ KeyOf \in [Requests -> Keys]
  /\ Prio \in [Requests -> Nat]
  /\ ChanCap \in Nat \ {0}
  /\ HandlerMayAbort \in BOOLEAN
  /\ None \notin Requests

VARIABLES
  pending,   \* q.pending, in order of arrival
  dedup,     \* q.dedup: the queued request that owns a key, or None
  token,     \* is there a token in q.dispatch (capacity 1)?
  dpc,       \* where the dispatcher goroutine is
  cur,       \* the request processNext works on
  resultCh,  \* whose channel each handler ranges over (req.ResultCh)
  buf,       \* the buffered results of each channel
  closed,    \* has each ResultCh been closed?
  execDone,  \* has each request's ExecDone been closed?
  ctx,       \* the execution context of each request
  hpc,       \* where each handler goroutine is
  told       \* the last queue position each client was shown, or -1

queueVars   == <<pending, dedup, token>>
dispVars    == <<dpc, cur>>
chanVars    == <<resultCh, buf, closed>>
handlerVars == <<execDone, hpc, told>>
vars == <<queueVars, dispVars, chanVars, handlerVars, ctx>>

-----------------------------------------------------------------------------
(* Results, queue order and positions. *)

Position(n)  == [kind |-> "position", pos |-> n]
ErrorResult  == [kind |-> "error",    pos |-> -1]
StreamResult == [kind |-> "done",     pos |-> -1]

Results == [kind : {"position"}, pos : Nat]
             \cup {ErrorResult, StreamResult}

IsPending(r) == r \in ToSet(pending)

(* The handler loops over its ResultCh, before or after it had a stream.   *)
Ranging   == {"waiting", "drained"}
Finished  == {"done", "empty", "failed", "aborted"}
HandlerPC == {"new", "reading"} \cup Ranging \cup Finished

(* The dispatcher holds a claimed request.                                 *)
Busy == {"run", "offerError", "closeError", "offerStream", "closeStream",
         "await"}
DispatcherPC == {"idle", "claim"} \cup Busy

(* Variants named F_ are the faulty versions of the definition below them   *)
(* that mutation testing puts in its place.                                *)
F_LaterFirst(i, j) ==
  \/ Prio[pending[i]] < Prio[pending[j]]
  \/ Prio[pending[i]] = Prio[pending[j]] /\ i >= j

(* pending[i] is served no later than pending[j]. *)
ServedFirst(i, j) ==
  \/ Prio[pending[i]] < Prio[pending[j]]
  \/ Prio[pending[i]] = Prio[pending[j]] /\ i <= j

F_IncludingSelf(q, r) == CHOOSE i \in DOMAIN q : q[i] = r

(* The number of requests that arrived before r and are still in q.        *)
PosOf(q, r) == (CHOOSE i \in DOMAIN q : q[i] = r) - 1

(* After a claim every request left in q is offered its new position; a    *)
(* full channel drops it.                                                  *)
Announce(q) ==
  [r \in Requests |->
     IF r \in ToSet(q) /\ Len(buf[r]) < ChanCap
     THEN Append(buf[r], Position(PosOf(q, r)))
     ELSE buf[r]]

F_MinusItself == Len(pending) - 1

(* The position Submit returns: those that are pending but for the new one.*)
InitialPosition == Len(pending)

(* What is left of the queue and of the dedup map after pending[i] is      *)
(* claimed.                                                                *)
F_DropsTheLast(i) == Front(pending)
Without(i)        == RemoveAt(pending, i)

F_KeepsTheKey(r) == dedup
ForgetKey(r)     == [dedup EXCEPT ![KeyOf[r]] = None]

-----------------------------------------------------------------------------
Init ==
  /\ pending  = <<>>
  /\ dedup    = [k \in Keys |-> None]
  /\ token    = FALSE
  /\ dpc      = "idle"
  /\ cur      = None
  /\ resultCh = [r \in Requests |-> None]
  /\ buf      = [r \in Requests |-> <<>>]
  /\ closed   = [r \in Requests |-> FALSE]
  /\ execDone = [r \in Requests |-> FALSE]
  /\ ctx      = [r \in Requests |-> "request"]
  /\ hpc      = [r \in Requests |-> "new"]
  /\ told     = [r \in Requests |-> -1]

-----------------------------------------------------------------------------
(* Submit: join the queued request with the same key, or append. *)

Coalesce(r) ==
  /\ hpc[r] = "new"
  /\ dedup[KeyOf[r]] # None
  /\ resultCh' = [resultCh EXCEPT ![r] = dedup[KeyOf[r]]]
  /\ hpc' = [hpc EXCEPT ![r] = "waiting"]
  /\ UNCHANGED <<queueVars, dispVars, buf, closed, execDone, told, ctx>>

Enqueue(r) ==
  /\ hpc[r] = "new"
  /\ dedup[KeyOf[r]] = None
  /\ pending'  = Append(pending, r)
  /\ dedup'    = [dedup EXCEPT ![KeyOf[r]] = r]
  /\ token'    = TRUE            \* the send is dropped if the slot is full
  /\ resultCh' = [resultCh EXCEPT ![r] = r]
  /\ told'     = [told EXCEPT ![r] = InitialPosition]
  /\ hpc'      = [hpc EXCEPT ![r] = "waiting"]
  /\ UNCHANGED <<dispVars, buf, closed, execDone, ctx>>

-----------------------------------------------------------------------------
(* The dispatcher: DrainAndDispatch and processNext. *)

TakeToken ==
  /\ dpc = "idle"
  /\ token
  /\ token' = FALSE
  /\ dpc' = "claim"
  /\ UNCHANGED <<pending, dedup, cur, chanVars, handlerVars, ctx>>

(* The early return for an empty queue cannot happen: TokensHaveWork.      *)
Claim ==
  /\ dpc = "claim"
  /\ \E i \in DOMAIN pending :
       LET r    == pending[i]
           rest == Without(i)
       IN  /\ \A j \in DOMAIN pending : ServedFirst(i, j)
           /\ cur'     = r
           /\ pending' = rest
           /\ dedup'   = ForgetKey(r)
           /\ buf'     = Announce(rest)
           /\ ctx'     = [ctx EXCEPT ![r] = IF @ = "request" THEN "running"
                                                             ELSE @]
  /\ dpc' = "run"
  /\ UNCHANGED <<token, resultCh, closed, handlerVars>>

(* cancel() on the execution context: no effect on one already done. *)
Release(r) ==
  ctx' = [ctx EXCEPT ![r] = IF @ = "running" THEN "released" ELSE @]

GraphStreams ==
  /\ dpc = "run"
  /\ dpc' = "offerStream"
  /\ UNCHANGED <<queueVars, cur, chanVars, handlerVars, ctx>>

GraphFails ==
  /\ dpc = "run"
  /\ dpc' = "offerError"
  /\ Release(cur)
  /\ UNCHANGED <<queueVars, cur, chanVars, handlerVars>>

F_GraphPanics ==
  /\ dpc = "run"
  /\ dpc' = "idle"
  /\ UNCHANGED <<queueVars, cur, chanVars, handlerVars, ctx>>

(* graph.Stream panics: the deferred recover closes the channel, without   *)
(* calling cancel.                                                         *)
GraphPanics ==
  /\ dpc = "run"
  /\ closed' = [closed EXCEPT ![cur] = TRUE]
  /\ dpc' = "idle"
  /\ UNCHANGED <<queueVars, cur, resultCh, buf, handlerVars, ctx>>

(* The blocking sends of processNext. *)
Offer(from, result, to) ==
  /\ dpc = from
  /\ Len(buf[cur]) < ChanCap
  /\ buf' = [buf EXCEPT ![cur] = Append(@, result)]
  /\ dpc' = to
  /\ UNCHANGED <<queueVars, cur, resultCh, closed, handlerVars, ctx>>

F_OfferTwice == Offer("offerStream", StreamResult, "offerStream")

OfferError  == Offer("offerError", ErrorResult, "closeError")
OfferStream == Offer("offerStream", StreamResult, "closeStream")

CloseResultCh(from, to) ==
  /\ dpc = from
  /\ closed' = [closed EXCEPT ![cur] = TRUE]
  /\ dpc' = to
  /\ UNCHANGED <<queueVars, cur, resultCh, buf, handlerVars, ctx>>

CloseAfterError  == CloseResultCh("closeError", "idle")
CloseAfterStream == CloseResultCh("closeStream", "await")

F_DoesNotAwait ==
  /\ dpc = "await"
  /\ Release(cur)
  /\ dpc' = "idle"
  /\ UNCHANGED <<queueVars, cur, chanVars, handlerVars>>

(* The scheduler context is context.Background(), so only ExecDone ends    *)
(* the wait.                                                               *)
AwaitExecDone ==
  /\ dpc = "await"
  /\ execDone[cur]
  /\ Release(cur)
  /\ dpc' = "idle"
  /\ UNCHANGED <<queueVars, cur, chanVars, handlerVars>>

-----------------------------------------------------------------------------
(* A handler: the range loop over its ResultCh. *)

Receive(h, kind) ==
  LET c == resultCh[h] IN
  /\ hpc[h] \in Ranging
  /\ buf[c] # <<>>
  /\ Head(buf[c]).kind = kind
  /\ buf' = [buf EXCEPT ![c] = Tail(@)]
  /\ UNCHANGED <<queueVars, dispVars, resultCh, closed, execDone, ctx>>

ReceivePosition(h) ==
  /\ Receive(h, "position")
  /\ told' = [told EXCEPT ![h] = Head(buf[resultCh[h]]).pos]
  /\ UNCHANGED hpc

ReceiveError(h) ==
  /\ Receive(h, "error")
  /\ hpc' = [hpc EXCEPT ![h] = "failed"]
  /\ UNCHANGED told

ReceiveStream(h) ==
  /\ Receive(h, "done")
  /\ hpc' = [hpc EXCEPT ![h] = "reading"]
  /\ UNCHANGED told

(* Recv reported EOF or an error; the handler closes the stream and goes   *)
(* back to the range loop.                                                 *)
StreamEnds(h) ==
  /\ hpc[h] = "reading"
  /\ hpc' = [hpc EXCEPT ![h] = "drained"]
  /\ UNCHANGED <<queueVars, dispVars, chanVars, execDone, told, ctx>>

F_NoSignal(h)     == execDone
ExecDoneSignal(h) == [execDone EXCEPT ![h] = TRUE]

(* The range loop ends on a closed, empty channel; the handler signals its *)
(* own ExecDone, and finishes the response.                                *)
LeaveLoop(h) ==
  /\ hpc[h] \in Ranging
  /\ buf[resultCh[h]] = <<>>
  /\ closed[resultCh[h]]
  /\ execDone' = ExecDoneSignal(h)
  /\ hpc' = [hpc EXCEPT ![h] = IF @ = "drained" THEN "done" ELSE "empty"]
  /\ UNCHANGED <<queueVars, dispVars, chanVars, told, ctx>>

(* The handler goroutine unwinds while it reads, before ExecDoneSignal.    *)
Abort(h) ==
  /\ HandlerMayAbort
  /\ hpc[h] = "reading"
  /\ hpc' = [hpc EXCEPT ![h] = "aborted"]
  /\ UNCHANGED <<queueVars, dispVars, chanVars, execDone, told, ctx>>

(* The client disconnects, or the execution timeout fires.                 *)
CutShort(r) ==
  /\ \/ ctx[r] = "request" /\ hpc[r] \notin {"new"} \cup Finished
     \/ ctx[r] = "running"
  /\ ctx' = [ctx EXCEPT ![r] = "cut"]
  /\ UNCHANGED <<queueVars, dispVars, chanVars, handlerVars>>

-----------------------------------------------------------------------------
Submit(r) == Coalesce(r) \/ Enqueue(r)

Dispatcher ==
  \/ TakeToken \/ Claim
  \/ GraphStreams \/ GraphFails \/ GraphPanics
  \/ OfferError \/ OfferStream \/ CloseAfterError \/ CloseAfterStream
  \/ AwaitExecDone

HandlerStep(h) ==
  \/ ReceivePosition(h) \/ ReceiveError(h) \/ ReceiveStream(h)
  \/ StreamEnds(h) \/ LeaveLoop(h)

Next ==
  \/ Dispatcher
  \/ \E r \in Requests : Submit(r) \/ HandlerStep(r) \/ Abort(r) \/ CutShort(r)

Spec == Init /\ [][Next]_vars

(* Goroutines that can run do run.  The graph call and the stream both end *)
(* because the execution context has a deadline; nobody has to submit, to  *)
(* disconnect or to abort.                                                 *)
FairSpec ==
  /\ Spec
  /\ WF_vars(Dispatcher)
  /\ \A h \in Requests : WF_vars(HandlerStep(h))

-----------------------------------------------------------------------------
(* Every variable has its type. *)
TypeOK ==
  /\ pending \in Seq(Requests)
  /\ dedup \in [Keys -> Requests \cup {None}]
  /\ token \in BOOLEAN
  /\ dpc \in DispatcherPC
  /\ cur \in Requests \cup {None}
  /\ resultCh \in [Requests -> Requests \cup {None}]
  /\ buf \in [Requests -> Seq(Results)]
  /\ closed \in [Requests -> BOOLEAN]
  /\ execDone \in [Requests -> BOOLEAN]
  /\ ctx \in [Requests -> {"request", "running", "cut", "released"}]
  /\ hpc \in [Requests -> HandlerPC]
  /\ told \in [Requests -> Nat \cup {-1}]

(* A wake-up is never spent on an empty queue: the token in the channel    *)
(* and the one the dispatcher holds each stand for a queued request, which *)
(* is why losing one strands a request.                                    *)
TokensHaveWork ==
  (IF token THEN 1 ELSE 0) + (IF dpc = "claim" THEN 1 ELSE 0) <= Len(pending)

(* The dedup map and the pending slice, updated at two places each, always *)
(* say the same: a key is owned by exactly the one queued request that has *)
(* it, so a coalesced caller never joins a request that already left the   *)
(* queue and no two queued requests ask the same question.                 *)
DedupMatchesPending ==
  /\ \A i, j \in DOMAIN pending :
       KeyOf[pending[i]] = KeyOf[pending[j]] => i = j
  /\ \A k \in Keys, r \in Requests :
       dedup[k] = r <=> IsPending(r) /\ KeyOf[r] = k

(* A handler that waits on an open channel waits on one that somebody will *)
(* still close: its request is in the queue or the dispatcher works on it. *)
WaiterHasProducer ==
  \A h \in Requests :
    hpc[h] # "new" /\ ~closed[resultCh[h]] =>
      \/ IsPending(resultCh[h])
      \/ dpc \in Busy \ {"await"} /\ cur = resultCh[h]

(* The dispatcher never sends on or closes a channel that is closed, which *)
(* would panic: not when it announces positions to the queued requests,    *)
(* not when it delivers, and not in the recover of processNext.            *)
NoSendOnClosed ==
  /\ \A r \in Requests : IsPending(r) => ~closed[r]
  /\ dpc \in Busy \ {"await"} => ~closed[cur]

(* Two readers on one stream garbled the answers once (the comment before *)
(* the delivery): a stream is in one place at a time, still in its channel *)
(* or read by one handler, however many handlers share the channel.        *)
StreamIn(r) == {i \in DOMAIN buf[r] : buf[r][i].kind = "done"}
Readers(r)  == {h \in Requests : hpc[h] = "reading" /\ resultCh[h] = r}

StreamHasOneReader ==
  \A r \in Requests :
    /\ \A i, j \in StreamIn(r) : i = j
    /\ \A g, h \in Readers(r) : g = h
    /\ StreamIn(r) = {} \/ Readers(r) = {}

(* What the invariants above rest on: a queued or claimed request was      *)
(* submitted and owns its channel, a claimed one has left the queue, and a *)
(* stream is out only on a channel that is closed or about to be.          *)
Ownership ==
  /\ \A r \in Requests :
       IsPending(r) => hpc[r] # "new" /\ resultCh[r] = r
  /\ \A r \in Requests :
       IF hpc[r] = "new" THEN ~closed[r] ELSE resultCh[r] \in Requests
  /\ dpc \in Busy =>
       /\ cur \in Requests
       /\ hpc[cur] # "new" /\ resultCh[cur] = cur /\ ~IsPending(cur)

DeliveredStreams ==
  \A r \in Requests :
    StreamIn(r) # {} \/ Readers(r) # {} =>
      closed[r] \/ (dpc = "closeStream" /\ cur = r)

IInv ==
  /\ TypeOK
  /\ Ownership
  /\ DedupMatchesPending
  /\ WaiterHasProducer
  /\ NoSendOnClosed
  /\ DeliveredStreams
  /\ StreamHasOneReader

(* What OwnerReadsToTheEnd rests on: a context is released after its owner *)
(* has left the loop, or on a channel that will never have a stream: the   *)
(* graph failed, and the channel is closed or about to be.                 *)
ContextInv ==
  \A r \in Requests :
    /\ execDone[r] => hpc[r] \in {"done", "empty"}
    /\ ctx[r] = "released" =>
         \/ execDone[r]
         \/ /\ StreamIn(r) = {} /\ Readers(r) = {}
            /\ closed[r] \/ (cur = r /\ dpc \in {"offerError", "closeError"})

(* What TurnsAreKept rests on: the positions in a channel descend to the   *)
(* place its request has in pending now, and no client of the channel was  *)
(* shown a smaller one.                                                    *)
Positions(r) == {j \in DOMAIN buf[r] : buf[r][j].kind = "position"}

Untold ==
  \A h \in Requests :
    IF hpc[h] = "new" THEN told[h] = -1 /\ buf[h] = <<>>
                      ELSE hpc[resultCh[h]] # "new"

Descending ==
  \A r \in Requests : \A j \in Positions(r) :
    /\ \A i \in Positions(r) : i <= j => buf[r][j].pos <= buf[r][i].pos
    /\ \A i \in DOMAIN pending : pending[i] = r => i - 1 <= buf[r][j].pos

NoneShownLess ==
  \A h, r \in Requests : hpc[h] # "new" /\ told[h] # -1 /\ resultCh[h] = r =>
    /\ \A j \in Positions(r) : buf[r][j].pos <= told[h]
    /\ \A i \in DOMAIN pending : pending[i] = r => i - 1 <= told[h]

PositionInv == Untold /\ Descending /\ NoneShownLess

QueueInv == IInv /\ ContextInv /\ PositionInv

(* cancel() comes after the stream is drained (the comment on the         *)
(* execution context) when the handler that submitted the request is the   *)
(* one that reads it: its context is not released under it.  A coalesced   *)
(* handler that got the stream instead has no such promise.                *)
OwnerReadsToTheEnd ==
  \A h \in Requests :
    hpc[h] = "reading" /\ resultCh[h] = h => ctx[h] # "released"

(* No request overtakes one of the same priority that arrived before it,   *)
(* and none is taken while a more urgent one waits.                        *)
ClaimOrder ==
  [][\A i, j \in DOMAIN pending :
       /\ pending[i] \in ToSet(pending')
       /\ pending[j] \notin ToSet(pending')
       => /\ Prio[pending[j]] <= Prio[pending[i]]
          /\ Prio[pending[j]] = Prio[pending[i]] => j < i]_vars

(* The other requests that are served before pending[i] although they are  *)
(* no more urgent.  No request that comes later joins them.                *)
AheadInTurn(i) ==
  {j \in DOMAIN pending \ {i} :
     ServedFirst(j, i) /\ Prio[pending[i]] <= Prio[pending[j]]}

(* The number that a client was shown last, however old, and whoever took  *)
(* the newer ones from its channel, is enough for those: no more of them   *)
(* are served before its own request.  It is no bound of the more urgent   *)
(* ones, which are served first also when they come later and are counted  *)
(* only when they came earlier.                                            *)
ShownIsEnough ==
  \A h \in Requests, i \in DOMAIN pending :
    hpc[h] # "new" /\ told[h] # -1 /\ resultCh[h] = pending[i] =>
      Cardinality(AheadInTurn(i)) <= told[h]

(* A number that a client is shown is never larger than the one before it. *)
ShownNeverGrows ==
  [][\A h \in Requests : told[h] # -1 => told'[h] <= told[h]]_vars

(* Within a priority a client that is shown n waits for n others at most:  *)
(* nobody of its own priority overtakes it, no more than n are ahead of it *)
(* and n only falls.  What overtakes it is more urgent.                    *)
TurnsAreKept == ClaimOrder /\ [][ShownIsEnough']_vars /\ ShownNeverGrows

(* The dispatcher always comes back to its loop: neither the blocking send *)
(* nor the wait for ExecDone holds up the queue for ever.                  *)
DispatcherReturns == dpc # "idle" ~> dpc = "idle"

(* Every handler whose request has been claimed finishes its response,     *)
(* the coalesced ones too.                                                 *)
ClaimedIsFinished ==
  \A h \in Requests :
    hpc[h] = "waiting" /\ ~IsPending(resultCh[h]) ~> hpc[h] \in Finished

(* The queue that never rejects: every submitted request gets its result.  *)
EveryCallerIsAnswered ==
  \A h \in Requests : hpc[h] = "waiting" ~> hpc[h] \in Finished

-----------------------------------------------------------------------------
(* The queue implements ServeOnce: the handlers, channels, tokens and      *)
(* contexts only stutter.                                                  *)
StatusOf(r) ==
  IF hpc[r] = "new" THEN "new"
  ELSE IF resultCh[r] # r THEN "joined"
  ELSE IF IsPending(r) THEN "queued"
  ELSE IF dpc \in Busy /\ cur = r THEN "running"
  ELSE "served"

absStatus == [r \in Requests |-> StatusOf(r)]

Abs == INSTANCE ServeOnce WITH status <- absStatus

(* Every behaviour of the queue is one of ServeOnce: no request is lost    *)
(* from or served twice by the shared slice, map and channel.              *)
RefinesServeOnce == Abs!Spec

(* Nobody is held up for ever: not the dispatcher, and not a handler whose *)
(* request it has claimed.                                                 *)
ServiceGoesOn == DispatcherReturns /\ ClaimedIsFinished

=============================================================================
