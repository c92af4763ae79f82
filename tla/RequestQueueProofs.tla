------------------------- MODULE RequestQueueProofs -------------------------
(***************************************************************************)
(* Proofs about RequestQueue, for every set of requests, every assignment  *)
(* of keys and priorities and every channel capacity.                      *)
(***************************************************************************)
EXTENDS RequestQueue, SequenceTheorems, FiniteSetTheorems, TLAPS

(* A claim takes exactly the claimed element out of a slice without        *)
(* duplicates; the order of the others is kept.                            *)
LEMMA RemoveAtIsSeq ==
  ASSUME NEW S, NEW s \in Seq(S), NEW i \in DOMAIN s
  PROVE  /\ RemoveAt(s, i) \in Seq(S)
         /\ Len(RemoveAt(s, i)) = Len(s) - 1
         /\ \A j \in 1..(Len(s) - 1) :
              RemoveAt(s, i)[j] = IF j < i THEN s[j] ELSE s[j + 1]
<1> DEFINE a == SubSeq(s, 1, i - 1)
           b == SubSeq(s, i + 1, Len(s))
<1>1. Len(s) \in Nat /\ i \in 1..Len(s)
  OBVIOUS
<1>2. /\ a \in Seq(S) /\ Len(a) = i - 1
      /\ \A j \in 1..(i - 1) : a[j] = s[j]
  BY <1>1, SubSeqProperties
<1>3. /\ b \in Seq(S) /\ Len(b) = Len(s) - i
      /\ \A j \in 1..(Len(s) - i) : b[j] = s[i + j]
  BY <1>1, SubSeqProperties
<1>4. RemoveAt(s, i) = a \o b
  BY DEF RemoveAt
<1> HIDE DEF a, b
<1>5. /\ a \o b \in Seq(S)
      /\ Len(a \o b) = Len(s) - 1
  BY <1>1, <1>2, <1>3
<1>6. ASSUME NEW j \in 1..(Len(s) - 1)
      PROVE  (a \o b)[j] = IF j < i THEN s[j] ELSE s[j + 1]
  <2>1. CASE j < i
    <3>1. j \in 1..(i - 1)
      BY <1>1, <2>1
    <3>2. (a \o b)[j] = a[j]
      BY <1>2, <1>3, <3>1, ConcatProperties
    <3> QED BY <1>2, <2>1, <3>1, <3>2
  <2>2. CASE ~(j < i)
    <3>1. (a \o b)[j] = b[j - Len(a)]
      <4>1. j \in 1..(Len(a) + Len(b)) /\ ~(j <= Len(a)) /\ ~(j \in 1..Len(a))
        BY <1>1, <1>2, <1>3, <2>2
      <4> QED BY <1>2, <1>3, <4>1, ConcatProperties
    <3>2. j - Len(a) \in 1..(Len(s) - i)
      BY <1>1, <1>2, <2>2
    <3>3. b[j - Len(a)] = s[i + (j - Len(a))]
      BY <1>3, <3>2
    <3>4. i + (j - Len(a)) = j + 1
      BY <1>1, <1>2
    <3> QED BY <2>2, <3>1, <3>3, <3>4
  <2> QED BY <2>1, <2>2
<1> QED BY <1>4, <1>5, <1>6

LEMMA RemoveAtElements ==
  ASSUME NEW S, NEW s \in Seq(S), NEW i \in DOMAIN s,
         \A j, k \in DOMAIN s : s[j] = s[k] => j = k
  PROVE  ToSet(RemoveAt(s, i)) = ToSet(s) \ {s[i]}
<1> DEFINE t == RemoveAt(s, i)
<1>1. /\ t \in Seq(S)
      /\ Len(t) = Len(s) - 1
      /\ \A j \in 1..(Len(s) - 1) : t[j] = IF j < i THEN s[j] ELSE s[j + 1]
  BY RemoveAtIsSeq
<1>2. DOMAIN s = 1..Len(s) /\ DOMAIN t = 1..(Len(s) - 1) /\ Len(s) \in Nat
  BY <1>1
<1> HIDE DEF t
<1>3. ASSUME NEW x \in ToSet(t)  PROVE x \in ToSet(s) \ {s[i]}
  <2>1. PICK j \in 1..(Len(s) - 1) : x = t[j]
    BY <1>2 DEF ToSet
  <2>2. PICK k \in 1..Len(s) : x = s[k] /\ k # i
    <3>1. CASE j < i
      BY <1>1, <1>2, <2>1, <3>1
    <3>2. CASE ~(j < i)
      <4>1. j + 1 \in 1..Len(s) /\ j + 1 # i /\ x = s[j + 1]
        BY <1>1, <1>2, <2>1, <3>2
      <4> QED BY <4>1
    <3> QED BY <3>1, <3>2
  <2> QED BY <1>2, <2>2 DEF ToSet
<1>4. ASSUME NEW x \in ToSet(s) \ {s[i]}  PROVE x \in ToSet(t)
  <2>1. PICK j \in DOMAIN s : x = s[j] /\ j # i
    BY DEF ToSet
  <2>2. CASE j < i
    BY <1>1, <1>2, <2>1, <2>2 DEF ToSet
  <2>3. CASE j > i
    <3>1. j - 1 \in 1..(Len(s) - 1) /\ t[j - 1] = s[j]
      BY <1>1, <1>2, <2>1, <2>3
    <3> QED BY <1>2, <2>1, <3>1 DEF ToSet
  <2> QED BY <1>2, <2>1, <2>2, <2>3
<1> QED BY <1>3, <1>4 DEF t

LEMMA AppendElements ==
  ASSUME NEW S, NEW s \in Seq(S), NEW x \in S
  PROVE  ToSet(Append(s, x)) = ToSet(s) \cup {x}
<1>1. \A y \in ToSet(Append(s, x)) : y \in ToSet(s) \cup {x}
  BY DEF ToSet
<1>2. \A y \in ToSet(s) \cup {x} : y \in ToSet(Append(s, x))
  <2>1. x = Append(s, x)[Len(s) + 1] /\ Len(s) + 1 \in DOMAIN Append(s, x)
    OBVIOUS
  <2>2. \A j \in DOMAIN s : j \in DOMAIN Append(s, x) /\ Append(s, x)[j] = s[j]
    OBVIOUS
  <2> QED BY <2>1, <2>2 DEF ToSet
<1> QED BY <1>1, <1>2

LEMMA AppendAt ==
  ASSUME NEW S, NEW s \in Seq(S), NEW x \in S, NEW m \in DOMAIN Append(s, x)
  PROVE  \/ m \in DOMAIN s /\ Append(s, x)[m] = s[m]
         \/ m = Len(s) + 1 /\ Append(s, x)[m] = x
OBVIOUS

LEMMA KeyOfType == \A r \in Requests : KeyOf[r] \in Keys
BY RequestQueueAssumption

-----------------------------------------------------------------------------
LEMMA InitIInv == Init => IInv
<1> SUFFICES ASSUME Init PROVE IInv
  OBVIOUS
<1>1. ToSet(pending) = {}
  BY DEF Init, ToSet
<1>2. TypeOK
  <2> USE DEF Init
  <2>1. pending \in Seq(Requests)
    OBVIOUS
  <2>2. dpc \in DispatcherPC /\ hpc \in [Requests -> HandlerPC]
    BY DEF DispatcherPC, HandlerPC
  <2>3. buf \in [Requests -> Seq(Results)]
    OBVIOUS
  <2>4. told \in [Requests -> Nat \cup {-1}]
    OBVIOUS
  <2> QED BY <2>1, <2>2, <2>3, <2>4 DEF TypeOK
<1>3. Ownership /\ DedupMatchesPending /\ WaiterHasProducer /\ NoSendOnClosed
  BY <1>1, RequestQueueAssumption
  DEF Init, Ownership, DedupMatchesPending, WaiterHasProducer, NoSendOnClosed,
      IsPending, Busy
<1>4. DeliveredStreams /\ StreamHasOneReader
  BY DEF Init, DeliveredStreams, StreamHasOneReader, StreamIn, Readers
<1> QED BY <1>2, <1>3, <1>4 DEF IInv

LEMMA CoalesceIInv ==
  ASSUME IInv, NEW r \in Requests, Coalesce(r)
  PROVE  IInv'
<1> USE RequestQueueAssumption
    DEF Coalesce, queueVars, dispVars, chanVars, handlerVars
<1>0. /\ KeyOf[r] \in Keys
      /\ dedup[KeyOf[r]] \in Requests
      /\ IsPending(dedup[KeyOf[r]])
      /\ \A q : IsPending(q)' <=> IsPending(q)
  <2>1. KeyOf[r] \in Keys
    BY KeyOfType
  <2>2. dedup[KeyOf[r]] \in Requests
    BY <2>1 DEF IInv, TypeOK
  <2>3. IsPending(dedup[KeyOf[r]])
    BY <2>1, <2>2 DEF IInv, DedupMatchesPending
  <2>4. \A q : IsPending(q)' <=> IsPending(q)
    BY DEF IsPending
  <2> QED BY <2>1, <2>2, <2>3, <2>4
<1>1. TypeOK'
  BY <1>0 DEF IInv, TypeOK, HandlerPC, Ranging
<1>2. Ownership'
  BY <1>0 DEF IInv, TypeOK, Ownership
<1>3. DedupMatchesPending'
  BY <1>0 DEF IInv, DedupMatchesPending
<1>4. WaiterHasProducer'
  BY <1>0 DEF IInv, TypeOK, Ownership, WaiterHasProducer
<1>5. NoSendOnClosed'
  BY <1>0 DEF IInv, NoSendOnClosed
<1>6. /\ \A q \in Requests : StreamIn(q)' = StreamIn(q)
      /\ \A q \in Requests : Readers(q)' = Readers(q)
  BY DEF IInv, TypeOK, StreamIn, Readers
<1>7. DeliveredStreams' /\ StreamHasOneReader'
  BY <1>6 DEF IInv, DeliveredStreams, StreamHasOneReader
<1> QED BY <1>1, <1>2, <1>3, <1>4, <1>5, <1>7 DEF IInv

LEMMA EnqueueIInv ==
  ASSUME IInv, NEW r \in Requests, Enqueue(r)
  PROVE  IInv'
<1> USE RequestQueueAssumption
    DEF Enqueue, InitialPosition, queueVars, dispVars, chanVars, handlerVars
<1>0. /\ KeyOf[r] \in Keys
      /\ ~IsPending(r) /\ ~closed[r]
      /\ \A q : IsPending(q)' <=> IsPending(q) \/ q = r
      /\ \A q \in Requests : IsPending(q) => KeyOf[q] # KeyOf[r]
  <2>1. ~IsPending(r) /\ ~closed[r]
    BY DEF IInv, Ownership
  <2>2. \A q : IsPending(q)' <=> IsPending(q) \/ q = r
    BY AppendElements DEF IInv, TypeOK, IsPending
  <2>3. KeyOf[r] \in Keys
    BY KeyOfType
  <2>4. \A q \in Requests : IsPending(q) => KeyOf[q] # KeyOf[r]
    BY <2>3 DEF IInv, DedupMatchesPending
  <2> QED BY <2>1, <2>2, <2>3, <2>4
<1>1. TypeOK'
  BY <1>0 DEF IInv, TypeOK, HandlerPC, Ranging
<1>2. Ownership'
  BY <1>0 DEF IInv, TypeOK, Ownership
<1>3. DedupMatchesPending'
  <2>1. ASSUME NEW i \in DOMAIN pending', NEW j \in DOMAIN pending',
               KeyOf[pending'[i]] = KeyOf[pending'[j]]
        PROVE  i = j
    <3>1. \A m \in DOMAIN pending : IsPending(pending[m]) /\ pending[m] \in Requests
      BY DEF IInv, TypeOK, IsPending, ToSet
    <3>2. \A m \in DOMAIN pending' :
            \/ m \in DOMAIN pending /\ pending'[m] = pending[m]
            \/ m = Len(pending) + 1 /\ pending'[m] = r
      BY AppendAt DEF IInv, TypeOK
    <3> QED BY <1>0, <2>1, <3>1, <3>2 DEF IInv, DedupMatchesPending
  <2>2. ASSUME NEW k \in Keys, NEW q \in Requests
        PROVE  dedup'[k] = q <=> IsPending(q)' /\ KeyOf[q] = k
    BY <1>0 DEF IInv, TypeOK, DedupMatchesPending
  <2> QED BY <2>1, <2>2 DEF DedupMatchesPending
<1>4. WaiterHasProducer'
  BY <1>0 DEF IInv, TypeOK, Ownership, WaiterHasProducer
<1>5. NoSendOnClosed'
  BY <1>0 DEF IInv, NoSendOnClosed
<1>6. /\ \A q \in Requests : StreamIn(q)' = StreamIn(q)
      /\ \A q \in Requests : Readers(q)' = Readers(q)
  <2>1. \A h \in Requests :
          hpc'[h] = "reading" <=> hpc[h] = "reading" /\ h # r
    BY DEF IInv, TypeOK
  <2>2. \A h \in Requests : h # r => resultCh'[h] = resultCh[h]
    BY DEF IInv, TypeOK
  <2>3. hpc[r] # "reading"
    OBVIOUS
  <2>4. \A q \in Requests : Readers(q)' = Readers(q)
    BY <2>1, <2>2, <2>3 DEF Readers
  <2> QED BY <2>4 DEF StreamIn
<1>7. DeliveredStreams' /\ StreamHasOneReader'
  <2>1. UNCHANGED <<dpc, cur, closed>>
    OBVIOUS
  <2>2. DeliveredStreams /\ StreamHasOneReader
    BY DEF IInv
  <2>3. DeliveredStreams'
    BY <1>6, <2>1, <2>2 DEF DeliveredStreams
  <2>4. StreamHasOneReader'
    BY <1>6, <2>2 DEF StreamHasOneReader
  <2> QED BY <2>3, <2>4
<1> QED BY <1>1, <1>2, <1>3, <1>4, <1>5, <1>7 DEF IInv

(* The dispatcher steps that touch neither the queue nor a channel.        *)
LEMMA QuietIInv ==
  ASSUME IInv,
         \/ TakeToken \/ GraphStreams \/ GraphFails
         \/ AwaitExecDone \/ (\E r \in Requests : CutShort(r))
  PROVE  IInv'
<1> USE DEF queueVars, dispVars, chanVars, handlerVars
<1>1. /\ UNCHANGED <<pending, dedup, cur, resultCh, buf, closed, hpc, told,
                     execDone>>
      /\ token' \in BOOLEAN /\ dpc' \in DispatcherPC
      /\ dpc' \in Busy => dpc \in Busy
      /\ dpc' \in Busy \ {"await"} <=> dpc \in Busy \ {"await"}
      /\ dpc' = "closeStream" <=> dpc = "closeStream"
  BY DEF TakeToken, GraphStreams, GraphFails, AwaitExecDone,
         CutShort, IInv, TypeOK, DispatcherPC, Busy
<1>2. ctx' \in [Requests -> {"request", "running", "cut", "released"}]
  <2>1. ctx' = ctx \/ (\E r : Release(r)) \/ (\E r \in Requests : CutShort(r))
    BY DEF TakeToken, GraphStreams, GraphFails, AwaitExecDone
  <2> QED BY <2>1 DEF Release, CutShort, IInv, TypeOK
<1>3. TypeOK'
  BY <1>1, <1>2 DEF IInv, TypeOK
<1>4. \A q : IsPending(q)' <=> IsPending(q)
  BY <1>1 DEF IsPending
<1>5. Ownership'
  BY <1>1, <1>4 DEF IInv, Ownership
<1>6. DedupMatchesPending'
  BY <1>1, <1>4 DEF IInv, DedupMatchesPending
<1>7. WaiterHasProducer' /\ NoSendOnClosed'
  BY <1>1, <1>4 DEF IInv, WaiterHasProducer, NoSendOnClosed
<1>8. DeliveredStreams' /\ StreamHasOneReader'
  <2>1. \A q \in Requests : StreamIn(q)' = StreamIn(q) /\ Readers(q)' = Readers(q)
    BY <1>1 DEF StreamIn, Readers
  <2> QED BY <1>1, <2>1 DEF IInv, DeliveredStreams, StreamHasOneReader
<1> QED BY <1>3, <1>5, <1>6, <1>7, <1>8 DEF IInv

(* The steps that close a channel.                                         *)
LEMMA CloseIInv ==
  ASSUME IInv, GraphPanics \/ CloseAfterError \/ CloseAfterStream
  PROVE  IInv'
<1> USE DEF queueVars, dispVars, chanVars, handlerVars
<1>1. /\ UNCHANGED <<pending, dedup, token, cur, resultCh, buf, ctx, hpc, told,
                     execDone>>
      /\ dpc \in Busy \ {"await"}
      /\ dpc' \in {"idle", "await"}
      /\ closed' = [closed EXCEPT ![cur] = TRUE]
  BY DEF GraphPanics, CloseAfterError, CloseAfterStream, CloseResultCh, Busy
<1>2. cur \in Requests /\ hpc[cur] # "new" /\ ~IsPending(cur)
  BY <1>1 DEF IInv, Ownership
<1>3. /\ closed' \in [Requests -> BOOLEAN] /\ closed'[cur]
      /\ \A q \in Requests : q # cur => closed'[q] = closed[q]
  BY <1>1, <1>2 DEF IInv, TypeOK
<1>4. \A q : IsPending(q)' <=> IsPending(q)
  BY <1>1 DEF IsPending
<1>5. TypeOK'
  BY <1>1, <1>3 DEF IInv, TypeOK, DispatcherPC, Busy
<1>6. Ownership'
  BY <1>1, <1>2, <1>3, <1>4 DEF IInv, Ownership, Busy
<1>7. DedupMatchesPending'
  BY <1>1, <1>4 DEF IInv, DedupMatchesPending
<1>8. WaiterHasProducer'
  BY <1>1, <1>2, <1>3, <1>4 DEF IInv, TypeOK, Ownership, WaiterHasProducer
<1>9. NoSendOnClosed'
  BY <1>1, <1>2, <1>3, <1>4 DEF IInv, NoSendOnClosed, Busy
<1>10. DeliveredStreams' /\ StreamHasOneReader'
  <2>1. \A q \in Requests : StreamIn(q)' = StreamIn(q) /\ Readers(q)' = Readers(q)
    BY <1>1 DEF StreamIn, Readers
  <2> QED BY <1>1, <1>3, <2>1 DEF IInv, DeliveredStreams, StreamHasOneReader
<1> QED BY <1>5, <1>6, <1>7, <1>8, <1>9, <1>10 DEF IInv

(* The handler steps outside the channels.                                 *)
LEMMA HandlerIInv ==
  ASSUME IInv, NEW h \in Requests, StreamEnds(h) \/ LeaveLoop(h) \/ Abort(h)
  PROVE  IInv'
<1> USE DEF queueVars, dispVars, chanVars, handlerVars
<1>1. /\ UNCHANGED <<pending, dedup, token, dpc, cur, resultCh, buf, closed, ctx,
                     told>>
      /\ execDone' \in [Requests -> BOOLEAN]
      /\ hpc[h] # "new"
      /\ hpc' \in [Requests -> HandlerPC]
      /\ hpc'[h] \notin {"new", "reading"}
      /\ \A g \in Requests \ {h} : hpc'[g] = hpc[g]
  BY DEF StreamEnds, LeaveLoop, ExecDoneSignal, Abort, IInv, TypeOK, HandlerPC, Ranging, Finished
<1>2. \A q : IsPending(q)' <=> IsPending(q)
  BY <1>1 DEF IsPending
<1>3. TypeOK'
  BY <1>1 DEF IInv, TypeOK
<1>4. Ownership'
  BY <1>1, <1>2 DEF IInv, Ownership
<1>5. DedupMatchesPending' /\ NoSendOnClosed'
  BY <1>1, <1>2 DEF IInv, DedupMatchesPending, NoSendOnClosed
<1>6. WaiterHasProducer'
  BY <1>1, <1>2 DEF IInv, WaiterHasProducer
<1>7. DeliveredStreams' /\ StreamHasOneReader'
  <2>1. \A q \in Requests : StreamIn(q)' = StreamIn(q)
    BY <1>1 DEF StreamIn
  <2>2. \A q \in Requests : Readers(q)' \subseteq Readers(q)
    BY <1>1 DEF Readers
  <2> QED BY <1>1, <2>1, <2>2 DEF IInv, DeliveredStreams, StreamHasOneReader
<1> QED BY <1>3, <1>4, <1>5, <1>6, <1>7 DEF IInv

(* The steps that take a result out of a channel.                          *)
LEMMA ReceiveIInv ==
  ASSUME IInv, NEW h \in Requests,
         ReceivePosition(h) \/ ReceiveError(h) \/ ReceiveStream(h)
  PROVE  IInv'
<1> USE DEF queueVars, dispVars, chanVars, handlerVars
<1>1. /\ UNCHANGED <<pending, dedup, token, dpc, cur, resultCh, closed, ctx,
                     execDone>>
      /\ hpc[h] \in Ranging
      /\ buf[resultCh[h]] # <<>>
      /\ buf' = [buf EXCEPT ![resultCh[h]] = Tail(@)]
  BY DEF ReceivePosition, ReceiveError, ReceiveStream, Receive
<1>0. hpc[h] # "new" /\ hpc[h] # "reading" /\ resultCh[h] \in Requests
  BY <1>1 DEF Ranging, IInv, Ownership
<1> PICK c \in Requests : c = resultCh[h]
  BY <1>0
<1>2. /\ hpc[h] # "new" /\ hpc[h] # "reading" /\ c \in Requests
      /\ c = resultCh[h] /\ buf[c] # <<>>
  BY <1>0, <1>1
<1>3. buf[c] \in Seq(Results) /\ Head(buf[c]) \in Results
      /\ Tail(buf[c]) \in Seq(Results)
  BY <1>1, <1>2 DEF IInv, TypeOK
<1>4. /\ buf' \in [Requests -> Seq(Results)]
      /\ buf'[c] = Tail(buf[c])
      /\ \A q \in Requests \ {c} : buf'[q] = buf[q]
  BY <1>1, <1>2, <1>3 DEF IInv, TypeOK
<1>5. told' \in [Requests -> Nat \cup {-1}]
  <2>1. CASE ReceivePosition(h)
    <3>1. Head(buf[c]).pos \in Nat
      BY <1>3, <2>1 DEF ReceivePosition, Receive, Results, ErrorResult, StreamResult
    <3> QED BY <2>1, <3>1 DEF ReceivePosition, IInv, TypeOK
  <2>2. CASE ReceiveError(h) \/ ReceiveStream(h)
    BY <2>2 DEF ReceiveError, ReceiveStream, IInv, TypeOK
  <2> QED BY <2>1, <2>2
<1>6. /\ hpc' \in [Requests -> HandlerPC]
      /\ hpc'[h] # "new"
      /\ \A g \in Requests \ {h} : hpc'[g] = hpc[g]
      /\ hpc'[h] = "reading" => Head(buf[c]).kind = "done"
  BY <1>1, <1>2
  DEF ReceivePosition, ReceiveError, ReceiveStream, Receive, IInv, TypeOK,
      HandlerPC, Ranging, Finished
<1>7. \A q : IsPending(q)' <=> IsPending(q)
  BY <1>1 DEF IsPending
<1>8. TypeOK'
  BY <1>1, <1>4, <1>5, <1>6 DEF IInv, TypeOK
<1>9. Ownership'
  BY <1>1, <1>2, <1>6, <1>7 DEF IInv, Ownership
<1>10. DedupMatchesPending' /\ NoSendOnClosed'
  BY <1>1, <1>7 DEF IInv, DedupMatchesPending, NoSendOnClosed
<1>11. WaiterHasProducer'
  BY <1>1, <1>2, <1>6, <1>7 DEF IInv, WaiterHasProducer
<1>12. \A i \in StreamIn(c)' : i + 1 \in StreamIn(c)
  <2>1. \A i \in DOMAIN Tail(buf[c]) :
          i + 1 \in DOMAIN buf[c] /\ Tail(buf[c])[i] = buf[c][i + 1]
    BY <1>1, <1>3
  <2> QED BY <1>4, <2>1 DEF StreamIn
<1>13. hpc'[h] = "reading" => 1 \in StreamIn(c)
  BY <1>1, <1>3, <1>6 DEF StreamIn
<1>14. \A q \in Requests \ {c} :
         StreamIn(q)' = StreamIn(q) /\ Readers(q)' = Readers(q)
  BY <1>1, <1>2, <1>4, <1>6 DEF StreamIn, Readers
<1>15. Readers(c)' = IF hpc'[h] = "reading" THEN Readers(c) \cup {h} ELSE Readers(c)
  BY <1>1, <1>2, <1>6 DEF Readers
<1>16. DeliveredStreams'
  BY <1>1, <1>2, <1>12, <1>13, <1>14, <1>15 DEF IInv, DeliveredStreams
<1>17. StreamHasOneReader'
  <2>1. \A i \in StreamIn(c)' : i \in Nat \ {0}
    BY <1>4, <1>3 DEF StreamIn
  <2>2. /\ \A i, j \in StreamIn(c) : i = j
        /\ \A f, g \in Readers(c) : f = g
        /\ StreamIn(c) = {} \/ Readers(c) = {}
    BY <1>2 DEF IInv, StreamHasOneReader
  <2>3. \A i, j \in StreamIn(c)' : i = j
    BY <1>12, <2>1, <2>2
  <2>4. hpc'[h] = "reading" => StreamIn(c)' = {} /\ Readers(c) = {}
    BY <1>12, <1>13, <2>1, <2>2
  <2>5. /\ \A f, g \in Readers(c)' : f = g
        /\ StreamIn(c)' = {} \/ Readers(c)' = {}
    BY <1>12, <1>15, <2>2, <2>4
  <2> QED BY <1>14, <2>3, <2>5 DEF IInv, StreamHasOneReader
<1> QED BY <1>8, <1>9, <1>10, <1>11, <1>16, <1>17 DEF IInv

(* The blocking sends; the delivery of the stream is the first on its      *)
(* channel because the channel is still open.                              *)
LEMMA OfferIInv ==
  ASSUME IInv, OfferError \/ OfferStream
  PROVE  IInv'
<1> USE DEF queueVars, dispVars, chanVars, handlerVars
<1> DEFINE result == IF dpc = "offerStream" THEN StreamResult ELSE ErrorResult
<1>1. /\ UNCHANGED <<pending, dedup, token, cur, resultCh, closed, ctx, hpc,
                     told, execDone>>
      /\ dpc \in {"offerStream", "offerError"}
      /\ dpc' = IF dpc = "offerStream" THEN "closeStream" ELSE "closeError"
      /\ buf' = [buf EXCEPT ![cur] = Append(@, result)]
  BY DEF OfferError, OfferStream, Offer
<1>2. /\ cur \in Requests /\ hpc[cur] # "new" /\ ~IsPending(cur)
      /\ ~closed[cur]
  BY <1>1 DEF IInv, Ownership, NoSendOnClosed, Busy
<1> PICK c \in Requests : c = cur
  BY <1>2
<1>3. /\ result \in Results
      /\ buf[c] \in Seq(Results)
      /\ buf' \in [Requests -> Seq(Results)]
      /\ buf'[c] = Append(buf[c], result)
      /\ \A q \in Requests \ {c} : buf'[q] = buf[q]
  BY <1>1 DEF IInv, TypeOK, Results
<1>4. \A q : IsPending(q)' <=> IsPending(q)
  BY <1>1 DEF IsPending
<1>5. TypeOK'
  BY <1>1, <1>3 DEF IInv, TypeOK, DispatcherPC, Busy
<1>6. Ownership'
  BY <1>1, <1>2, <1>4 DEF IInv, Ownership, Busy
<1>7. DedupMatchesPending'
  BY <1>1, <1>4 DEF IInv, DedupMatchesPending
<1>8. WaiterHasProducer' /\ NoSendOnClosed'
  BY <1>1, <1>2, <1>4 DEF IInv, WaiterHasProducer, NoSendOnClosed, Busy
<1>9. StreamIn(c) = {} /\ Readers(c) = {}
  BY <1>1, <1>2 DEF IInv, DeliveredStreams
<1>10. /\ \A q \in Requests : Readers(q)' = Readers(q)
       /\ \A q \in Requests \ {c} : StreamIn(q)' = StreamIn(q)
  BY <1>1, <1>3 DEF Readers, StreamIn
<1>11. /\ \A j \in StreamIn(c)' : j = Len(buf[c]) + 1
       /\ dpc # "offerStream" => StreamIn(c)' = {}
  <2>1. \A j \in DOMAIN buf'[c] :
          \/ j \in DOMAIN buf[c] /\ buf'[c][j] = buf[c][j]
          \/ j = Len(buf[c]) + 1 /\ buf'[c][j] = result
    BY <1>3, AppendAt
  <2>2. \A j \in StreamIn(c)' : j = Len(buf[c]) + 1 /\ result.kind = "done"
    BY <1>9, <2>1 DEF StreamIn
  <2> QED BY <2>2 DEF ErrorResult
<1>12. DeliveredStreams'
  BY <1>1, <1>2, <1>9, <1>10, <1>11 DEF IInv, DeliveredStreams
<1>13. StreamHasOneReader'
  <2>1. /\ \A j, k \in StreamIn(c)' : j = k
        /\ Readers(c)' = {}
    BY <1>9, <1>10, <1>11
  <2> QED BY <1>10, <2>1 DEF IInv, StreamHasOneReader
<1> QED BY <1>5, <1>6, <1>7, <1>8, <1>12, <1>13 DEF IInv

(* What a claim does to the queue: exactly the claimed request leaves it.  *)
LEMMA ClaimShrinks ==
  ASSUME IInv, NEW i \in DOMAIN pending, pending' = RemoveAt(pending, i)
  PROVE  /\ pending[i] \in Requests /\ IsPending(pending[i])
         /\ pending' \in Seq(Requests)
         /\ \A q : IsPending(q)' <=> IsPending(q) /\ q # pending[i]
         /\ \A j, k \in DOMAIN pending' :
              KeyOf[pending'[j]] = KeyOf[pending'[k]] => j = k
<1>1. /\ pending \in Seq(Requests)
      /\ \A j, k \in DOMAIN pending :
           KeyOf[pending[j]] = KeyOf[pending[k]] => j = k
  BY DEF IInv, TypeOK, DedupMatchesPending
<1>2. \A j, k \in DOMAIN pending : pending[j] = pending[k] => j = k
  BY <1>1
<1>3. ToSet(pending') = ToSet(pending) \ {pending[i]}
  BY <1>1, <1>2, RemoveAtElements
<1>4. pending[i] \in Requests /\ IsPending(pending[i])
  BY <1>1 DEF IsPending, ToSet
<1>5. /\ pending' \in Seq(Requests)
      /\ Len(pending') = Len(pending) - 1
      /\ \A j \in 1..(Len(pending) - 1) :
           pending'[j] = IF j < i THEN pending[j] ELSE pending[j + 1]
  BY <1>1, RemoveAtIsSeq
<1>6. ASSUME NEW j \in DOMAIN pending', NEW k \in DOMAIN pending',
             KeyOf[pending'[j]] = KeyOf[pending'[k]]
      PROVE  j = k
  <2> DEFINE old(m) == IF m < i THEN m ELSE m + 1
  <2>1. i \in 1..Len(pending) /\ Len(pending) \in Nat
    BY <1>1
  <2>2. \A m \in DOMAIN pending' :
          m \in Nat /\ old(m) \in DOMAIN pending /\ pending'[m] = pending[old(m)]
    BY <1>1, <1>5, <2>1
  <2>3. old(j) = old(k)
    BY <1>1, <1>6, <2>2
  <2> QED BY <2>1, <2>2, <2>3
<1> QED BY <1>3, <1>4, <1>5, <1>6 DEF IsPending

LEMMA ClaimIInv ==
  ASSUME IInv, Claim
  PROVE  IInv'
<1> USE DEF queueVars, dispVars, chanVars, handlerVars
<1> PICK i \in DOMAIN pending :
       /\ cur'     = pending[i]
       /\ pending' = RemoveAt(pending, i)
       /\ dedup'   = [dedup EXCEPT ![KeyOf[pending[i]]] = None]
       /\ buf'     = Announce(pending')
       /\ ctx'     = [ctx EXCEPT ![pending[i]] =
                         IF @ = "request" THEN "running" ELSE @]
  BY DEF Claim, Without, ForgetKey
<1>1. /\ dpc = "claim" /\ dpc' = "run"
      /\ UNCHANGED <<token, resultCh, closed, hpc, told, execDone>>
  BY DEF Claim, Without, ForgetKey
<1> PICK r \in Requests : r = pending[i]
  BY ClaimShrinks
<1>2. /\ IsPending(r) /\ pending' \in Seq(Requests)
      /\ \A q : IsPending(q)' <=> IsPending(q) /\ q # r
      /\ cur' = r
  BY ClaimShrinks
<1>3. KeyOf[r] \in Keys
  BY KeyOfType
<1>4. hpc[r] # "new" /\ resultCh[r] = r /\ ~closed[r]
  BY <1>2 DEF IInv, Ownership, NoSendOnClosed
<1>5. \A q \in Requests :
        \/ buf'[q] = buf[q]
        \/ \E n \in Nat : buf'[q] = Append(buf[q], Position(n))
  <2>1. ASSUME NEW q \in Requests, q \in ToSet(pending')
        PROVE  PosOf(pending', q) \in Nat
    <3>1. \E j \in DOMAIN pending' : pending'[j] = q
      BY <2>1 DEF ToSet
    <3>2. \A j \in DOMAIN pending' : j - 1 \in Nat
      BY <1>2
    <3> QED BY <3>1, <3>2 DEF PosOf
  <2> QED BY <2>1 DEF Announce
<1>6. buf' \in [Requests -> Seq(Results)]
  <2>1. \A n \in Nat : Position(n) \in Results
    BY DEF Position, Results
  <2>2. ASSUME NEW q \in Requests PROVE buf'[q] \in Seq(Results)
    <3>1. buf[q] \in Seq(Results)
      BY DEF IInv, TypeOK
    <3>2. \A n \in Nat : Append(buf[q], Position(n)) \in Seq(Results)
      BY <2>1, <3>1
    <3> QED BY <1>5, <3>1, <3>2
  <2> QED BY <2>2 DEF Announce
<1>7. TypeOK'
  <2>1. dedup' \in [Keys -> Requests \cup {None}]
    BY DEF IInv, TypeOK
  <2>2. ctx' \in [Requests -> {"request", "running", "cut", "released"}]
    BY DEF IInv, TypeOK
  <2> QED BY <1>1, <1>2, <1>6, <2>1, <2>2 DEF IInv, TypeOK, DispatcherPC, Busy
<1>8. Ownership'
  BY <1>1, <1>2, <1>4 DEF IInv, Ownership
<1>9. DedupMatchesPending'
  <2>1. ASSUME NEW k \in Keys, NEW q \in Requests
        PROVE  dedup'[k] = q <=> IsPending(q)' /\ KeyOf[q] = k
    <3>1. dedup'[k] = IF k = KeyOf[r] THEN None ELSE dedup[k]
      BY <1>3 DEF IInv, TypeOK
    <3>2. q # None
      BY RequestQueueAssumption
    <3>3. dedup[k] = q <=> IsPending(q) /\ KeyOf[q] = k
      BY DEF IInv, DedupMatchesPending
    <3>4. k = KeyOf[r] => dedup[k] = r
      BY <1>2, <1>3 DEF IInv, DedupMatchesPending
    <3> QED BY <1>2, <3>1, <3>2, <3>3, <3>4
  <2> QED BY <2>1, ClaimShrinks DEF DedupMatchesPending
<1>10. WaiterHasProducer'
  BY <1>1, <1>2 DEF IInv, WaiterHasProducer, Busy
<1>11. NoSendOnClosed'
  BY <1>1, <1>2, <1>4 DEF IInv, NoSendOnClosed
<1>12. \A q \in Requests : StreamIn(q)' = StreamIn(q) /\ Readers(q)' = Readers(q)
  <2>1. ASSUME NEW q \in Requests, NEW n \in Nat,
               buf'[q] = Append(buf[q], Position(n))
        PROVE  StreamIn(q)' = StreamIn(q)
    <3>1. buf[q] \in Seq(Results) /\ Position(n).kind # "done"
      BY DEF IInv, TypeOK, Position
    <3>2. DOMAIN buf'[q] = (DOMAIN buf[q]) \cup {Len(buf[q]) + 1}
      BY <2>1, <3>1
    <3>3. /\ \A j \in DOMAIN buf[q] : buf'[q][j] = buf[q][j]
          /\ buf'[q][Len(buf[q]) + 1] = Position(n)
      BY <2>1, <3>1
    <3> QED BY <3>1, <3>2, <3>3 DEF StreamIn
  <2>2. \A q \in Requests : StreamIn(q)' = StreamIn(q)
    BY <1>5, <2>1 DEF StreamIn
  <2> QED BY <1>1, <2>2 DEF Readers
<1>13. DeliveredStreams' /\ StreamHasOneReader'
  BY <1>1, <1>12 DEF IInv, DeliveredStreams, StreamHasOneReader
<1> QED BY <1>7, <1>8, <1>9, <1>10, <1>11, <1>13 DEF IInv

-----------------------------------------------------------------------------
LEMMA StepIInv == IInv /\ [Next]_vars => IInv'
<1> SUFFICES ASSUME IInv, [Next]_vars PROVE IInv'
  OBVIOUS
<1>1. ASSUME NEW r \in Requests, Submit(r) PROVE IInv'
  BY <1>1, CoalesceIInv, EnqueueIInv DEF Submit
<1>2. CASE Dispatcher
  BY <1>2, QuietIInv, ClaimIInv, CloseIInv, OfferIInv DEF Dispatcher
<1>3. ASSUME NEW r \in Requests, HandlerStep(r) \/ Abort(r) PROVE IInv'
  BY <1>3, ReceiveIInv, HandlerIInv DEF HandlerStep
<1>4. ASSUME NEW r \in Requests, CutShort(r) PROVE IInv'
  BY <1>4, QuietIInv
<1>5. CASE UNCHANGED vars
  BY <1>5 DEF vars, queueVars, dispVars, chanVars, handlerVars, IInv, TypeOK,
     Ownership, DedupMatchesPending, WaiterHasProducer, NoSendOnClosed,
     DeliveredStreams, StreamHasOneReader, StreamIn, Readers, IsPending
<1> QED BY <1>1, <1>2, <1>3, <1>4, <1>5 DEF Next

(* The inductive invariant holds in every reachable state.                 *)
THEOREM Inductive == Spec => []IInv
BY InitIInv, StepIInv, PTL DEF Spec

(* Every variable keeps its type.                                          *)
THEOREM TypeCorrect == Spec => []TypeOK
BY Inductive, PTL DEF IInv

(* The dedup map names exactly the queued requests, one per key.           *)
THEOREM DedupCorrect == Spec => []DedupMatchesPending
BY Inductive, PTL DEF IInv

(* No handler is left on an open channel that nobody will close.           *)
THEOREM NoOrphanedWaiter == Spec => []WaiterHasProducer
BY Inductive, PTL DEF IInv

(* The dispatcher never sends on nor closes a closed channel.              *)
THEOREM ChannelSafety == Spec => []NoSendOnClosed
BY Inductive, PTL DEF IInv

(* No two handlers ever read one answer stream.                            *)
THEOREM SingleReader == Spec => []StreamHasOneReader
BY Inductive, PTL DEF IInv

(* A wake-up token always stands for a queued request.                     *)
THEOREM NoEmptyClaim == Spec => []TokensHaveWork
<1> USE DEF TokensHaveWork, queueVars, dispVars, chanVars, handlerVars
<1>1. Init => TokensHaveWork
  BY DEF Init
<1>2. ASSUME TypeOK, TokensHaveWork, [Next]_vars
      PROVE  TokensHaveWork'
  <2>1. pending \in Seq(Requests) /\ Len(pending) \in Nat
    BY <1>2 DEF TypeOK
  <2>2. ASSUME NEW r \in Requests, Submit(r) PROVE TokensHaveWork'
    BY <1>2, <2>1, <2>2 DEF Submit, Coalesce, Enqueue
  <2>3. CASE TakeToken
    BY <1>2, <2>1, <2>3 DEF TakeToken
  <2>4. CASE Claim
    <3>1. PICK i \in DOMAIN pending : pending' = RemoveAt(pending, i)
      BY <2>4 DEF Claim, Without
    <3>2. Len(pending') = Len(pending) - 1
      BY <2>1, <3>1, RemoveAtIsSeq
    <3> QED BY <1>2, <2>1, <2>4, <3>2 DEF Claim
  <2>5. CASE \/ GraphStreams \/ GraphFails \/ GraphPanics \/ AwaitExecDone
             \/ OfferError \/ OfferStream \/ CloseAfterError \/ CloseAfterStream
    BY <1>2, <2>1, <2>5
    DEF GraphStreams, GraphFails, GraphPanics, AwaitExecDone, OfferError,
        OfferStream, Offer, CloseAfterError, CloseAfterStream, CloseResultCh
  <2>6. ASSUME NEW h \in Requests, HandlerStep(h) \/ Abort(h) \/ CutShort(h)
        PROVE  TokensHaveWork'
    BY <1>2, <2>6
    DEF HandlerStep, ReceivePosition, ReceiveError, ReceiveStream, Receive,
        StreamEnds, LeaveLoop, Abort, CutShort
  <2>7. CASE UNCHANGED vars
    BY <1>2, <2>7 DEF vars
  <2> QED BY <1>2, <2>2, <2>3, <2>4, <2>5, <2>6, <2>7 DEF Next, Dispatcher
<1> QED BY <1>1, <1>2, TypeCorrect, PTL DEF Spec

-----------------------------------------------------------------------------
(* Refinement: each step of the queue is a step of ServeOnce or a stutter. *)

LEMMA RefinesInit == Init => Abs!Init
<1> SUFFICES ASSUME Init PROVE Abs!Init
  OBVIOUS
<1>1. \A r \in Requests : StatusOf(r) = "new"
  BY DEF Init, StatusOf
<1> QED BY <1>1 DEF Abs!Init, absStatus

(* A step after which every request has the status it had is a stutter;    *)
(* one that changes the status of a single request is an update of it.     *)
LEMMA StatusUpdate ==
  ASSUME NEW r \in Requests, NEW v,
         StatusOf(r)' = v,
         \A q \in Requests \ {r} : StatusOf(q)' = StatusOf(q)
  PROVE  /\ absStatus[r] = StatusOf(r)
         /\ absStatus' = [absStatus EXCEPT ![r] = v]
BY DEF absStatus

LEMMA StatusStutter ==
  ASSUME \A q \in Requests : StatusOf(q)' = StatusOf(q)
  PROVE  UNCHANGED absStatus
BY DEF absStatus

LEMMA RefinesEnqueue ==
  ASSUME IInv, NEW r \in Requests, Enqueue(r)
  PROVE  Abs!Queue(r)
<1> USE DEF Enqueue, InitialPosition, queueVars, dispVars, chanVars, handlerVars
<1>1. /\ pending \in Seq(Requests)
      /\ hpc \in [Requests -> HandlerPC]
      /\ resultCh \in [Requests -> Requests \cup {None}]
  BY DEF IInv, TypeOK
<1>2. \A q : IsPending(q)' <=> IsPending(q) \/ q = r
  BY <1>1, AppendElements DEF IsPending
<1>3. StatusOf(r) = "new"
  BY DEF StatusOf
<1>4. StatusOf(r)' = "queued"
  BY <1>1, <1>2 DEF StatusOf
<1>5. \A q \in Requests \ {r} : StatusOf(q)' = StatusOf(q)
  BY <1>1, <1>2 DEF StatusOf
<1>6. \A q \in Requests : KeyOf[q] = KeyOf[r] => ~IsPending(q)
  <2>1. KeyOf[r] \in Keys
    BY KeyOfType
  <2>2. \A q \in Requests : IsPending(q) /\ KeyOf[q] = KeyOf[r] => dedup[KeyOf[r]] = q
    BY <2>1 DEF IInv, DedupMatchesPending
  <2> QED BY <2>2, RequestQueueAssumption
<1>7. \A q \in Requests : StatusOf(q) = "queued" => IsPending(q)
  BY DEF StatusOf
<1>8. ~Abs!Queued(KeyOf[r])
  BY <1>6, <1>7 DEF absStatus, Abs!Queued
<1> QED BY <1>3, <1>4, <1>5, <1>8, StatusUpdate DEF absStatus, Abs!Queue

LEMMA RefinesCoalesce ==
  ASSUME IInv, NEW r \in Requests, Coalesce(r)
  PROVE  Abs!Join(r)
<1> USE DEF Coalesce, queueVars, dispVars, chanVars, handlerVars
<1> DEFINE o == dedup[KeyOf[r]]
<1>1. /\ hpc \in [Requests -> HandlerPC]
      /\ resultCh \in [Requests -> Requests \cup {None}]
      /\ dedup \in [Keys -> Requests \cup {None}]
      /\ KeyOf[r] \in Keys
  BY KeyOfType DEF IInv, TypeOK
<1>2. o \in Requests /\ IsPending(o) /\ KeyOf[o] = KeyOf[r]
  BY <1>1 DEF IInv, DedupMatchesPending
<1>3. hpc[o] # "new" /\ resultCh[o] = o /\ o # r
  BY <1>2 DEF IInv, Ownership
<1>4. \A q : IsPending(q)' <=> IsPending(q)
  BY DEF IsPending
<1>5. StatusOf(r) = "new" /\ StatusOf(o) = "queued"
  BY <1>2, <1>3 DEF StatusOf
<1>6. StatusOf(r)' = "joined"
  BY <1>1, <1>3 DEF StatusOf
<1>7. \A q \in Requests \ {r} : StatusOf(q)' = StatusOf(q)
  BY <1>1, <1>4 DEF StatusOf
<1>8. Abs!Queued(KeyOf[r])
  BY <1>2, <1>5 DEF absStatus, Abs!Queued
<1> QED BY <1>5, <1>6, <1>7, <1>8, StatusUpdate DEF absStatus, Abs!Join

LEMMA RefinesClaim ==
  ASSUME IInv, Claim
  PROVE  \E r \in Requests : Abs!Start(r)
<1> USE DEF queueVars, dispVars, chanVars, handlerVars
<1> PICK i \in DOMAIN pending :
       /\ \A j \in DOMAIN pending : ServedFirst(i, j)
       /\ cur'     = pending[i]
       /\ pending' = RemoveAt(pending, i)
  BY DEF Claim, Without, ForgetKey
<1>1. dpc = "claim" /\ dpc' = "run" /\ UNCHANGED <<resultCh, hpc>>
  BY DEF Claim, Without, ForgetKey
<1> PICK r \in Requests : r = pending[i]
  BY ClaimShrinks
<1>2. /\ IsPending(r) /\ cur' = r
      /\ \A q : IsPending(q)' <=> IsPending(q) /\ q # r
  BY ClaimShrinks
<1>3. hpc[r] # "new" /\ resultCh[r] = r
  BY <1>2 DEF IInv, Ownership
<1>4. StatusOf(r) = "queued" /\ StatusOf(r)' = "running"
  BY <1>1, <1>2, <1>3 DEF StatusOf, Busy
<1>5. \A q \in Requests \ {r} : StatusOf(q)' = StatusOf(q)
  BY <1>1, <1>2 DEF StatusOf, Busy
<1>6. \A q \in Requests : StatusOf(q) # "running"
  BY <1>1 DEF StatusOf, Busy
<1>7. \A q \in Requests : StatusOf(q) = "queued" => Prio[r] <= Prio[q]
  <2>1. ASSUME NEW q \in Requests, StatusOf(q) = "queued" PROVE Prio[r] <= Prio[q]
    <3>1. IsPending(q)
      BY <2>1 DEF StatusOf
    <3>2. PICK j \in DOMAIN pending : pending[j] = q
      BY <3>1 DEF IsPending, ToSet
    <3>3. Prio[r] \in Nat /\ Prio[q] \in Nat
      BY RequestQueueAssumption
    <3> QED BY <3>2, <3>3 DEF ServedFirst
  <2> QED BY <2>1
<1> QED BY <1>4, <1>5, <1>6, <1>7, StatusUpdate DEF absStatus, Abs!Start

LEMMA RefinesFinish ==
  ASSUME IInv, GraphPanics \/ CloseAfterError \/ AwaitExecDone
  PROVE  \E r \in Requests : Abs!Finish(r)
<1>1. /\ dpc \in Busy /\ dpc' = "idle"
      /\ UNCHANGED <<pending, cur, resultCh, hpc>>
  BY DEF GraphPanics, CloseAfterError, CloseResultCh, AwaitExecDone, Busy,
         queueVars, chanVars, handlerVars
<1> PICK r \in Requests : r = cur
  BY <1>1 DEF IInv, Ownership
<1>2. hpc[r] # "new" /\ resultCh[r] = r /\ ~IsPending(r)
  BY <1>1 DEF IInv, Ownership
<1>3. \A q : IsPending(q)' <=> IsPending(q)
  BY <1>1 DEF IsPending
<1>4. StatusOf(r) = "running" /\ StatusOf(r)' = "served"
  BY <1>1, <1>2, <1>3 DEF StatusOf, Busy
<1>5. \A q \in Requests \ {r} : StatusOf(q)' = StatusOf(q)
  BY <1>1, <1>3 DEF StatusOf, Busy
<1> QED BY <1>4, <1>5, StatusUpdate DEF absStatus, Abs!Finish

LEMMA RefinesStutter ==
  ASSUME IInv,
         \/ TakeToken \/ GraphStreams \/ GraphFails
         \/ OfferError \/ OfferStream \/ CloseAfterStream
         \/ \E h \in Requests : HandlerStep(h) \/ Abort(h) \/ CutShort(h)
         \/ UNCHANGED vars
  PROVE  UNCHANGED absStatus
<1> USE DEF vars, queueVars, dispVars, chanVars, handlerVars
<1>1. UNCHANGED <<pending, cur, resultCh>> /\ (dpc \in Busy <=> dpc' \in Busy)
  BY DEF TakeToken, GraphStreams, GraphFails, OfferError,
         OfferStream, Offer, CloseAfterStream, CloseResultCh, CutShort, Busy,
         HandlerStep, ReceivePosition, ReceiveError, ReceiveStream, Receive,
         StreamEnds, LeaveLoop, Abort
<1>2. \A q \in Requests : hpc'[q] = "new" <=> hpc[q] = "new"
  <2>1. CASE UNCHANGED hpc
    BY <2>1
  <2>2. ASSUME NEW h \in Requests, HandlerStep(h) \/ Abort(h), hpc' # hpc
        PROVE  \A q \in Requests : hpc'[q] = "new" <=> hpc[q] = "new"
    <3>1. hpc[h] # "new" /\ \E v : v # "new" /\ hpc' = [hpc EXCEPT ![h] = v]
      BY <2>2 DEF HandlerStep, Abort, ReceivePosition, ReceiveError,
         ReceiveStream, Receive, StreamEnds, LeaveLoop, Ranging
    <3> QED BY <3>1 DEF IInv, TypeOK
  <2> QED BY <2>1, <2>2
      DEF TakeToken, GraphStreams, GraphFails, OfferError,
          OfferStream, Offer, CloseAfterStream, CloseResultCh, CutShort
<1>3. \A q : IsPending(q)' <=> IsPending(q)
  BY <1>1 DEF IsPending
<1>4. \A q \in Requests : StatusOf(q)' = StatusOf(q)
  BY <1>1, <1>2, <1>3 DEF StatusOf
<1> QED BY <1>4, StatusStutter

LEMMA RefinesNext ==
  IInv /\ [Next]_vars => [Abs!Next]_absStatus
<1> SUFFICES ASSUME IInv, [Next]_vars
             PROVE  Abs!Next \/ UNCHANGED absStatus
  OBVIOUS
<1>1. ASSUME NEW r \in Requests, Submit(r) PROVE Abs!Next
  BY <1>1, RefinesEnqueue, RefinesCoalesce DEF Submit, Abs!Next
<1>2. CASE Claim
  BY <1>2, RefinesClaim DEF Abs!Next
<1>3. CASE GraphPanics \/ CloseAfterError \/ AwaitExecDone
  BY <1>3, RefinesFinish DEF Abs!Next
<1> QED BY <1>1, <1>2, <1>3, RefinesStutter DEF Next, Dispatcher

(* The queue implements ServeOnce, for every number of requests.           *)
THEOREM Refinement == Spec => RefinesServeOnce
<1>1. Spec => []IInv
  BY Inductive
<1> QED BY <1>1, RefinesInit, RefinesNext, PTL DEF Spec, RefinesServeOnce, Abs!Spec

-----------------------------------------------------------------------------
(* No context is cancelled under the handler that owns it.                 *)

(* A channel that has no stream, and will get none.                        *)
Dry(r) ==
  /\ StreamIn(r) = {} /\ Readers(r) = {}
  /\ closed[r] \/ (cur = r /\ dpc \in {"offerError", "closeError"})

LEMMA TailAt ==
  ASSUME NEW S, NEW s \in Seq(S), s # <<>>, NEW m \in DOMAIN Tail(s)
  PROVE  m \in Nat /\ m + 1 \in DOMAIN s /\ Tail(s)[m] = s[m + 1]
OBVIOUS

LEMMA AnnounceAt ==
  ASSUME IInv, Claim, NEW r \in Requests
  PROVE  \/ buf'[r] = buf[r]
         \/ /\ IsPending(r)'
            /\ buf'[r] = Append(buf[r], Position(PosOf(pending', r)))
BY DEF Claim, Announce, IsPending, Without

LEMMA DryClaim ==
  ASSUME IInv, Claim, NEW r \in Requests, Dry(r)
  PROVE  Dry(r)'
<1>1. dpc = "claim" /\ UNCHANGED <<closed, hpc, resultCh>>
  BY DEF Claim, handlerVars
<1>2. StreamIn(r)' = {}
  <2>1. CASE buf'[r] = buf[r]
    BY <2>1 DEF Dry, StreamIn
  <2>2. CASE buf'[r] = Append(buf[r], Position(PosOf(pending', r)))
    <3> DEFINE x == Position(PosOf(pending', r))
    <3>1. x.kind # "done"
      BY DEF Position
    <3>2. buf[r] \in Seq(Results)
      BY DEF IInv, TypeOK
    <3> HIDE DEF x
    <3>3. \A j \in DOMAIN buf'[r] : (j \in DOMAIN buf[r] /\ buf'[r][j] = buf[r][j])
                                    \/ buf'[r][j] = x
      BY <2>2, <3>2 DEF x
    <3> QED BY <3>1, <3>3 DEF Dry, StreamIn
  <2> QED BY <2>1, <2>2, AnnounceAt
<1> QED BY <1>1, <1>2 DEF Dry, Readers

LEMMA DryOffer ==
  ASSUME IInv, OfferError \/ OfferStream, NEW r \in Requests, Dry(r)
  PROVE  Dry(r)'
<1>1. /\ dpc \in {"offerError", "offerStream"} /\ cur \in Requests /\ ~closed[cur]
      /\ UNCHANGED <<cur, closed, hpc, resultCh>>
      /\ dpc = "offerError" => dpc' = "closeError"
  BY DEF OfferError, OfferStream, Offer, handlerVars, IInv, Ownership, NoSendOnClosed, Busy
<1>2. dpc = "offerStream" => cur # r
  BY <1>1 DEF Dry
<1>3. StreamIn(r)' = {}
  <2>1. CASE cur # r
    BY <1>1, <2>1 DEF OfferError, OfferStream, Offer, Dry, StreamIn, IInv, TypeOK
  <2>2. CASE cur = r
    <3>1. buf'[r] = Append(buf[r], ErrorResult)
      BY <1>1, <1>2, <2>2 DEF OfferError, OfferStream, Offer, IInv, TypeOK
    <3>2. buf[r] \in Seq(Results) /\ ErrorResult \in Results
      BY DEF IInv, TypeOK, Results
    <3>3. \A j \in DOMAIN buf'[r] : (j \in DOMAIN buf[r] /\ buf'[r][j] = buf[r][j])
                                    \/ buf'[r][j] = ErrorResult
      BY <3>1, <3>2, AppendAt
    <3> QED BY <3>3 DEF Dry, StreamIn, ErrorResult
  <2> QED BY <2>1, <2>2
<1> QED BY <1>1, <1>2, <1>3 DEF Dry, Readers

LEMMA DryReceive ==
  ASSUME IInv, NEW h \in Requests,
         ReceivePosition(h) \/ ReceiveError(h) \/ ReceiveStream(h),
         NEW r \in Requests, Dry(r)
  PROVE  Dry(r)'
<1>1. /\ UNCHANGED <<dpc, cur, closed, resultCh>>
      /\ buf[resultCh[h]] # <<>>
      /\ buf' = [buf EXCEPT ![resultCh[h]] = Tail(@)]
      /\ resultCh[h] \in Requests
      /\ buf[r] \in Seq(Results)
  BY DEF ReceivePosition, ReceiveError, ReceiveStream, Receive, Ranging, dispVars,
         IInv, Ownership, TypeOK
<1>2. StreamIn(r)' = {}
  <2>1. CASE resultCh[h] # r
    BY <1>1, <2>1 DEF Dry, StreamIn, IInv, TypeOK
  <2>2. CASE resultCh[h] = r
    <3>1. buf'[r] = Tail(buf[r])
      BY <1>1, <2>2 DEF IInv, TypeOK
    <3>2. \A j \in DOMAIN buf'[r] : j + 1 \in DOMAIN buf[r] /\ buf'[r][j] = buf[r][j + 1]
      <4>1. buf[r] # <<>>
        BY <1>1, <2>2
      <4>2. \A j \in DOMAIN Tail(buf[r]) : j + 1 \in DOMAIN buf[r] /\ Tail(buf[r])[j] = buf[r][j + 1]
        BY <1>1, <4>1, TailAt
      <4> QED BY <3>1, <4>2
    <3> QED BY <3>2 DEF Dry, StreamIn
  <2> QED BY <2>1, <2>2
<1>3. Readers(r)' = {}
  <2>1. ASSUME NEW g \in Readers(r)' PROVE FALSE
    <3>1. g \notin Readers(r)
      BY DEF Dry
    <3>2. g \in Requests /\ hpc'[g] = "reading" /\ hpc[g] # "reading" /\ resultCh[g] = r
      BY <1>1, <2>1, <3>1 DEF Readers
    <3>3. ReceiveStream(h) /\ g = h
      BY <3>2 DEF ReceivePosition, ReceiveError, ReceiveStream, Receive, IInv, TypeOK
    <3>4. buf[r] # <<>> /\ Head(buf[r]).kind = "done"
      BY <3>2, <3>3 DEF ReceiveStream, Receive
    <3>5. 1 \in StreamIn(r)
      BY <1>1, <3>4 DEF StreamIn
    <3> QED BY <3>5 DEF Dry
  <2> QED BY <2>1
<1> QED BY <1>1, <1>2, <1>3 DEF Dry

LEMMA DryStays ==
  ASSUME IInv, [Next]_vars, NEW r \in Requests, Dry(r)
  PROVE  Dry(r)'
<1> USE DEF Dry, queueVars, dispVars, chanVars, handlerVars
<1>1. ASSUME NEW h \in Requests, Submit(h) PROVE Dry(r)'
  <2>1. UNCHANGED <<dpc, cur, closed, buf>>
    BY <1>1 DEF Submit, Coalesce, Enqueue
  <2>2. Readers(r)' \subseteq Readers(r)
    BY <1>1 DEF Submit, Coalesce, Enqueue, Readers, IInv, TypeOK
  <2> QED BY <2>1, <2>2 DEF StreamIn
<1>2. CASE TakeToken \/ GraphStreams \/ GraphFails \/ AwaitExecDone
  BY <1>2 DEF TakeToken, GraphStreams, GraphFails, AwaitExecDone, StreamIn, Readers
<1>3. CASE GraphPanics \/ CloseAfterError \/ CloseAfterStream
  <2>1. /\ UNCHANGED <<cur, buf, hpc, resultCh>>
        /\ closed' = [closed EXCEPT ![cur] = TRUE]
    BY <1>3 DEF GraphPanics, CloseAfterError, CloseAfterStream, CloseResultCh
  <2>2. closed[r] \/ cur = r => closed'[r]
    BY <2>1 DEF IInv, TypeOK
  <2> QED BY <2>1, <2>2 DEF StreamIn, Readers
<1>4. ASSUME NEW h \in Requests, StreamEnds(h) \/ LeaveLoop(h) \/ Abort(h) \/ CutShort(h)
      PROVE  Dry(r)'
  <2>1. UNCHANGED <<dpc, cur, closed, buf, resultCh>>
    BY <1>4 DEF StreamEnds, LeaveLoop, Abort, CutShort
  <2>2. Readers(r)' \subseteq Readers(r)
    BY <1>4, <2>1 DEF StreamEnds, LeaveLoop, Abort, CutShort, Readers, IInv, TypeOK
  <2> QED BY <2>1, <2>2 DEF StreamIn
<1>5. CASE UNCHANGED vars
  BY <1>5 DEF vars, StreamIn, Readers
<1> HIDE DEF Dry
<1> QED BY <1>1, <1>2, <1>3, <1>4, <1>5, DryClaim, DryOffer, DryReceive
        DEF Next, Dispatcher, HandlerStep

(* A context is released by a graph that fails or after ExecDone.          *)
LEMMA ReleasedBy ==
  ASSUME IInv, [Next]_vars, NEW r \in Requests,
         ctx'[r] = "released", ctx[r] # "released"
  PROVE  r = cur /\ (GraphFails \/ AwaitExecDone)
<1> USE DEF IInv, TypeOK
<1>1. CASE Claim
  <2>1. PICK q : ctx' = [ctx EXCEPT ![q] = IF @ = "request" THEN "running" ELSE @]
    BY <1>1 DEF Claim
  <2> QED BY <2>1
<1>2. CASE GraphFails \/ AwaitExecDone
  BY <1>2 DEF GraphFails, AwaitExecDone, Release
<1>3. ASSUME NEW h \in Requests, CutShort(h) PROVE FALSE
  BY <1>3 DEF CutShort
<1>4. CASE UNCHANGED ctx
  BY <1>4
<1> QED BY <1>1, <1>2, <1>3, <1>4
  DEF Next, vars, Dispatcher, HandlerStep, Submit, Coalesce, Enqueue, TakeToken, GraphStreams,
      GraphPanics, OfferError, OfferStream, Offer, CloseAfterError, CloseAfterStream,
      CloseResultCh, ReceivePosition, ReceiveError, ReceiveStream, Receive, StreamEnds,
      LeaveLoop, Abort

LEMMA ExecDoneAtTheEnd ==
  ASSUME IInv, [Next]_vars, NEW r \in Requests,
         execDone[r] => hpc[r] \in {"done", "empty"}
  PROVE  /\ execDone[r] => execDone'[r]
         /\ execDone'[r] => hpc'[r] \in {"done", "empty"}
<1> USE DEF queueVars, dispVars, chanVars, handlerVars
<1>1. ASSUME NEW h \in Requests, LeaveLoop(h)
      PROVE  /\ execDone[r] => execDone'[r]
             /\ execDone'[r] => hpc'[r] \in {"done", "empty"}
  BY <1>1 DEF LeaveLoop, ExecDoneSignal, IInv, TypeOK
<1>2. ASSUME NEW h \in Requests, UNCHANGED execDone, hpc[h] \notin {"done", "empty"},
             \A g \in Requests : g # h => hpc'[g] = hpc[g]
      PROVE  /\ execDone[r] => execDone'[r]
             /\ execDone'[r] => hpc'[r] \in {"done", "empty"}
  BY <1>2
<1>3. ASSUME NEW h \in Requests,
             Submit(h) \/ ReceivePosition(h) \/ ReceiveError(h) \/ ReceiveStream(h)
             \/ StreamEnds(h) \/ Abort(h)
      PROVE  /\ UNCHANGED execDone /\ hpc[h] \notin {"done", "empty"}
             /\ \A g \in Requests : g # h => hpc'[g] = hpc[g]
  BY <1>3 DEF Submit, Coalesce, Enqueue, ReceivePosition, ReceiveError, ReceiveStream,
              Receive, Ranging, StreamEnds, Abort, IInv, TypeOK
<1>4. Dispatcher \/ (\E h \in Requests : CutShort(h)) \/ UNCHANGED vars
        => UNCHANGED <<execDone, hpc>>
  BY DEF vars, Dispatcher, TakeToken, Claim, GraphStreams, GraphFails, GraphPanics,
         OfferError, OfferStream, Offer, CloseAfterError, CloseAfterStream, CloseResultCh,
         AwaitExecDone, CutShort
<1> QED BY <1>1, <1>2, <1>3, <1>4 DEF Next, HandlerStep

LEMMA ContextInit == Init => ContextInv
BY DEF Init, ContextInv

LEMMA ContextStep == IInv /\ ContextInv /\ [Next]_vars => ContextInv'
<1> SUFFICES ASSUME IInv, ContextInv, [Next]_vars, NEW r \in Requests
             PROVE  /\ execDone'[r] => hpc'[r] \in {"done", "empty"}
                    /\ ctx'[r] = "released" => execDone'[r] \/ Dry(r)'
  BY DEF ContextInv, Dry
<1>1. /\ execDone[r] => execDone'[r]
      /\ execDone'[r] => hpc'[r] \in {"done", "empty"}
  BY ExecDoneAtTheEnd DEF ContextInv
<1>2. ASSUME ctx[r] = "released" PROVE execDone'[r] \/ Dry(r)'
  BY <1>1, <1>2, DryStays DEF ContextInv, Dry
<1>3. ASSUME ctx'[r] = "released", ctx[r] # "released" PROVE execDone'[r] \/ Dry(r)'
  <2>1. CASE AwaitExecDone /\ r = cur
    BY <1>1, <2>1 DEF AwaitExecDone
  <2>2. CASE GraphFails /\ r = cur
    <3>1. dpc = "run" /\ dpc' = "offerError" /\ UNCHANGED <<cur, closed, buf, hpc, resultCh>>
      BY <2>2 DEF GraphFails, chanVars, handlerVars
    <3>2. StreamIn(r) = {} /\ Readers(r) = {}
      BY <2>2, <3>1 DEF IInv, NoSendOnClosed, DeliveredStreams, Busy
    <3> QED BY <2>2, <3>1, <3>2 DEF Dry, StreamIn, Readers
  <2> QED BY <1>3, <2>1, <2>2, ReleasedBy
<1> QED BY <1>1, <1>2, <1>3

(* A handler that reads the stream of its own request reads it under a     *)
(* context that nobody has cancelled.                                      *)
THEOREM OwnerKeepsItsContext == Spec => []OwnerReadsToTheEnd
<1>1. ContextInv => OwnerReadsToTheEnd
  BY DEF ContextInv, OwnerReadsToTheEnd, Readers
<1>2. Spec => []ContextInv
  BY ContextInit, ContextStep, Inductive, PTL DEF Spec
<1> QED BY <1>1, <1>2, PTL

-----------------------------------------------------------------------------
(* The order of service and the positions that clients are shown.          *)

(* Only a claim takes a request out of the queue.                          *)
LEMMA OnlyClaimRemoves ==
  ASSUME IInv, [Next]_vars, ~Claim, NEW q, IsPending(q)
  PROVE  IsPending(q)'
<1> USE DEF queueVars, IsPending
<1>1. ASSUME NEW r \in Requests, Enqueue(r) PROVE IsPending(q)'
  BY <1>1, AppendElements DEF Enqueue, IInv, TypeOK
<1>2. CASE UNCHANGED pending
  BY <1>2
<1> QED BY <1>1, <1>2
  DEF Next, vars, Dispatcher, HandlerStep, Submit, Coalesce, TakeToken, GraphStreams, GraphFails,
      GraphPanics, OfferError, OfferStream, Offer, CloseAfterError, CloseAfterStream,
      CloseResultCh, AwaitExecDone, ReceivePosition, ReceiveError, ReceiveStream, Receive,
      StreamEnds, LeaveLoop, Abort, CutShort

(* Among the queued requests the most urgent is claimed, and of those the  *)
(* oldest, for any priorities.                                             *)
THEOREM ServedInOrder == Spec => ClaimOrder
<1> DEFINE Ordered ==
      \A i, j \in DOMAIN pending :
        /\ pending[i] \in ToSet(pending')
        /\ pending[j] \notin ToSet(pending')
        => /\ Prio[pending[j]] <= Prio[pending[i]]
           /\ Prio[pending[j]] = Prio[pending[i]] => j < i
<1>1. ASSUME IInv, [Next]_vars PROVE Ordered
  <2>1. CASE Claim
    <3>1. PICK m \in DOMAIN pending :
            /\ \A j \in DOMAIN pending : ServedFirst(m, j)
            /\ pending' = RemoveAt(pending, m)
      BY <2>1 DEF Claim, Without
    <3>2. \A q : IsPending(q)' <=> IsPending(q) /\ q # pending[m]
      BY <1>1, <3>1, ClaimShrinks
    <3>3. ASSUME NEW i \in DOMAIN pending, NEW j \in DOMAIN pending,
                 pending[i] \in ToSet(pending'), pending[j] \notin ToSet(pending')
          PROVE  /\ Prio[pending[j]] <= Prio[pending[i]]
                 /\ Prio[pending[j]] = Prio[pending[i]] => j < i
      <4>1. pending[j] = pending[m] /\ pending[i] # pending[m]
        BY <3>2, <3>3 DEF IsPending, ToSet
      <4>2. j = m /\ i # m
        BY <1>1, <4>1 DEF IInv, DedupMatchesPending
      <4>3. i \in Nat /\ j \in Nat /\ Prio[pending[i]] \in Nat /\ Prio[pending[j]] \in Nat
        <5>1. pending \in Seq(Requests) /\ Prio \in [Requests -> Nat]
          BY <1>1, RequestQueueAssumption DEF IInv, TypeOK
        <5>2. pending[i] \in Requests /\ pending[j] \in Requests /\ i \in Nat /\ j \in Nat
          BY <5>1
        <5> QED BY <5>1, <5>2
      <4> QED BY <3>1, <4>2, <4>3 DEF ServedFirst
    <3> QED BY <3>3
  <2>2. CASE ~Claim
    BY <1>1, <2>2, OnlyClaimRemoves DEF IsPending, ToSet
  <2> QED BY <2>1, <2>2
<1> QED BY <1>1, Inductive, PTL DEF Spec, ClaimOrder

LEMMA PosOfAt ==
  ASSUME NEW s \in Seq(Requests), \A j, k \in DOMAIN s : s[j] = s[k] => j = k,
         NEW i \in DOMAIN s
  PROVE  PosOf(s, s[i]) = i - 1
BY DEF PosOf

LEMMA PositionsTyped ==
  ASSUME IInv, NEW r \in Requests
  PROVE  /\ buf[r] \in Seq(Results)
         /\ \A j \in Positions(r) : j \in DOMAIN buf[r] /\ j \in Nat /\ buf[r][j].pos \in Nat
<1>1. buf[r] \in Seq(Results)
  BY DEF IInv, TypeOK
<1>2. ASSUME NEW j \in Positions(r) PROVE j \in Nat /\ buf[r][j].pos \in Nat
  <2>1. j \in DOMAIN buf[r] /\ buf[r][j] \in Results /\ buf[r][j].kind = "position"
    BY <1>1 DEF Positions
  <2> QED BY <1>1, <2>1 DEF Results, ErrorResult, StreamResult
<1> QED BY <1>1, <1>2 DEF Positions

LEMMA PositionInit == Init => PositionInv
BY DEF Init, PositionInv, Untold, Descending, NoneShownLess, Positions

(* Steps that touch neither the queue nor what is in a channel.            *)
LEMMA QuietPositions ==
  ASSUME PositionInv, UNCHANGED <<pending, buf, told, resultCh>>,
         \A h \in Requests : hpc'[h] = "new" <=> hpc[h] = "new",
         \A h \in Requests : hpc[h] # "new" => resultCh[h] \in Requests
  PROVE  PositionInv'
<1>1. \A r \in Requests : Positions(r)' = Positions(r)
  BY DEF Positions
<1>2. Descending'
  BY <1>1 DEF PositionInv, Descending
<1>3. Untold'
  BY DEF PositionInv, Untold
<1>4. NoneShownLess'
  BY <1>1 DEF PositionInv, NoneShownLess
<1> QED BY <1>2, <1>3, <1>4 DEF PositionInv

LEMMA CoalescePositions ==
  ASSUME IInv, PositionInv, NEW r \in Requests, Coalesce(r)
  PROVE  PositionInv'
<1> USE DEF Coalesce, queueVars, dispVars
<1>1. \A q \in Requests : Positions(q)' = Positions(q)
  BY DEF Positions
<1>2. dedup[KeyOf[r]] \in Requests /\ hpc[dedup[KeyOf[r]]] # "new" /\ told[r] = -1
  <2>1. KeyOf[r] \in Keys
    BY KeyOfType
  <2>2. dedup[KeyOf[r]] \in Requests
    BY <2>1 DEF IInv, TypeOK
  <2>3. IsPending(dedup[KeyOf[r]])
    BY <2>1, <2>2 DEF IInv, DedupMatchesPending
  <2> QED BY <2>2, <2>3 DEF IInv, Ownership, PositionInv, Untold
<1>3. \A h \in Requests : h # r => hpc'[h] = hpc[h] /\ resultCh'[h] = resultCh[h]
  BY DEF IInv, TypeOK
<1>4. hpc'[r] # "new" /\ resultCh'[r] = dedup[KeyOf[r]]
  BY DEF IInv, TypeOK
<1>5. Untold'
  BY <1>2, <1>3, <1>4 DEF PositionInv, Untold, IInv, Ownership
<1>6. Descending'
  BY <1>1 DEF PositionInv, Descending
<1>7. NoneShownLess'
  BY <1>1, <1>2, <1>3, <1>4 DEF PositionInv, NoneShownLess, IInv, Ownership
<1> QED BY <1>5, <1>6, <1>7 DEF PositionInv

LEMMA EnqueuePositions ==
  ASSUME IInv, PositionInv, NEW r \in Requests, Enqueue(r)
  PROVE  PositionInv'
<1> USE DEF Enqueue, InitialPosition, dispVars
<1>1. /\ pending \in Seq(Requests) /\ Len(pending) \in Nat
      /\ buf[r] = <<>> /\ ~IsPending(r)
      /\ \A q \in Requests : Positions(q)' = Positions(q)
      /\ Positions(r) = {}
  BY DEF IInv, TypeOK, Ownership, PositionInv, Untold, Positions
<1>2. /\ \A h \in Requests : h # r => hpc'[h] = hpc[h] /\ resultCh'[h] = resultCh[h]
                                      /\ told'[h] = told[h]
      /\ hpc'[r] # "new" /\ resultCh'[r] = r /\ told'[r] = Len(pending)
  BY DEF IInv, TypeOK
<1>3. \A i \in DOMAIN pending' :
        \/ i \in DOMAIN pending /\ pending'[i] = pending[i] /\ pending[i] # r
        \/ i = Len(pending) + 1 /\ pending'[i] = r
  BY <1>1, AppendAt DEF IsPending, ToSet
<1>4. \A h \in Requests : hpc[h] # "new" => resultCh[h] # r /\ resultCh[h] \in Requests
  BY DEF PositionInv, Untold, IInv, Ownership
<1>5. Untold'
  BY <1>2, <1>4 DEF PositionInv, Untold
<1>6. Descending'
  BY <1>1, <1>3 DEF PositionInv, Descending
<1>7. NoneShownLess'
  <2>1. ASSUME NEW h \in Requests, NEW q \in Requests, h # r,
               hpc'[h] # "new", told'[h] # -1, resultCh'[h] = q
        PROVE  /\ \A j \in Positions(q)' : buf'[q][j].pos <= told'[h]
               /\ \A i \in DOMAIN pending' : pending'[i] = q => i - 1 <= told'[h]
    <3>1. hpc[h] # "new" /\ told[h] # -1 /\ resultCh[h] = q /\ q # r
      BY <1>2, <1>4, <2>1
    <3> QED BY <1>1, <1>2, <1>3, <2>1, <3>1 DEF PositionInv, NoneShownLess
  <2>2. ASSUME NEW q \in Requests, resultCh'[r] = q
        PROVE  /\ \A j \in Positions(q)' : buf'[q][j].pos <= told'[r]
               /\ \A i \in DOMAIN pending' : pending'[i] = q => i - 1 <= told'[r]
    <3>1. q = r /\ Positions(r)' = {}
      BY <1>1, <1>2, <2>2
    <3>2. \A i \in DOMAIN pending' : pending'[i] = r => i - 1 = Len(pending)
      BY <1>1, <1>3
    <3> QED BY <1>1, <1>2, <3>1, <3>2
  <2>3. ASSUME NEW h \in Requests, NEW q \in Requests,
               hpc'[h] # "new", told'[h] # -1, resultCh'[h] = q
        PROVE  /\ \A j \in Positions(q)' : buf'[q][j].pos <= told'[h]
               /\ \A i \in DOMAIN pending' : pending'[i] = q => i - 1 <= told'[h]
    <3>1. CASE h = r
      BY <2>2, <2>3, <3>1
    <3>2. CASE h # r
      BY <2>1, <2>3, <3>2
    <3> QED BY <3>1, <3>2
  <2> QED BY <2>3 DEF NoneShownLess
<1> QED BY <1>5, <1>6, <1>7 DEF PositionInv

LEMMA ClaimPositions ==
  ASSUME IInv, PositionInv, Claim
  PROVE  PositionInv'
<1>1. PICK m \in DOMAIN pending : pending' = RemoveAt(pending, m)
  BY DEF Claim, Without
<1>2. /\ UNCHANGED <<hpc, told, resultCh>>
      /\ IInv'
  BY ClaimIInv DEF Claim, handlerVars
<1>3. \A i \in DOMAIN pending' : \E k \in DOMAIN pending :
        /\ pending'[i] = pending[k] /\ i <= k
        /\ i \in Nat /\ k \in Nat
  <2>1. /\ pending \in Seq(Requests) /\ Len(pending) \in Nat /\ m \in 1..Len(pending)
        /\ pending' \in Seq(Requests) /\ Len(pending') = Len(pending) - 1
        /\ \A j \in 1..(Len(pending) - 1) :
             pending'[j] = IF j < m THEN pending[j] ELSE pending[j + 1]
    <3>1. pending \in Seq(Requests)
      BY DEF IInv, TypeOK
    <3>2. Len(pending) \in Nat /\ m \in 1..Len(pending)
      BY <3>1
    <3>3. /\ RemoveAt(pending, m) \in Seq(Requests)
          /\ Len(RemoveAt(pending, m)) = Len(pending) - 1
          /\ \A j \in 1..(Len(pending) - 1) :
               RemoveAt(pending, m)[j] = IF j < m THEN pending[j] ELSE pending[j + 1]
      BY <3>1, RemoveAtIsSeq
    <3> QED BY <1>1, <3>1, <3>2, <3>3
  <2>2. ASSUME NEW i \in DOMAIN pending'
        PROVE  \E k \in DOMAIN pending : /\ pending'[i] = pending[k] /\ i <= k
                                         /\ i \in Nat /\ k \in Nat
    <3>1. CASE i < m
      BY <2>1, <2>2, <3>1
    <3>2. CASE ~(i < m)
      <4>1. i + 1 \in DOMAIN pending /\ pending'[i] = pending[i + 1]
        BY <2>1, <2>2, <3>2
      <4> QED BY <2>1, <2>2, <4>1
    <3> QED BY <3>1, <3>2
  <2> QED BY <2>2
<1>4. \A i \in DOMAIN pending' : PosOf(pending', pending'[i]) = i - 1
  BY <1>2, PosOfAt DEF IInv, TypeOK, DedupMatchesPending
<1>5. ASSUME NEW r \in Requests, NEW j \in Positions(r)'
      PROVE  \/ /\ j \in Positions(r) /\ buf'[r][j] = buf[r][j]
             \/ /\ j = Len(buf[r]) + 1
                /\ \E i \in DOMAIN pending' : pending'[i] = r /\ buf'[r][j].pos = i - 1
  <2>1. CASE buf'[r] = buf[r]
    BY <1>5, <2>1 DEF Positions
  <2>2. CASE /\ IsPending(r)'
             /\ buf'[r] = Append(buf[r], Position(PosOf(pending', r)))
    <3>1. PICK i \in DOMAIN pending' : pending'[i] = r
      BY <2>2 DEF IsPending, ToSet
    <3>2. buf'[r] = Append(buf[r], Position(i - 1))
      BY <1>4, <2>2, <3>1
    <3>3. buf[r] \in Seq(Results) /\ Position(i - 1) \in Results /\ Position(i - 1).pos = i - 1
      BY <1>3, PositionsTyped DEF Position, Results
    <3>4. \/ j \in DOMAIN buf[r] /\ buf'[r][j] = buf[r][j]
          \/ j = Len(buf[r]) + 1 /\ buf'[r][j] = Position(i - 1)
      BY <1>5, <3>2, <3>3, AppendAt DEF Positions
    <3> QED BY <1>5, <3>1, <3>3, <3>4 DEF Positions
  <2> QED BY <2>1, <2>2, AnnounceAt
<1>6. Untold'
  <2>1. ASSUME NEW h \in Requests, hpc[h] = "new" PROVE buf'[h] = buf[h]
    <3>1. ~IsPending(h)
      BY <2>1 DEF IInv, Ownership
    <3>2. ~IsPending(h)'
      BY <1>1, <3>1, ClaimShrinks
    <3> QED BY <3>2, AnnounceAt
  <2> QED BY <1>2, <2>1 DEF PositionInv, Untold
<1>7. Descending'
  <2>1. ASSUME NEW r \in Requests, NEW i \in Positions(r)', NEW j \in Positions(r)', i <= j
        PROVE  buf'[r][j].pos <= buf'[r][i].pos
    <3>1. CASE i \in Positions(r) /\ buf'[r][i] = buf[r][i]
               /\ j \in Positions(r) /\ buf'[r][j] = buf[r][j]
      BY <2>1, <3>1 DEF PositionInv, Descending
    <3>2. CASE i = j
      <4>1. buf'[r] \in Seq(Results) /\ buf'[r][i].kind = "position" /\ i \in DOMAIN buf'[r]
        BY <1>2, <2>1 DEF IInv, TypeOK, Positions
      <4>2. buf'[r][i].pos \in Nat
        BY <4>1 DEF Results, ErrorResult, StreamResult
      <4> QED BY <3>2, <4>2
    <3>3. CASE /\ i \in Positions(r) /\ buf'[r][i] = buf[r][i]
               /\ \E n \in DOMAIN pending' : pending'[n] = r /\ buf'[r][j].pos = n - 1
      <4>1. PICK n \in DOMAIN pending' : pending'[n] = r /\ buf'[r][j].pos = n - 1
        BY <3>3
      <4>2. PICK k \in DOMAIN pending : r = pending[k] /\ n <= k /\ n \in Nat /\ k \in Nat
        BY <1>3, <4>1
      <4>3. k - 1 <= buf[r][i].pos /\ buf[r][i].pos \in Nat
        BY <3>3, <4>2, PositionsTyped DEF PositionInv, Descending
      <4> QED BY <3>3, <4>1, <4>2, <4>3
    <3>4. i \in DOMAIN buf[r] => i <= Len(buf[r]) /\ i \in Nat
      BY PositionsTyped
    <3> QED BY <1>5, <2>1, <3>1, <3>2, <3>3, <3>4, PositionsTyped DEF Positions
  <2>2. ASSUME NEW r \in Requests, NEW i \in DOMAIN pending', NEW j \in Positions(r)',
               pending'[i] = r
        PROVE  i - 1 <= buf'[r][j].pos
    <3>1. PICK k \in DOMAIN pending : pending'[i] = pending[k] /\ i <= k /\ i \in Nat /\ k \in Nat
      BY <1>3
    <3>2. pending[k] = r
      BY <2>2, <3>1
    <3>3. CASE j \in Positions(r) /\ buf'[r][j] = buf[r][j]
      <4>1. k - 1 <= buf[r][j].pos /\ buf[r][j].pos \in Nat
        BY <3>1, <3>2, <3>3, PositionsTyped DEF PositionInv, Descending
      <4> QED BY <3>1, <3>2, <3>3, <4>1
    <3>4. CASE \E n \in DOMAIN pending' : pending'[n] = r /\ buf'[r][j].pos = n - 1
      <4>1. PICK n \in DOMAIN pending' : pending'[n] = r /\ buf'[r][j].pos = n - 1
        BY <3>4
      <4>2. n = i
        BY <1>2, <2>2, <4>1 DEF IInv, DedupMatchesPending
      <4> QED BY <3>1, <4>1, <4>2
    <3> QED BY <1>5, <2>2, <3>3, <3>4
  <2> QED BY <2>1, <2>2 DEF Descending
<1>8. NoneShownLess'
  <2>1. ASSUME NEW h \in Requests, NEW r \in Requests,
               hpc[h] # "new", told[h] # -1, resultCh[h] = r
        PROVE  /\ \A j \in Positions(r)' : buf'[r][j].pos <= told[h]
               /\ \A i \in DOMAIN pending' : pending'[i] = r => i - 1 <= told[h]
    <3>2. told[h] \in Nat
      BY <2>1 DEF IInv, TypeOK
    <3>3. ASSUME NEW i \in DOMAIN pending', pending'[i] = r PROVE i - 1 <= told[h]
      <4>1. PICK k \in DOMAIN pending : pending'[i] = pending[k] /\ i <= k /\ i \in Nat /\ k \in Nat
        BY <1>3
      <4>2. k - 1 <= told[h]
        BY <2>1, <3>3, <4>1 DEF PositionInv, NoneShownLess
      <4> QED BY <3>2, <4>1, <4>2
    <3>4. ASSUME NEW j \in Positions(r)' PROVE buf'[r][j].pos <= told[h]
      <4>1. CASE j \in Positions(r) /\ buf'[r][j] = buf[r][j]
        BY <2>1, <4>1 DEF PositionInv, NoneShownLess
      <4>2. CASE \E n \in DOMAIN pending' : pending'[n] = r /\ buf'[r][j].pos = n - 1
        BY <3>3, <4>2
      <4> QED BY <1>5, <3>4, <4>1, <4>2
    <3> QED BY <3>3, <3>4
  <2> QED BY <1>2, <2>1 DEF NoneShownLess
<1> QED BY <1>6, <1>7, <1>8 DEF PositionInv

LEMMA OfferPositions ==
  ASSUME IInv, PositionInv, OfferError \/ OfferStream
  PROVE  PositionInv'
<1>1. PICK x \in {ErrorResult, StreamResult} : buf' = [buf EXCEPT ![cur] = Append(@, x)]
  BY DEF OfferError, OfferStream, Offer
<1>2. /\ dpc \in Busy
      /\ UNCHANGED <<pending, hpc, told, resultCh>>
  BY DEF OfferError, OfferStream, Offer, queueVars, handlerVars, Busy
<1>3. cur \in Requests /\ hpc[cur] # "new"
  BY <1>2 DEF IInv, Ownership
<1>4. \A r \in Requests : r # cur => buf'[r] = buf[r]
  BY <1>1, <1>3 DEF IInv, TypeOK
<1>5. ASSUME NEW r \in Requests
      PROVE  /\ Positions(r)' = Positions(r)
             /\ \A j \in Positions(r) : buf'[r][j] = buf[r][j]
  <2>1. CASE r # cur
    BY <1>4, <2>1 DEF Positions
  <2>2. CASE r = cur
    <3>1. buf[r] \in Seq(Results) /\ x \in Results /\ x.kind # "position"
      BY DEF IInv, TypeOK, Results, ErrorResult, StreamResult
    <3>2. buf'[r] = Append(buf[r], x)
      BY <1>1, <2>2 DEF IInv, TypeOK
    <3>3. /\ \A j \in DOMAIN buf[r] : j \in DOMAIN buf'[r] /\ buf'[r][j] = buf[r][j]
          /\ \A j \in DOMAIN buf'[r] : j \in DOMAIN buf[r] \/ buf'[r][j] = x
      BY <3>1, <3>2
    <3> QED BY <3>1, <3>3 DEF Positions
  <2> QED BY <2>1, <2>2
<1>6. Untold'
  BY <1>2, <1>3, <1>4 DEF PositionInv, Untold
<1>7. Descending'
  BY <1>2, <1>5 DEF PositionInv, Descending
<1>8. NoneShownLess'
  BY <1>2, <1>5 DEF PositionInv, NoneShownLess
<1> QED BY <1>6, <1>7, <1>8 DEF PositionInv

(* A handler is shown the oldest position in its channel, and the others   *)
(* move up.                                                                *)
LEMMA ReceivePositions ==
  ASSUME IInv, PositionInv, NEW h \in Requests,
         ReceivePosition(h) \/ ReceiveError(h) \/ ReceiveStream(h)
  PROVE  /\ PositionInv'
         /\ told[h] # -1 => told'[h] <= told[h]
         /\ \A g \in Requests : g # h => told'[g] = told[g]
<1>1. /\ UNCHANGED <<pending, resultCh>>
      /\ hpc[h] # "new" /\ buf[resultCh[h]] # <<>>
      /\ buf' = [buf EXCEPT ![resultCh[h]] = Tail(@)]
      /\ resultCh[h] \in Requests
  BY DEF ReceivePosition, ReceiveError, ReceiveStream, Receive, Ranging, queueVars,
         IInv, Ownership
<1> PICK c \in Requests : c = resultCh[h]
  BY <1>1
<1>2. /\ buf[c] \in Seq(Results) /\ buf[c] # <<>> /\ buf'[c] = Tail(buf[c])
      /\ \A r \in Requests : r # c => buf'[r] = buf[r]
  BY <1>1 DEF IInv, TypeOK
<1>3. \A g \in Requests : hpc'[g] = "new" <=> hpc[g] = "new"
  BY <1>1 DEF ReceivePosition, ReceiveError, ReceiveStream, Receive, IInv, TypeOK
<1>4. /\ \A g \in Requests : g # h => told'[g] = told[g]
      /\ \/ told'[h] = told[h]
         \/ 1 \in Positions(c) /\ told'[h] = buf[c][1].pos
  BY <1>1, <1>2 DEF ReceivePosition, ReceiveError, ReceiveStream, Receive, Positions,
     IInv, TypeOK
<1>5. ASSUME NEW j \in Positions(c)'
      PROVE  j + 1 \in Positions(c) /\ buf'[c][j] = buf[c][j + 1]
  <2>1. j \in DOMAIN Tail(buf[c]) /\ buf'[c][j].kind = "position"
    BY <1>2, <1>5 DEF Positions
  <2>2. j + 1 \in DOMAIN buf[c] /\ Tail(buf[c])[j] = buf[c][j + 1]
    BY <1>2, <2>1, TailAt
  <2> QED BY <1>2, <2>1, <2>2 DEF Positions
<1>6. \A r \in Requests : r # c => Positions(r)' = Positions(r)
  BY <1>2 DEF Positions
<1>7. Untold'
  <2>1. \A g \in Requests : hpc[g] = "new" => g # c /\ g # h
    BY <1>1 DEF PositionInv, Untold
  <2> QED BY <1>1, <1>2, <1>3, <1>4, <2>1 DEF PositionInv, Untold, IInv, Ownership
<1>8. Descending'
  <2>1. \A j \in Positions(c)' : j \in Nat
    BY <1>2 DEF Positions
  <2>2. ASSUME NEW j \in Positions(c)'
        PROVE  /\ \A i \in Positions(c)' : i <= j => buf'[c][j].pos <= buf'[c][i].pos
               /\ \A i \in DOMAIN pending' : pending'[i] = c => i - 1 <= buf'[c][j].pos
    <3>1. \A i \in Positions(c)' : i <= j => i + 1 <= j + 1
      BY <2>1
    <3> QED BY <1>1, <1>5, <2>2, <3>1 DEF PositionInv, Descending
  <2> QED BY <1>1, <1>2, <1>6, <2>2 DEF PositionInv, Descending
<1>9. NoneShownLess'
  <2>1. ASSUME NEW g \in Requests, NEW r \in Requests, g # h,
               hpc[g] # "new", told[g] # -1, resultCh[g] = r
        PROVE  /\ \A j \in Positions(r)' : buf'[r][j].pos <= told[g]
               /\ \A i \in DOMAIN pending : pending[i] = r => i - 1 <= told[g]
    <3>1. CASE r = c
      BY <1>5, <2>1, <3>1 DEF PositionInv, NoneShownLess
    <3>2. CASE r # c
      BY <1>2, <1>6, <2>1, <3>2 DEF PositionInv, NoneShownLess
    <3> QED BY <3>1, <3>2
  <2>2. ASSUME told'[h] # -1
        PROVE  /\ \A j \in Positions(c)' : buf'[c][j].pos <= told'[h]
               /\ \A i \in DOMAIN pending : pending[i] = c => i - 1 <= told'[h]
    <3>1. CASE told'[h] = told[h]
      BY <1>1, <1>5, <2>2, <3>1 DEF PositionInv, NoneShownLess
    <3>2. CASE 1 \in Positions(c) /\ told'[h] = buf[c][1].pos
      <4>1. \A j \in Positions(c)' : 1 <= j + 1
        BY <1>2 DEF Positions
      <4> QED BY <1>5, <3>2, <4>1 DEF PositionInv, Descending
    <3> QED BY <1>4, <3>1, <3>2
  <2> QED BY <1>1, <1>3, <1>4, <2>1, <2>2 DEF NoneShownLess
<1>10. told[h] # -1 => told'[h] <= told[h]
  <2>1. CASE told'[h] = told[h]
    BY <2>1 DEF IInv, TypeOK
  <2>2. CASE 1 \in Positions(c) /\ told'[h] = buf[c][1].pos
    BY <1>1, <2>2 DEF PositionInv, NoneShownLess
  <2> QED BY <1>4, <2>1, <2>2
<1> QED BY <1>4, <1>7, <1>8, <1>9, <1>10 DEF PositionInv

LEMMA PositionStep ==
  ASSUME IInv, PositionInv, [Next]_vars
  PROVE  /\ PositionInv'
         /\ \A h \in Requests : told[h] # -1 => told'[h] <= told[h]
<1> USE DEF queueVars, dispVars, chanVars, handlerVars
<1>0. UNCHANGED told => \A h \in Requests : told[h] # -1 => told'[h] <= told[h]
  BY DEF IInv, TypeOK
<1>1. \A h \in Requests : hpc[h] # "new" => resultCh[h] \in Requests
  BY DEF IInv, Ownership
<1>2. ASSUME NEW r \in Requests, Coalesce(r)
      PROVE  PositionInv' /\ UNCHANGED told
  BY <1>2, CoalescePositions DEF Coalesce
<1>3. ASSUME NEW r \in Requests, Enqueue(r)
      PROVE  PositionInv' /\ \A h \in Requests : told[h] # -1 => told'[h] <= told[h]
  <2>1. told[r] = -1
    BY <1>3 DEF Enqueue, PositionInv, Untold
  <2>2. \A h \in Requests : h # r => told'[h] = told[h]
    BY <1>3 DEF Enqueue, IInv, TypeOK
  <2> QED BY <1>3, <2>1, <2>2, EnqueuePositions DEF IInv, TypeOK
<1>4. CASE Claim
  BY <1>0, <1>4, ClaimPositions DEF Claim
<1>5. CASE OfferError \/ OfferStream
  BY <1>0, <1>5, OfferPositions DEF OfferError, OfferStream, Offer
<1>6. CASE \/ TakeToken \/ GraphStreams \/ GraphFails \/ AwaitExecDone
           \/ GraphPanics \/ CloseAfterError \/ CloseAfterStream
           \/ (\E h \in Requests : CutShort(h)) \/ UNCHANGED vars
  <2>1. UNCHANGED <<pending, buf, told, resultCh, hpc>>
    BY <1>6 DEF vars, TakeToken, GraphStreams, GraphFails, AwaitExecDone, GraphPanics,
       CloseAfterError, CloseAfterStream, CloseResultCh, CutShort
  <2> QED BY <1>0, <1>1, <2>1, QuietPositions
<1>7. ASSUME NEW h \in Requests, StreamEnds(h) \/ LeaveLoop(h) \/ Abort(h)
      PROVE  PositionInv' /\ UNCHANGED told
  <2>1. UNCHANGED <<pending, buf, told, resultCh>>
    BY <1>7 DEF StreamEnds, LeaveLoop, Abort
  <2>2. \A g \in Requests : hpc'[g] = "new" <=> hpc[g] = "new"
    BY <1>7 DEF StreamEnds, LeaveLoop, Abort, Ranging, IInv, TypeOK
  <2> QED BY <1>1, <2>1, <2>2, QuietPositions
<1>8. ASSUME NEW h \in Requests,
             ReceivePosition(h) \/ ReceiveError(h) \/ ReceiveStream(h)
      PROVE  PositionInv' /\ \A g \in Requests : told[g] # -1 => told'[g] <= told[g]
  <2>1. /\ PositionInv'
        /\ told[h] # -1 => told'[h] <= told[h]
        /\ \A g \in Requests : g # h => told'[g] = told[g]
    BY <1>8, ReceivePositions
  <2>2. \A g \in Requests : told[g] \in Int
    BY DEF IInv, TypeOK
  <2> QED BY <2>1, <2>2
<1> QED BY <1>0, <1>2, <1>3, <1>4, <1>5, <1>6, <1>7, <1>8
        DEF Next, Dispatcher, Submit, HandlerStep

(* The inductive invariant with what it needs to speak of contexts and of  *)
(* positions.                                                              *)
THEOREM FullyInductive == Spec => []QueueInv
<1>1. Init => QueueInv
  BY InitIInv, ContextInit, PositionInit DEF QueueInv
<1>2. QueueInv /\ [Next]_vars => QueueInv'
  BY StepIInv, ContextStep, PositionStep DEF QueueInv
<1> QED BY <1>1, <1>2, PTL DEF Spec

(* The numbers that a client is shown only fall, however many requests     *)
(* overtake it or share its channel, and whatever positions are dropped.   *)
THEOREM ShownOnlyFalls == Spec => ShownNeverGrows
<1>1. IInv /\ PositionInv /\ [Next]_vars => PositionInv'
  BY PositionStep
<1>2. IInv /\ PositionInv /\ [Next]_vars
        => [\A h \in Requests : told[h] # -1 => told'[h] <= told[h]]_vars
  BY PositionStep
<1> QED BY <1>1, <1>2, PositionInit, Inductive, PTL DEF Spec, ShownNeverGrows

(* The number last shown is enough for the others of the same priority     *)
(* that are served first: they all came earlier, so there are no more of   *)
(* them than places before the request in pending.                         *)
LEMMA ShownCounts ==
  ASSUME QueueInv
  PROVE  ShownIsEnough
<1> SUFFICES ASSUME NEW h \in Requests, NEW i \in DOMAIN pending,
                    hpc[h] # "new", told[h] # -1, resultCh[h] = pending[i]
             PROVE  Cardinality(AheadInTurn(i)) <= told[h]
  BY DEF ShownIsEnough
<1>1. /\ pending \in Seq(Requests) /\ told[h] \in Int /\ pending[i] \in Requests
      /\ Prio \in [Requests -> Nat]
  BY RequestQueueAssumption DEF QueueInv, IInv, TypeOK
<1>2. i \in Nat \ {0} /\ DOMAIN pending \in SUBSET Nat
  BY <1>1
<1>3. i - 1 <= told[h]
  BY <1>1 DEF QueueInv, PositionInv, NoneShownLess
<1>4. ASSUME NEW j \in AheadInTurn(i)
      PROVE  j \in 1..(i - 1)
  <2>1. j \in DOMAIN pending /\ j # i /\ ServedFirst(j, i) /\ Prio[pending[i]] <= Prio[pending[j]]
    BY <1>4 DEF AheadInTurn
  <2>2. pending[j] \in Requests /\ j \in Nat \ {0}
    BY <1>1, <2>1
  <2>3. Prio[pending[j]] \in Nat /\ Prio[pending[i]] \in Nat
    BY <1>1, <2>2
  <2>4. j <= i
    BY <2>1, <2>3 DEF ServedFirst
  <2> QED BY <1>2, <2>1, <2>2, <2>4
<1>5. IsFiniteSet(1..(i - 1)) /\ Cardinality(1..(i - 1)) = i - 1
  <2> DEFINE n == i - 1
  <2>1. n \in Nat
    BY <1>2
  <2> HIDE DEF n
  <2>2. IsFiniteSet(1..n) /\ Cardinality(1..n) = IF 1 > n THEN 0 ELSE n - 1 + 1
    BY <2>1, FS_Interval
  <2>3. Cardinality(1..n) = n
    BY <2>1, <2>2
  <2> QED BY <2>2, <2>3 DEF n
<1>6. AheadInTurn(i) \in SUBSET (1..(i - 1))
  BY <1>4
<1> DEFINE S == 1..(i - 1)
           A == AheadInTurn(i)
<1>7. Cardinality(A) <= Cardinality(S) /\ IsFiniteSet(A)
  <2>1. IsFiniteSet(S) /\ A \in SUBSET S
    BY <1>5, <1>6
  <2> HIDE DEF S, A
  <2> QED BY <2>1, FS_Subset
<1>8. Cardinality(AheadInTurn(i)) \in Nat
  BY <1>7, FS_CardinalityType
<1> QED BY <1>1, <1>2, <1>3, <1>5, <1>7, <1>8

(* Claims keep the order, and the number a client is shown is enough for   *)
(* all that are served before it without being more urgent, and only falls.*)
THEOREM TurnsKept == Spec => TurnsAreKept
<1>1. QueueInv => ShownIsEnough
  BY ShownCounts
<1>2. QueueInv' => [ShownIsEnough']_vars
  BY <1>1, PTL
<1> QED BY <1>2, FullyInductive, ServedInOrder, ShownOnlyFalls, PTL DEF TurnsAreKept

=============================================================================
