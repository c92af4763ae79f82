--------------------------- MODULE SemanticCache ---------------------------
(***************************************************************************)
(* The semantic cache (internal/service/semantic_cache.go) and the plain   *)
(* chat requests that read and fill it (Chat of internal/service/chat.go,  *)
(* called by handleInvoke of internal/handler/chat.go).                    *)
(*                                                                         *)
(* Actors: the requests, each in its own goroutine, and the clock.  Get    *)
(* and Put compute the embedding of the query before they take the lock,   *)
(* so other requests run between the two; what they do under the lock is   *)
(* one step.                                                               *)
(*                                                                         *)
(* Abstractions: an embedding is the query it was made of, or NoVector,    *)
(* and Score is the cosine.  An answer is named after the request whose    *)
(* run of the retrieval chain made it.  A request that its client          *)
(* abandons fails to embed, or its chain fails: both may happen anyway.    *)
(***************************************************************************)
EXTENDS Integers, Sequences, FiniteSets, Functions, Loops

CONSTANTS
  Requests,       \* the chat requests
  Queries,        \* the questions they may ask
  Realtime,       \* those isRealtimeQuery recognises
  Score,          \* the cosine of two questions, in steps of the model
  Threshold,      \* c.threshold
  Capacity,       \* c.capacity
  AnswerTTL,      \* c.ttl, in ticks
  MaxTime,        \* bound: ticks of the clock
  NoVector, Degraded, None

ASSUME SemanticCacheAssumption ==
  /\ Realtime \subseteq Queries
  /\ Score \in [Queries \X Queries -> Nat]
  /\ Threshold \in Nat \ {0}
  /\ Capacity \in Nat \ {0} /\ AnswerTTL \in Nat /\ MaxTime \in Nat
  /\ NoVector \notin Queries /\ None \notin Queries
  /\ Degraded # None /\ Degraded \notin Requests /\ None \notin Requests \cup (0..MaxTime)

VARIABLES
  now,       \* the clock
  entries,   \* c.entries: by query, the answer, its embedding and expireAt
  order,     \* c.order: the queries of the entries, front first
  hits, misses,
  pc,        \* where each request is
  query,     \* what it asks
  vec,       \* the embedding it holds between embedQuery and the lock
  answer,    \* what it will answer
  dialogue,   \* what its conversation has of it
  lost,      \* the requests one of whose messages could not be saved
  storedAt   \* history: when the answer of each request was put

cache  == <<entries, order>>
counts == <<hits, misses>>
saved  == <<dialogue, lost>>
semanticVars == <<now, cache, counts, pc, query, vec, answer, saved, storedAt>>

SemanticInit ==
  /\ now = 0
  /\ entries = <<>> /\ order = <<>>
  /\ hits = 0 /\ misses = 0
  /\ pc = [r \in Requests |-> "ask"]
  /\ query = [r \in Requests |-> None]
  /\ vec = [r \in Requests |-> None]
  /\ answer = [r \in Requests |-> None]
  /\ dialogue = [r \in Requests |-> <<>>]
  /\ lost = {}
  /\ storedAt = [r \in Requests |-> None]

Goto(r, label) == pc' = [pc EXCEPT ![r] = label]

(* A message of the request is written to its conversation, or that fails  *)
(* and is only logged.                                                     *)
SaveMessage(r, message) ==
  \/ dialogue' = [dialogue EXCEPT ![r] = Append(@, message)] /\ UNCHANGED lost
  \/ lost' = lost \cup {r} /\ UNCHANGED dialogue

(* handleInvoke saves the question before it calls Chat. *)
Ask(r, q) ==
  /\ pc[r] = "ask" /\ Goto(r, "get")
  /\ query' = [query EXCEPT ![r] = q]
  /\ SaveMessage(r, "question")
  /\ UNCHANGED <<now, cache, counts, vec, answer, storedAt>>
-----------------------------------------------------------------------------
(* The cache without the expired entries: evictExpiredLocked. *)
Live == {k \in DOMAIN entries : now <= entries[k].expireAt}

Dropping(seq, keys) == Filter(seq, Queries \ keys)

LiveOrder == Dropping(order, DOMAIN entries \ Live)

MoveToFront(k, seq) == <<k>> \o Dropping(seq, {k})

Similarity(v, k) ==
  IF NoVector \in {v, entries[k].embed} THEN 0 ELSE Score[v, entries[k].embed]

(* The entries of the best score, if that reaches the threshold. *)
Matches(v) ==
  {k \in Live : /\ Similarity(v, k) >= Threshold
                /\ \A j \in Live : Similarity(v, j) <= Similarity(v, k)}

(* embedQuery may fail, and may return no vector and no error. *)
Embed(r) == \E v \in {query[r], NoVector} : vec' = [vec EXCEPT ![r] = v]

Miss == misses' = misses + 1 /\ UNCHANGED hits

(* Get of a realtime query, or its embedding failed. *)
GetSkips(r) ==
  /\ pc[r] = "get" /\ Goto(r, "invoke")
  /\ Miss
  /\ UNCHANGED <<now, cache, query, vec, answer, saved, storedAt>>

GetEmbeds(r) ==
  /\ pc[r] = "get" /\ Goto(r, "lookup")
  /\ query[r] \notin Realtime
  /\ Embed(r)
  /\ UNCHANGED <<now, cache, counts, query, answer, saved, storedAt>>

Hit(r) ==
  /\ pc[r] = "lookup" /\ Goto(r, "save")
  /\ \E k \in Matches(vec[r]) :
       /\ answer' = [answer EXCEPT ![r] = entries[k].answer]
       /\ order' = MoveToFront(k, LiveOrder)
  /\ entries' = Restrict(entries, Live)
  /\ hits' = hits + 1
  /\ vec' = [vec EXCEPT ![r] = None]
  /\ UNCHANGED <<now, misses, query, saved, storedAt>>

NoHit(r) ==
  /\ pc[r] = "lookup" /\ Goto(r, "invoke")
  /\ Matches(vec[r]) = {}
  /\ entries' = Restrict(entries, Live)
  /\ order' = LiveOrder
  /\ Miss
  /\ vec' = [vec EXCEPT ![r] = None]
  /\ UNCHANGED <<now, query, answer, saved, storedAt>>
-----------------------------------------------------------------------------
ChainAnswers(r) ==
  /\ pc[r] = "invoke" /\ Goto(r, "put")
  /\ answer' = [answer EXCEPT ![r] = r]
  /\ UNCHANGED <<now, cache, counts, query, vec, saved, storedAt>>

F_Done == "done"

(* The degraded notice is saved like any answer, and not cached. *)
AfterNotice == "save"

ChainFails(r) ==
  /\ pc[r] = "invoke" /\ Goto(r, AfterNotice)
  /\ answer' = [answer EXCEPT ![r] = Degraded]
  /\ UNCHANGED <<now, cache, counts, query, vec, saved, storedAt>>

(* Put of a realtime query or an empty answer, or its embedding failed. *)
PutSkips(r) ==
  /\ pc[r] = "put" /\ Goto(r, "save")
  /\ UNCHANGED <<now, cache, counts, query, vec, answer, saved, storedAt>>

PutEmbeds(r) ==
  /\ pc[r] = "put" /\ Goto(r, "store")
  /\ query[r] \notin Realtime
  /\ Embed(r)
  /\ UNCHANGED <<now, cache, counts, query, answer, saved, storedAt>>

F_OneTooMany(seq) == IF Len(seq) > Capacity THEN SubSeq(seq, 1, Capacity) ELSE seq

F_KeepsAnswer(r) ==
  [answer |-> IF query[r] \in Live THEN entries[query[r]].answer ELSE answer[r],
   embed |-> vec[r], expireAt |-> now + AnswerTTL]

(* What Put writes, over an old entry of the same query too. *)
EntryOf(r) == [answer |-> answer[r], embed |-> vec[r], expireAt |-> now + AnswerTTL]

(* A full list drops from its back until a new entry fits. *)
MakeRoom(seq) == IF Len(seq) >= Capacity THEN SubSeq(seq, 1, Capacity - 1) ELSE seq

Store(r) ==
  LET q == query[r]
      kept == IF q \in Live THEN LiveOrder ELSE MakeRoom(LiveOrder)
  IN  /\ pc[r] = "store" /\ Goto(r, "save")
      /\ order' = MoveToFront(q, kept)
      /\ entries' = [k \in Range(kept) \cup {q} |->
                       IF k = q THEN EntryOf(r) ELSE entries[k]]
      /\ storedAt' = [storedAt EXCEPT ![r] = now]
      /\ vec' = [vec EXCEPT ![r] = None]
      /\ UNCHANGED <<now, counts, query, answer, saved>>

(* Chat saves what it answers, cached, made or degraded, and returns it. *)
SaveAnswer(r) ==
  /\ pc[r] = "save" /\ Goto(r, "done")
  /\ SaveMessage(r, answer[r])
  /\ UNCHANGED <<now, cache, counts, query, vec, answer, storedAt>>

Tick ==
  /\ now < MaxTime
  /\ now' = now + 1
  /\ UNCHANGED <<cache, counts, pc, query, vec, answer, saved, storedAt>>

Get(r) == GetSkips(r) \/ GetEmbeds(r) \/ Hit(r) \/ NoHit(r)
Put(r) == PutSkips(r) \/ PutEmbeds(r) \/ Store(r)
Chat(r) == Get(r) \/ ChainAnswers(r) \/ ChainFails(r) \/ Put(r) \/ SaveAnswer(r)

SemanticNext ==
  \/ \E r \in Requests, q \in Queries : Ask(r, q)
  \/ \E r \in Requests : Chat(r)
  \/ Tick

SemanticSpec == SemanticInit /\ [][SemanticNext]_semanticVars
-----------------------------------------------------------------------------
Labels == {"ask", "get", "lookup", "invoke", "put", "store", "save", "done"}

(* The state of the cache and of its requests is well-formed: the map and  *)
(* the LRU list, which every operation changes one after the other, hold   *)
(* the same queries, each once and within the capacity, and the two        *)
(* counters add up to the lookups.                                         *)
SemanticTypeOK ==
  /\ now \in 0..MaxTime
  /\ pc \in [Requests -> Labels]
  /\ query \in [Requests -> Queries \cup {None}]
  /\ vec \in [Requests -> Queries \cup {NoVector, None}]
  /\ answer \in [Requests -> Requests \cup {Degraded, None}]
  /\ lost \subseteq Requests
  /\ IsInjective(order) /\ Range(order) = DOMAIN entries
  /\ Len(order) <= Capacity
  /\ hits + misses = Cardinality({r \in Requests : pc[r] \notin {"ask", "get", "lookup"}})

(* What a hit answers was made by a run of the retrieval chain (a degraded *)
(* notice never is), for a question that scores above the threshold and is *)
(* not about realtime data, and was put no longer than the TTL ago,        *)
(* however the puts of other requests overlapped: the promise of the       *)
(* header of semantic_cache.go, "TTL ... 实时类问题...跳过缓存".            *)
HitsAreSound ==
  [][\A r \in Requests :
       pc[r] = "lookup" /\ pc'[r] = "save" =>
         LET maker == answer'[r]
         IN  /\ maker \in Requests
             /\ storedAt[maker] # None /\ now <= storedAt[maker] + AnswerTTL
             /\ Score[query[r], query[maker]] >= Threshold
             /\ {query[r], query[maker]} \cap Realtime = {}]_semanticVars

(* A finished request has its question and, after it, the very answer its  *)
(* caller got in its conversation, unless a write failed: also on the      *)
(* paths that answer from the cache or with the degraded notice            *)
(* ("会话历史必须完整", chat.go).                                           *)
HistoryComplete ==
  \A r \in Requests :
    pc[r] = "done" /\ r \notin lost => dialogue[r] = <<"question", answer[r]>>

(* The cache is well formed and the history of every request is complete.  *)
ChatIsSound == SemanticTypeOK /\ HistoryComplete

=============================================================================
