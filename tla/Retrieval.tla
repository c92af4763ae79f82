----------------------------- MODULE Retrieval ------------------------------
(***************************************************************************)
(* One question through the retrieval chain: NewRAGChain                   *)
(* (internal/pipeline/rag.go), the retrievers                              *)
(* (internal/component/esretriever, mysqlretriever) and the reranker that  *)
(* has the model score every candidate (internal/component/reranker).      *)
(*                                                                         *)
(* Actors: the caller and one goroutine per candidate, of which            *)
(* MaxConcurrent run at a time; the request may be cancelled.              *)
(*                                                                         *)
(* Abstractions: a chunk is its name; how well it fits is Relevance; the   *)
(* model reports that, reports nothing readable, fails or panics.          *)
(***************************************************************************)
EXTENDS Integers, Sequences, FiniteSets, SequencesExt

CONSTANTS
  Children, Parents,   \* the chunks that match the question
  Relevance,           \* how well each of them fits, 0 to 10
  CandidateTopK,       \* candidates a retriever returns at most
  TopK,                \* documents that go into the prompt
  MaxConcurrent        \* candidates scored at a time (8)

ASSUME RetrievalAssumption ==
  /\ Relevance \in [Children \cup Parents -> Nat]
  /\ IsFiniteSet(Children) /\ IsFiniteSet(Parents)
  /\ TopK \in Nat \ {0} /\ CandidateTopK \in Nat \ {0} /\ MaxConcurrent \in Nat \ {0}

MaxRetries == 1
Ended      == MaxRetries + 1

VARIABLES
  retriever,   \* how candidates are found: "mysql", "knn", "hybrid" or "stub"
  caller,       \* where the caller is
  candidates,  \* what the retriever returned
  started,     \* how many of them have a goroutine
  worker,      \* where the goroutine of each is: attempts made, or Ended
  scores,      \* scores[idx]
  failed,      \* history: candidates that were not scored by the model
  cancelled,   \* the request's context is done
  prompt       \* the documents in the prompt

retrievalVars == <<retriever, caller, candidates, started, worker, scores, failed, cancelled, prompt>>

RetrievalInit ==
  /\ retriever \in {"mysql", "knn", "hybrid", "stub"}
  /\ caller = "retrieve" /\ candidates = <<>> /\ started = 0
  /\ worker = <<>> /\ scores = <<>> /\ failed = {} /\ cancelled = FALSE /\ prompt = <<>>

-----------------------------------------------------------------------------
(* MySQL matches the text of the children only.                            *)
MySqlSearched == Children

(* kNN looks at children only; the text search of the hybrid mode and of   *)
(* the fallback for stub vectors looks at every chunk.                     *)
Searched ==
  CASE retriever = "mysql"             -> MySqlSearched
    [] retriever = "knn"               -> Children
    [] retriever \in {"hybrid", "stub"} -> Children \cup Parents

NoReranking(s) == Len(s) <= TopK

Retrieve ==
  /\ caller = "retrieve"
  /\ \E S \in SUBSET Searched :
       LET s == SetToSeq(S) IN
       /\ Cardinality(S) <= CandidateTopK
       /\ candidates' = s
       /\ worker' = [i \in DOMAIN s |-> 0] /\ scores' = [i \in DOMAIN s |-> 0]
       /\ IF NoReranking(s) THEN caller' = "answer" /\ prompt' = s
                            ELSE caller' = "score" /\ UNCHANGED prompt
  /\ UNCHANGED <<retriever, started, failed, cancelled>>

(* The chain ends with an error, which the chat service answers itself.    *)
RetrieveFails ==
  /\ caller = "retrieve"
  /\ caller' = "failed"
  /\ UNCHANGED <<retriever, candidates, started, worker, scores, failed, cancelled, prompt>>

Cancel ==
  /\ ~cancelled /\ caller = "score"
  /\ cancelled' = TRUE
  /\ UNCHANGED <<retriever, caller, candidates, started, worker, scores, failed, prompt>>

Running == {i \in 1..started : worker[i] # Ended}

FreeSlot   == Cardinality(Running) < MaxConcurrent

StartWorker ==
  /\ caller = "score" /\ started < Len(candidates) /\ FreeSlot /\ ~cancelled
  /\ started' = started + 1
  /\ UNCHANGED <<retriever, caller, candidates, worker, scores, failed, cancelled, prompt>>

F_Record(i, s) == [scores EXCEPT ![started] = s]
Record(i, s)   == [scores EXCEPT ![i] = s]

(* scoreDoc: a score, or another try after an error or an unreadable       *)
(* answer; a candidate that is not scored, or whose goroutine panics, gets *)
(* 0.                                                                      *)
ScoreDoc(i) ==
  /\ i \in Running
  /\ \/ /\ ~cancelled
        /\ scores' = Record(i, Relevance[candidates[i]])
        /\ worker' = [worker EXCEPT ![i] = Ended] /\ UNCHANGED failed
     \/ /\ worker[i] < MaxRetries
        /\ worker' = [worker EXCEPT ![i] = @ + 1] /\ UNCHANGED <<scores, failed>>
     \/ /\ scores' = Record(i, 0)
        /\ worker' = [worker EXCEPT ![i] = Ended] /\ failed' = failed \cup {i}
  /\ UNCHANGED <<retriever, caller, candidates, started, cancelled, prompt>>

(* wg.Wait, the sort and the cut; equal scores come in any order.          *)
Collect ==
  /\ caller = "score" /\ Running = {} /\ (started = Len(candidates) \/ cancelled)
  /\ \E p \in {f \in [1..TopK -> DOMAIN candidates] : IsInjective(f)} :
       /\ \A i, j \in 1..TopK : i < j => scores[p[i]] >= scores[p[j]]
       /\ \A k \in DOMAIN candidates \ {p[i] : i \in 1..TopK} : scores[k] <= scores[p[TopK]]
       /\ prompt' = [i \in 1..TopK |-> candidates[p[i]]]
  /\ caller' = "answer"
  /\ UNCHANGED <<retriever, candidates, started, worker, scores, failed, cancelled>>

-----------------------------------------------------------------------------
RetrievalStep == Retrieve \/ RetrieveFails \/ StartWorker \/ Collect
                 \/ \E i \in Running : ScoreDoc(i)

RetrievalNext == RetrievalStep \/ Cancel

RetrievalSpec == RetrievalInit /\ [][RetrievalNext]_retrievalVars

-----------------------------------------------------------------------------
(* Every variable has its type. *)
RetrievalTypeOK ==
  /\ caller \in {"retrieve", "score", "answer", "failed"}
  /\ IsInjective(candidates) /\ Len(candidates) <= CandidateTopK
  /\ started \in 0..Len(candidates) /\ failed \subseteq 1..started
  /\ DOMAIN worker = DOMAIN candidates /\ DOMAIN scores = DOMAIN candidates

Chosen == {i \in DOMAIN candidates : \E j \in DOMAIN prompt : prompt[j] = candidates[i]}

(* Goroutines that end in any order, fail and try again leave the best     *)
(* candidates in the prompt: one that was scored is left out only for one  *)
(* that fits at least as well, and the ones that failed come last.  One    *)
(* that does not fit at all, which scores 0, counts like one that failed.  *)
RerankKeepsTheBest ==
  caller = "answer" => \A i \in Chosen, j \in DOMAIN candidates \ Chosen :
    j \in 1..started \ failed /\ Relevance[candidates[j]] > 0 =>
      i \in 1..started \ failed /\ Relevance[candidates[i]] >= Relevance[candidates[j]]

(* The search looks at child chunks and leaves the parents out (the        *)
(* comment in Retrieve of the Elasticsearch retriever).                    *)
OnlyChildren == \A i \in DOMAIN candidates : candidates[i] \in Children

=============================================================================
