------------------------------- MODULE MCStores -------------------------------
(* An instance for TLC of the components that keep data: conversations,    *)
(* memories and the prompts made of them, documents, the retrieval chain,  *)
(* stock prices, the list of stocks and approvals.                         *)
(* They share no state, so a behaviour is one of a single component, which *)
(* part names; the others rest in one of their initial states.             *)
EXTENDS Conversations, Memory, Prompts, Documents, Retrieval, StockPrices, StockList,
        ApprovalStore

CONSTANTS childA, childB, childC, aParent, docA, docB, go, goZero, news

VARIABLE part

Parts == {"conversations", "memory", "prompts", "documents", "retrieval", "prices", "list",
          "approvals"}

(* One chunk does not fit at all, one as well as the parent, one better.   *)
HowWell ==
  [c \in {childA, childB, childC, aParent} |->
     IF c = childA THEN 0 ELSE IF c = childC THEN 5 ELSE 3]

(* The word go is part of go-zero, which has the tokens go and zero.       *)
SomeLists == {{goZero}, {news}, {go, news}}

SimilarTo(k, kind) ==
  IF k = go \/ (k = goZero /\ kind = "es") THEN {go, goZero} ELSE {k}

WhatIsFound ==
  [kind \in {"es", "mysql"} |->
     [k \in {go, goZero, news} |-> {ks \in SomeLists : ks \cap SimilarTo(k, kind) # {}}]]

(* Readers and Users are the same values in the cfg as Chats.              *)
Symmetric == Permutations(Chats)

(* Only MySQL may have messages before the first request.                  *)
MCInit ==
  /\ part \in Parts
  /\ ConvInit /\ (part # "conversations" => backend = "mem") /\ (backend # "mysql" => clock = 0)
  /\ MemoryInit /\ (part # "memory" => memStore = "es")
  /\ PromptsInit /\ (part # "prompts" => noteStore = "es")
  /\ DocInit /\ (part # "documents" => docStore = "es" /\ target = [x \in Deleters |-> docA])
  /\ RetrievalInit /\ (part # "retrieval" => retriever = "stub")
  /\ PricesInit
  /\ part # "prices" => barFile = {} /\ quoteFile = Never /\ limit = [r \in Readers |-> 0]
  /\ ListInit
  /\ part # "list" => ranking = (CHOOSE s \in Rankings : TRUE) /\ hasTotal /\ rows = {}
  /\ ApprovalInit

MCNext ==
  \/ part = "conversations" /\ ConvNext
     /\ UNCHANGED <<part, memoryVars, promptVars, docVars, retrievalVars, pricesVars,
                    listVars, approvalVars>>
  \/ part = "memory" /\ MemoryNext
     /\ UNCHANGED <<part, convVars, promptVars, docVars, retrievalVars, pricesVars,
                    listVars, approvalVars>>
  \/ part = "prompts" /\ PromptsNext
     /\ UNCHANGED <<part, convVars, memoryVars, docVars, retrievalVars, pricesVars,
                    listVars, approvalVars>>
  \/ part = "documents" /\ DocNext
     /\ UNCHANGED <<part, convVars, memoryVars, promptVars, retrievalVars, pricesVars,
                    listVars, approvalVars>>
  \/ part = "retrieval" /\ RetrievalNext
     /\ UNCHANGED <<part, convVars, memoryVars, promptVars, docVars, pricesVars,
                    listVars, approvalVars>>
  \/ part = "prices" /\ PricesNext
     /\ UNCHANGED <<part, convVars, memoryVars, promptVars, docVars, retrievalVars,
                    listVars, approvalVars>>
  \/ part = "list" /\ ListNext
     /\ UNCHANGED <<part, convVars, memoryVars, promptVars, docVars, retrievalVars,
                    pricesVars, approvalVars>>
  \/ part = "approvals" /\ ApprovalNext
     /\ UNCHANGED <<part, convVars, memoryVars, promptVars, docVars, retrievalVars,
                    pricesVars, listVars>>

MCSpec ==
  MCInit /\ [][MCNext]_<<part, convVars, memoryVars, promptVars, docVars, retrievalVars,
                         pricesVars, listVars, approvalVars>>
-----------------------------------------------------------------------------
(* The variables of every store have their types.                          *)
TypesHold ==
  /\ ConvTypeOK /\ MemoryTypeOK /\ PromptsTypeOK /\ DocTypeOK /\ RetrievalTypeOK
  /\ PricesTypeOK /\ ListTypeOK /\ ApprovalTypeOK

=============================================================================
