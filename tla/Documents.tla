----------------------------- MODULE Documents ------------------------------
(***************************************************************************)
(* The documents of the knowledge base: upload, list and delete            *)
(* (internal/handler/document.go, internal/service/document.go), the text  *)
(* extraction and the ingestion chain (internal/pipeline), and the chunks  *)
(* and metadata in Elasticsearch or MySQL (internal/component/esindexer,   *)
(* mysqlindexer, internal/store/document.go, mysql_document.go).           *)
(*                                                                         *)
(* Actors: the uploads and the users who delete.  Chunks and metadata are  *)
(* in two places, and no transaction joins them.                           *)
(*                                                                         *)
(* Abstractions: a document is its upload, as every upload gets an id of   *)
(* its own; it has MaxChunks chunks, children and parents alike; vectors   *)
(* are left out.  A chunk that Elasticsearch has indexed can be searched,  *)
(* and found by a delete, only after the next refresh.  The metadata index *)
(* is there; Save and List make it when it is not.                         *)
(***************************************************************************)
EXTENDS Integers, FiniteSets

CONSTANTS
  Docs,        \* the uploads
  Deleters,    \* the requests to delete
  MaxChunks    \* bound: chunks of a document

ASSUME DocumentsAssumption == MaxChunks \in Nat \ {0}

Formats   == {"pdf", "docx", "xlsx", "pptx", "plain", "other"}
AllChunks == 1..MaxChunks
NotListed == -1

VARIABLES
  docStore,    \* "es" or "mysql"
  indexed,     \* the chunks of each document that are written
  searchable,  \* those of them that a search or a delete finds
  docList,     \* the chunk count in the metadata of each document, or NotListed
  upload,      \* where each upload is
  deleter,     \* where each delete is
  target,      \* and its document
  hurt         \* history: documents of which a write failed or a delete came too soon

docVars == <<docStore, indexed, searchable, docList, upload, deleter, target, hurt>>

DocInit ==
  /\ docStore \in {"es", "mysql"}
  /\ indexed = [d \in Docs |-> {}] /\ searchable = [d \in Docs |-> {}]
  /\ docList = [d \in Docs |-> NotListed]
  /\ upload = [d \in Docs |-> "new"]
  /\ deleter = [x \in Deleters |-> "new"] /\ target \in [Deleters -> Docs]
  /\ hurt = {}

-----------------------------------------------------------------------------
At(d, from, to) == upload[d] = from /\ upload' = [upload EXCEPT ![d] = to]

(* What ExtractText and Ingest make of a file: text; the raw bytes, when   *)
(* the extraction fails; or nothing, for a docx without a word.            *)
Extracted(format, hasText) ==
  CASE format = "plain" \/ (hasText /\ format # "other") -> "text"
    [] format = "docx" /\ ~hasText                       -> "nothing"
    [] OTHER                                             -> "raw"

(* Chunking makes something of every text that is not empty.               *)
Chunked(text) == text # "nothing"

(* UploadDocument and the first three steps of the chain: the file is      *)
(* refused, has no content, is chunked, or cannot be embedded.             *)
Ingest(d) ==
  /\ \E format \in Formats, hasText \in BOOLEAN :
       \/ Chunked(Extracted(format, hasText)) /\ At(d, "new", "chunked")
       \/ At(d, "new", "over")
  /\ UNCHANGED <<docStore, indexed, searchable, docList, deleter, target, hurt>>

(* idx.Store: a bulk request, some of whose items Elasticsearch may refuse *)
(* unnoticed; a transaction in MySQL.                                      *)
StoreChunks(d) ==
  /\ At(d, "chunked", "stored")
  /\ \E S \in SUBSET AllChunks :
       /\ S = AllChunks \/ docStore = "es"
       /\ indexed' = [indexed EXCEPT ![d] = S]
       /\ searchable' = IF docStore = "mysql" THEN [searchable EXCEPT ![d] = S] ELSE searchable
       /\ hurt' = IF S = AllChunks THEN hurt ELSE hurt \cup {d}
  /\ UNCHANGED <<docStore, docList, deleter, target>>

F_StoreFails(d) ==
  /\ At(d, "chunked", "stored")
  /\ UNCHANGED <<docStore, indexed, searchable, docList, deleter, target, hurt>>

(* The error ends the upload; what a lost bulk request wrote remains.      *)
StoreFails(d) ==
  /\ At(d, "chunked", "over")
  /\ \E S \in SUBSET AllChunks :
       /\ S = {} \/ docStore = "es"
       /\ indexed' = [indexed EXCEPT ![d] = S]
       /\ hurt' = IF S = {} THEN hurt ELSE hurt \cup {d}
  /\ UNCHANGED <<docStore, searchable, docList, deleter, target>>

(* An error is only logged, and the upload reported as processed.          *)
SaveMeta(d) ==
  /\ At(d, "stored", "over")
  /\ \/ docList' = [docList EXCEPT ![d] = MaxChunks] /\ UNCHANGED hurt
     \/ hurt' = hurt \cup {d} /\ UNCHANGED docList
  /\ UNCHANGED <<docStore, indexed, searchable, deleter, target>>

Refresh ==
  /\ searchable # indexed
  /\ searchable' = indexed
  /\ UNCHANGED <<docStore, indexed, docList, upload, deleter, target, hurt>>

-----------------------------------------------------------------------------
(* DeleteByDocumentID reaches what can be searched.                        *)
Reaches(d)   == IF docStore = "mysql" THEN indexed[d] ELSE searchable[d]

(* DeleteDocument of a listed document: the chunks, with errors ignored,   *)
(* then the metadata.                                                      *)
DeleteChunks(x) ==
  LET d == target[x] IN
  /\ deleter[x] = "new" /\ docList[d] # NotListed
  /\ deleter' = [deleter EXCEPT ![x] = "meta"]
  /\ \/ /\ indexed' = [indexed EXCEPT ![d] = @ \ Reaches(d)]
        /\ searchable' = [searchable EXCEPT ![d] = @ \ Reaches(d)]
        /\ hurt' = IF searchable[d] = indexed[d] THEN hurt ELSE hurt \cup {d}
     \/ hurt' = hurt \cup {d} /\ UNCHANGED <<indexed, searchable>>
  /\ UNCHANGED <<docStore, docList, upload, target>>

DeleteMeta(x) ==
  /\ deleter[x] = "meta"
  /\ deleter' = [deleter EXCEPT ![x] = "over"]
  /\ \/ docList' = [docList EXCEPT ![target[x]] = NotListed] /\ UNCHANGED hurt
     \/ hurt' = hurt \cup {target[x]} /\ UNCHANGED docList
  /\ UNCHANGED <<docStore, indexed, searchable, upload, target>>

-----------------------------------------------------------------------------
DocNext ==
  \/ \E d \in Docs : Ingest(d) \/ StoreChunks(d) \/ StoreFails(d) \/ SaveMeta(d)
  \/ \E x \in Deleters : DeleteChunks(x) \/ DeleteMeta(x)
  \/ Refresh

DocSpec == DocInit /\ [][DocNext]_docVars

-----------------------------------------------------------------------------
(* Every variable has its type. *)
DocTypeOK ==
  /\ docStore \in {"es", "mysql"}
  /\ \A d \in Docs : searchable[d] \subseteq indexed[d] /\ indexed[d] \subseteq AllChunks
  /\ docList \in [Docs -> {NotListed, MaxChunks}]
  /\ upload \in [Docs -> {"new", "chunked", "stored", "over"}]
  /\ deleter \in [Deleters -> {"new", "meta", "over"}]
  /\ hurt \subseteq Docs

Resting(d) == /\ upload[d] \in {"new", "over"}
              /\ \A x \in Deleters : target[x] = d => deleter[x] # "meta"

(* The knowledge base answers from what it lists: a document at rest is    *)
(* listed with all of its chunks, or has none, unless one of its writes    *)
(* failed where no transaction covers it, or Elasticsearch was asked to    *)
(* delete before it could find the chunks.                                 *)
ChunksFollowTheList ==
  \A d \in Docs : Resting(d) /\ d \notin hurt =>
    indexed[d] = IF docList[d] = NotListed THEN {} ELSE AllChunks

=============================================================================
