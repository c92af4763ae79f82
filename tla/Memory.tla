------------------------------- MODULE Memory -------------------------------
(***************************************************************************)
(* The long-term memory (internal/service/memory.go) over its two stores   *)
(* (internal/store: memory, mysql_memory).                                 *)
(*                                                                         *)
(* Actors: after each agent answer a goroutine extracts memories from the  *)
(* turn and stores them one by one, next to those of other turns; the      *)
(* process may stop at any time and loses its goroutines.                  *)
(*                                                                         *)
(* Abstractions: a memory is its keywords and its status; its id is its    *)
(* place in the order of creation, which is also that of updated_at among  *)
(* active memories.  No code calls Delete, DeleteAll or List of a store.   *)
(* The version is always 1 and no code changes it, so the check of it      *)
(* never fails.  How a prompt is made of memories is in Prompts.           *)
(***************************************************************************)
EXTENDS Integers, Sequences, FiniteSets

CONSTANTS
  Turns,        \* the turns that memories are extracted from
  Keywords,
  KeywordLists, \* the lists of keywords that memories have
  FoundBy,      \* by store and keyword: the lists that a search for it finds
  MaxItems      \* bound: memories extracted from one turn

(* A memory without keywords gets its type as one.  What a keyword finds   *)
(* is left open: MySQL looks for it anywhere in the JSON text of the list, *)
(* so that it finds longer words as well; Elasticsearch finds the lists    *)
(* that have one of its tokens.                                            *)
ASSUME MemoryAssumption ==
  /\ MaxItems \in Nat \ {0}
  /\ KeywordLists \subseteq (SUBSET Keywords) \ {{}}
  /\ FoundBy \in [{"es", "mysql"} -> [Keywords -> SUBSET KeywordLists]]

VARIABLES
  memStore,   \* the store that is wired: "es" or "mysql"
  memories,   \* the memories written, oldest first
  extractor,  \* where each goroutine is
  items,      \* how many memories it has yet to store
  item,       \* the keywords of the one it is storing
  conflict    \* the memory it found to replace, 0 for none

memoryVars == <<memStore, memories, extractor, items, item, conflict>>

MemoryInit ==
  /\ memStore \in {"es", "mysql"}
  /\ memories = <<>>
  /\ extractor = [t \in Turns |-> "new"]
  /\ items = [t \in Turns |-> 0] /\ item = [t \in Turns |-> {}]
  /\ conflict = [t \in Turns |-> 0]

-----------------------------------------------------------------------------
Active(m)     == memories[m].status = "active"
(* One of the keywords finds the list, of another memory.                  *)
Finds(ks, list) == \E k \in ks : list \in FoundBy[memStore][k]

Hits(k)       == {m \in DOMAIN memories : Active(m) /\ Finds({k}, memories[m].keywords)}

F_FirstHits(k) == {m \in DOMAIN memories : Active(m)}
(* FindByKeyword: MySQL has the newest first, Elasticsearch the best match.*)
FirstHits(k)  == IF memStore = "mysql" THEN {m \in Hits(k) : \A n \in Hits(k) : n <= m}
                                       ELSE Hits(k)

Step(t, from, to) == extractor[t] = from /\ extractor' = [extractor EXCEPT ![t] = to]

(* ExtractAndStore: the model lists the memories, or fails.                *)
Extract(t) ==
  /\ Step(t, "new", "item")
  /\ \E n \in 0..MaxItems : items' = [items EXCEPT ![t] = n]
  /\ UNCHANGED <<memStore, memories, item, conflict>>

(* The first keyword that hits an active memory decides; a search that     *)
(* fails counts as a miss.                                                 *)
FindConflict(t) ==
  /\ items[t] > 0
  /\ items' = [items EXCEPT ![t] = @ - 1]
  /\ \E ks \in KeywordLists, supersedes \in BOOLEAN :
       \E m \in {0} \cup UNION {FirstHits(k) : k \in ks} :
         /\ item' = [item EXCEPT ![t] = ks]
         /\ IF m # 0 /\ supersedes
            THEN Step(t, "item", "supersede") /\ conflict' = [conflict EXCEPT ![t] = m]
            ELSE Step(t, "item", "index") /\ conflict' = [conflict EXCEPT ![t] = 0]
  /\ UNCHANGED <<memStore, memories>>

New(t) == [status |-> "active", keywords |-> item[t], replaces |-> conflict[t]]

IndexMemory(t) ==
  /\ Step(t, "index", "item")
  /\ memories' = Append(memories, New(t)) \/ UNCHANGED memories
  /\ UNCHANGED <<memStore, items, item, conflict>>

Superseded(s, m) == [s EXCEPT ![m].status = "superseded"]

(* Supersede of MySQL: a transaction.                                      *)
F_AcrossConnections(t) ==
  /\ memStore = "mysql" /\ Step(t, "supersede", "item")
  /\ \/ memories' = Append(Superseded(memories, conflict[t]), New(t))
     \/ memories' = Append(memories, New(t))
     \/ UNCHANGED memories
  /\ UNCHANGED <<memStore, items, item, conflict>>

Supersede(t) ==
  /\ memStore = "mysql" /\ Step(t, "supersede", "item")
  /\ \/ memories' = Append(Superseded(memories, conflict[t]), New(t))
     \/ UNCHANGED memories
  /\ UNCHANGED <<memStore, items, item, conflict>>

(* Supersede of Elasticsearch: the new memory, then the mark on the old.   *)
F_MarkFirst(t) ==
  /\ memStore = "es"
  /\ Step(t, "supersede", "index") /\ memories' = Superseded(memories, conflict[t])
  /\ UNCHANGED <<memStore, items, item, conflict>>

WriteNew(t) ==
  /\ memStore = "es"
  /\ \/ /\ Step(t, "supersede", "mark")
        /\ memories' = Append(memories, New(t))
     \/ Step(t, "supersede", "item") /\ UNCHANGED memories
  /\ UNCHANGED <<memStore, items, item, conflict>>

MarkOld(t) ==
  /\ Step(t, "mark", "item")
  /\ memories' = Superseded(memories, conflict[t]) \/ UNCHANGED memories
  /\ UNCHANGED <<memStore, items, item, conflict>>

(* The process stops: what the goroutines had in hand is gone.             *)
ProcessStops ==
  /\ \E t \in Turns : extractor[t] # "new" /\ items[t] + conflict[t] > 0
  /\ extractor' = [t \in Turns |-> IF extractor[t] = "new" THEN "new" ELSE "item"]
  /\ items' = [t \in Turns |-> 0] /\ item' = [t \in Turns |-> {}]
  /\ conflict' = [t \in Turns |-> 0]
  /\ UNCHANGED <<memStore, memories>>

-----------------------------------------------------------------------------
MemoryNext ==
  \/ \E t \in Turns : \/ Extract(t) \/ FindConflict(t) \/ IndexMemory(t)
                      \/ Supersede(t) \/ WriteNew(t) \/ MarkOld(t)
  \/ ProcessStops

MemorySpec == MemoryInit /\ [][MemoryNext]_memoryVars

-----------------------------------------------------------------------------
(* Every variable has its type. *)
MemoryTypeOK ==
  /\ memStore \in {"es", "mysql"}
  /\ \A m \in DOMAIN memories :
       /\ memories[m].status \in {"active", "superseded"}
       /\ memories[m].keywords \in KeywordLists
       /\ memories[m].replaces \in 0..(m - 1)
  /\ extractor \in [Turns -> {"new", "item", "index", "supersede", "mark"}]
  /\ items \in [Turns -> 0..MaxItems] /\ item \in [Turns -> KeywordLists \cup {{}}]
  /\ conflict \in [Turns -> 0..Len(memories)]

Replacements(m) == {n \in DOMAIN memories : memories[n].replaces = m}

(* A memory leaves the prompt only for one that has taken its place, and   *)
(* whose keywords find it, wherever a call fails or the process stops; and *)
(* in MySQL the two never count side by side.  The two need not share a    *)
(* keyword, see SharesAKeyword.                                            *)
NothingForgotten ==
  \A m \in DOMAIN memories :
    /\ ~Active(m) => \E n \in Replacements(m) :
                       Finds(memories[n].keywords, memories[m].keywords)
    /\ memStore = "mysql" /\ Replacements(m) # {} => ~Active(m)

(* What takes the place of a memory shares a keyword with it.  It need not:*)
(* a search for "go" finds "go-zero".  No run checks it.                   *)
SharesAKeyword ==
  \A n, m \in DOMAIN memories :
    memories[n].replaces = m => memories[n].keywords \cap memories[m].keywords # {}

(* A memory is replaced once: the version check of Supersede stops the     *)
(* second of two that found it (the comments on Supersede).                *)
OneReplacement == \A m \in DOMAIN memories : Cardinality(Replacements(m)) <= 1

=============================================================================
