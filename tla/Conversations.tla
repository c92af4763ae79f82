--------------------------- MODULE Conversations ----------------------------
(***************************************************************************)
(* Conversations and the chat requests that read and write them: Chat of   *)
(* internal/handler/chat.go with its plain, streamed and agent replies,    *)
(* the service around the store (internal/service/conversation.go,         *)
(* chat.go), and the three stores behind it (internal/store: conversation, *)
(* mysql_conversation, memconv).                                           *)
(*                                                                         *)
(* Actors: the requests and a user who deletes.  One store is wired at     *)
(* start.  MySQL and memory do an operation at once; Elasticsearch does    *)
(* each of its calls at once, and other requests run between them.         *)
(*                                                                         *)
(* Abstractions: a message is its request, its role and the time stamp it  *)
(* is sorted by; every message takes one unit of the model's budget; the   *)
(* id of a new conversation is the request that made it; titles are left   *)
(* out.  Any call of MySQL, Elasticsearch or the model may fail.           *)
(***************************************************************************)
EXTENDS Integers, FiniteSets, Sequences

CONSTANTS
  Chats,       \* chat requests
  FixedIds,    \* ids that clients choose, like stock_<code>
  Budget,      \* messages that fit in the context of the model
  LoadLimit,   \* messages a store returns at most (1000)
  MaxDeletes   \* bound: how often the user deletes

ASSUME ConversationsAssumption ==
  /\ Budget \in Nat /\ LoadLimit \in Nat \ {0} /\ MaxDeletes \in Nat
  /\ Chats \cap FixedIds = {}

ConvIds == FixedIds \cup Chats
Absent  == -1

VARIABLES
  backend,     \* the store that is wired: "es", "mysql" or "mem"
  listed,      \* the message count in the metadata of each conversation, or Absent
  stored,      \* the messages of each conversation
  clock,       \* the time stamps given so far
  at, conv,    \* where each request is, and its conversation
  saving,      \* the save it is in: role, stamp, and the count it has read
  history,     \* what it has loaded
  given,       \* what its model gets: the summarised and the kept messages
  summaries,   \* summaryCache: what was summarised for a conversation and a length
  deleting,    \* the conversations whose messages Elasticsearch is yet to delete
  deletes,     \* how often the user has deleted
  lone,        \* the requests whose save has run without failure and alone so far
  steady       \* the conversations never deleted nor used by two requests at once

data == <<backend, listed, stored>>
user == <<deleting, deletes>>
chat == <<conv, saving, history, given, summaries>>
convVars == <<data, clock, at, chat, user, lone, steady>>

Idle      == [role |-> "none", stamp |-> 0, count |-> 0]
Nothing   == [summed |-> <<>>, kept |-> <<>>]
Exists(c) == listed[c] # Absent
Message(r) == [by |-> r, role |-> saving[r].role, stamp |-> saving[r].stamp]
Old(n)     == [by |-> "old", role |-> "user", stamp |-> n]

ConvInit ==
  /\ backend \in {"es", "mysql", "mem"}
  /\ \E n \in {0, 2} :     \* old messages of the fixed conversations
       /\ listed = [c \in ConvIds |-> IF c \in FixedIds /\ n > 0 THEN n ELSE Absent]
       /\ stored = [c \in ConvIds |-> IF c \in FixedIds THEN {Old(i) : i \in 1..n} ELSE {}]
       /\ clock = n
  /\ at = [r \in Chats |-> "new"] /\ conv = [r \in Chats |-> r]
  /\ saving = [r \in Chats |-> Idle]
  /\ history = [r \in Chats |-> <<>>]
  /\ given = [r \in Chats |-> Nothing]
  /\ summaries = [k \in {} |-> <<>>]
  /\ deleting = {} /\ deletes = 0 /\ lone = {} /\ steady = ConvIds

-----------------------------------------------------------------------------
Go(r, from, to) == at[r] = from /\ at' = [at EXCEPT ![r] = to]

Using(c)   == {r \in Chats : conv[r] = c /\ at[r] \notin {"new", "done"}}
Writing(c) == {r \in Using(c) : at[r] \in {"ensure", "index", "count", "write"}}
Interrupt(c, r) == lone' = lone \ (Writing(c) \cup {r})

(* Index with the document id (Elasticsearch) and the map entry (memory)   *)
(* replace what is there; INSERT (MySQL) refuses.                          *)
Create(c) ==
  /\ listed' = IF backend = "mysql" /\ Exists(c) THEN listed ELSE [listed EXCEPT ![c] = 0]
  /\ stored' = IF backend = "mem" THEN [stored EXCEPT ![c] = {}] ELSE stored
  /\ UNCHANGED backend

MayFail == backend # "mem" /\ UNCHANGED data

(* No id: Create and Rename; without a conversation the request is over.   *)
StartNew(r) ==
  /\ \/ Create(r) /\ Go(r, "new", "ask")
     \/ MayFail /\ Go(r, "new", "done")
  /\ UNCHANGED <<clock, chat, user, lone, steady>>

(* The client's id: Ensure asks whether the conversation exists; whether   *)
(* or not that works, the request goes on.                                 *)
StartFixed(r, c) ==
  /\ \/ Go(r, "new", IF Exists(c) THEN "load" ELSE "ensure")
     \/ MayFail /\ Go(r, "new", "load")
  /\ conv' = [conv EXCEPT ![r] = c]
  /\ steady' = IF Using(c) = {} THEN steady ELSE steady \ {c}
  /\ UNCHANGED <<data, clock, saving, history, given, summaries, user, lone>>

(* The second half of Ensure, whatever has happened since the first.       *)
EnsureCreates(r) ==
  /\ Go(r, "ensure", "load")
  /\ Create(conv[r]) \/ MayFail
  /\ Interrupt(conv[r], r)
  /\ UNCHANGED <<clock, chat, user, steady>>

-----------------------------------------------------------------------------
(* The message of S with i - 1 older ones, and the n oldest in their order. *)
Nth(S, i) == {x \in S : Cardinality({y \in S : y.stamp < x.stamp}) = i - 1}
Oldest(S, n) == [i \in 1..(IF Cardinality(S) < n THEN Cardinality(S) ELSE n) |->
                   CHOOSE x \in Nth(S, i) : TRUE]

(* Load returns the oldest messages; an error is no history.               *)
LoadHistory(r) ==
  /\ Go(r, "load", "trim")
  /\ \/ history' = [history EXCEPT ![r] = Oldest(stored[conv[r]], LoadLimit)]
     \/ (backend # "mem" \/ ~Exists(conv[r])) /\ UNCHANGED history
  /\ UNCHANGED <<data, clock, conv, saving, given, summaries, user, lone, steady>>

F_CacheKey(c, dropped) == <<c, 1>>
CacheKey(c, dropped)   == <<c, Len(dropped)>>

(* summarizeSync: from the cache or by the model, which adds to the cache; *)
(* when the model fails nothing stands for the messages.                   *)
Summarize(key, dropped) ==
  IF key \in DOMAIN summaries THEN {<<summaries[key], summaries>>}
  ELSE {<<<<>>, summaries>>,
        <<dropped, [k \in DOMAIN summaries \cup {key} |->
                      IF k = key THEN dropped ELSE summaries[k]]>>}

(* TrimHistory: what does not fit is summarised.                           *)
TrimHistory(r) ==
  LET h       == history[r]
      n       == IF Len(h) > Budget THEN Len(h) - Budget ELSE 0
      dropped == SubSeq(h, 1, n)
  IN  /\ Go(r, "trim", "ask")
      /\ \E s \in IF n = 0 THEN {<<<<>>, summaries>>}
                           ELSE Summarize(CacheKey(conv[r], dropped), dropped) :
           /\ given' = [given EXCEPT ![r] = [summed |-> s[1], kept |-> SubSeq(h, n + 1, Len(h))]]
           /\ summaries' = s[2]
      /\ UNCHANGED <<data, clock, conv, saving, history, user, lone, steady>>

-----------------------------------------------------------------------------
(* The save of the question, with the prompt put together, and of the      *)
(* answer, the notice of the degraded chain, or part of a broken stream.   *)
BeginSave(r, role) ==
  /\ Go(r, IF role = "user" THEN "ask" ELSE "reply", "index")
  /\ history' = [history EXCEPT ![r] = <<>>] /\ given' = [given EXCEPT ![r] = Nothing]
  /\ clock' = clock + 1
  /\ saving' = [saving EXCEPT ![r] = [role |-> role, stamp |-> clock + 1, count |-> 0]]
  /\ lone' = (lone \ (Writing(conv[r]) \cup {r})) \cup
               (IF Writing(conv[r]) = {} /\ conv[r] \notin deleting THEN {r} ELSE {})
  /\ UNCHANGED <<data, conv, summaries, user, steady>>

Saved(r)   == IF saving[r].role = "user" THEN "reply" ELSE "done"
Over(r)    == saving' = [saving EXCEPT ![r] = Idle]
              /\ UNCHANGED <<conv, history, given, summaries>>
Insert(r)  == stored' = [stored EXCEPT ![conv[r]] = @ \cup {Message(r)}]
Failing(r) == lone' = lone \ {r} /\ Go(r, at[r], Saved(r))

(* MySQL and memory: the message and the count at once, or neither.        *)
SaveAtOnce(r) ==
  /\ backend # "es" /\ Go(r, "index", Saved(r))
  /\ \/ Exists(conv[r]) /\ Insert(r) /\ listed' = [listed EXCEPT ![conv[r]] = @ + 1]
     \/ (~Exists(conv[r]) \/ backend = "mysql") /\ UNCHANGED <<stored, listed>>
  /\ Over(r)
  /\ UNCHANGED <<backend, clock, user, lone, steady>>

(* Elasticsearch: the bulk request, which waits until it can be searched,  *)
(* then updateConvCount: Count, and Update of the metadata if it is there. *)
F_BulkIndex(r) ==
  /\ backend = "es" /\ Go(r, "index", "write") /\ Insert(r)
  /\ saving' = [saving EXCEPT ![r].count = Cardinality(stored[conv[r]])]
  /\ UNCHANGED <<backend, listed, clock, conv, history, given, summaries, user, lone, steady>>

BulkIndex(r) ==
  /\ backend = "es"
  /\ \/ Go(r, "index", "count") /\ Insert(r) /\ UNCHANGED lone
          /\ UNCHANGED chat
     \/ at[r] = "index" /\ Failing(r) /\ UNCHANGED stored /\ Over(r)
  /\ UNCHANGED <<backend, listed, clock, user, steady>>

CountMessages(r) ==
  /\ Go(r, "count", "write")
  /\ saving' = [saving EXCEPT ![r].count = Cardinality(stored[conv[r]])]
  /\ UNCHANGED <<data, clock, conv, history, given, summaries, user, lone, steady>>

(* Either call may fail, with the same effect.                             *)
WriteCount(r) ==
  /\ \/ /\ Go(r, "write", Saved(r)) /\ UNCHANGED lone
        /\ listed' = IF Exists(conv[r]) THEN [listed EXCEPT ![conv[r]] = saving[r].count] ELSE listed
     \/ at[r] = "write" /\ Failing(r) /\ UNCHANGED listed
  /\ Over(r)
  /\ UNCHANGED <<backend, stored, clock, user, steady>>

(* An agent that fails, or a stream without a word, saves no answer.       *)
NoReply(r) ==
  /\ Go(r, "reply", "done")
  /\ UNCHANGED <<data, clock, chat, user, lone, steady>>

-----------------------------------------------------------------------------
Without(f, C, nothing) == [c \in ConvIds |-> IF c \in C THEN nothing ELSE f[c]]

(* The handler passes the id on as it is: one conversation, or all.        *)
DeleteAsked(C) ==
  /\ deletes < MaxDeletes /\ deletes' = deletes + 1 /\ deleting = {}
  /\ C = ConvIds \/ \E c \in ConvIds : C = {c}
  /\ lone' = {r \in lone : conv[r] \notin C} /\ steady' = steady \ C
  /\ UNCHANGED <<backend, clock, at, chat>>

DeleteAtOnce(C) ==
  /\ backend # "es" /\ DeleteAsked(C)
  /\ listed' = Without(listed, C, Absent) /\ stored' = Without(stored, C, {})
  /\ UNCHANGED deleting

(* Delete and DeleteAll: in Elasticsearch the metadata first.              *)
Delete(C) ==
  /\ backend = "es" /\ DeleteAsked(C)
  /\ listed' = Without(listed, C, Absent) /\ deleting' = C
  /\ UNCHANGED stored

DeleteMessages ==
  /\ deleting # {} /\ deleting' = {}
  /\ \/ stored' = Without(stored, deleting, {})
     \/ UNCHANGED stored
  /\ lone' = {r \in lone : conv[r] \notin deleting}
  /\ UNCHANGED <<backend, listed, clock, at, chat, deletes, steady>>

-----------------------------------------------------------------------------
ChatStep(r) ==
  \/ StartNew(r) \/ (\E c \in FixedIds : StartFixed(r, c)) \/ EnsureCreates(r)
  \/ LoadHistory(r) \/ TrimHistory(r)
  \/ (\E role \in {"user", "assistant"} : BeginSave(r, role))
  \/ SaveAtOnce(r) \/ BulkIndex(r) \/ CountMessages(r) \/ WriteCount(r) \/ NoReply(r)

ConvNext ==
  \/ \E r \in Chats : ChatStep(r)
  \/ \E C \in SUBSET ConvIds : Delete(C) \/ DeleteAtOnce(C)
  \/ DeleteMessages

ConvSpec == ConvInit /\ [][ConvNext]_convVars

-----------------------------------------------------------------------------
(* Every variable has its type. *)
ConvTypeOK ==
  /\ backend \in {"es", "mysql", "mem"}
  /\ listed \in [ConvIds -> Nat \cup {Absent}]
  /\ \A c \in ConvIds : \A x, y \in stored[c] : x.stamp = y.stamp => x = y
  /\ at \in [Chats -> {"new", "ensure", "load", "trim", "ask", "index", "count",
                       "write", "reply", "done"}]
  /\ conv \in [Chats -> ConvIds] /\ deleting \subseteq ConvIds
  /\ lone \subseteq Chats /\ steady \subseteq ConvIds /\ deletes \in 0..MaxDeletes

(* The count in the list of conversations.  MySQL and memory keep it equal *)
(* to the messages there are.  Elasticsearch counts again after each save: *)
(* a save that nothing overlaps and that does not fail leaves the count    *)
(* right, whatever Ensure, failures and races made of it before.           *)
CountsAreRight ==
  [][/\ backend # "es" => \A c \in ConvIds :
          IF listed'[c] = Absent THEN stored'[c] = {} ELSE listed'[c] = Cardinality(stored'[c])
     /\ \A r \in lone' : at[r] = "write" /\ at'[r] # "write" /\ listed'[conv[r]] # Absent
          => listed'[conv[r]] = Cardinality(stored'[conv[r]])]_convVars

(* A summary stands for exactly the messages that were dropped, as long as *)
(* the conversation was neither deleted nor used by two requests at once:  *)
(* its cache is never told of either, and knows the number only.           *)
SummariesFit ==
  \A r \in Chats : conv[r] \in steady /\ given[r].summed # <<>> =>
    given[r].summed \o given[r].kept = history[r]

=============================================================================
