--------------------------- MODULE ApprovalStore ---------------------------
(***************************************************************************)
(* The approval items of cron jobs (internal/service/approval.go), with    *)
(* the job that creates them (internal/scheduler/cron.go) and the handler  *)
(* that decides them (internal/handler/approval.go).                       *)
(*                                                                         *)
(* Actors: cron jobs, which add items, users, who decide them, the clock,  *)
(* and the process, which may die and start again.  All operations run     *)
(* under one RWMutex; save() runs inside the critical section, but         *)
(* os.WriteFile first truncates the file and then writes it, so the        *)
(* process can die in between, and its error is ignored.                   *)
(*                                                                         *)
(* Abstractions: an item is its identity, its status and its two times;    *)
(* the listings only read.  damaged and removed record history: that the   *)
(* file could not be written or was left torn, and which items a running   *)
(* store has dropped.                                                      *)
(***************************************************************************)
EXTENDS Integers, Sequences, FiniteSets, SequencesExt, Loops

CONSTANTS
  Ids,            \* the items the jobs create
  Legacy,         \* the decided items without ApprovedAt the file starts with
  Users,          \* requests that decide an item
  StoreLimit,       \* s.maxItems
  ApprovalTTL,            \* approvalTTL, in ticks
  MaxTicks,        \* bound: ticks of the clock
  MaxCrashes,     \* bound: deaths of the process
  Nil, Torn

(* What an item says of itself, and the files that parse.                  *)
Statuses == {"none", "pending", "accepted", "rejected"}
Items == [status : Statuses, at : (0..MaxTicks) \cup {Nil}, created : 0..MaxTicks]
Files == [approvals : Seq(Ids), obj : [Ids -> Items]]

(* The file of the start was written by a store of the same limit.         *)
ASSUME ApprovalAssumption ==
  /\ Legacy \subseteq Ids /\ IsFiniteSet(Legacy) /\ Cardinality(Legacy) <= StoreLimit
  /\ StoreLimit \in Nat \ {0} /\ ApprovalTTL \in Nat /\ MaxTicks \in Nat
  /\ MaxCrashes \in Nat
  /\ Ids \cap Users = {}
  /\ Nil \notin Ids \cup Users \cup 0..MaxTicks /\ Torn \notin Files

VARIABLES
  time,       \* the clock
  crashes,   \* how often the process has died
  up,        \* is the process running?
  approvals,     \* s.items: the order of the items
  obj,       \* what the pointers in s.items point to (of an item that is not
             \* in items, all that counts is that it has been created)
  disk,      \* approvals.json
  writer,    \* who is inside save(): None, an item being added, a user
  wpc,       \* where save() is
  asked,     \* what each user asked for
  reply,     \* what each user was told
  added,     \* the items whose Add has returned
  damaged,   \* has a write failed, or a death left the file torn?
  removed    \* the items a save has dropped

approvalVars == <<time, crashes, up, approvals, obj, disk, writer, wpc, asked, reply,
          added, damaged, removed>>

Fresh  == [status |-> "none", at |-> Nil, created |-> 0]

ApprovalInit ==
  /\ time = 0 /\ crashes = 0 /\ up = TRUE
  /\ approvals = SetToSeq(Legacy)
  /\ obj = [i \in Ids |-> IF i \in Legacy THEN [Fresh EXCEPT !.status = "accepted"]
                                          ELSE Fresh]
  /\ disk = [approvals |-> approvals, obj |-> obj]
  /\ writer = Nil /\ wpc = "idle"
  /\ asked = [u \in Users |-> [id |-> Nil, status |-> "none"]]
  /\ reply = [u \in Users |-> "none"]
  /\ added = Legacy
  /\ damaged = FALSE /\ removed = {}

(* Is the item older than the TTL?  Pending ones never are. *)
Outlived(o) ==
  /\ o.status # "pending"
  /\ time - (IF o.at # Nil THEN o.at ELSE o.created) > ApprovalTTL

purgeExpired(seq, heap) == Filter(seq, {i \in Ids : ~ Outlived(heap[i])})

F_RoomTooLate(seq) ==
  IF Len(seq) > StoreLimit
  THEN SubSeq(seq, Len(seq) - StoreLimit \div 2 + 1, Len(seq)) ELSE seq

F_KeepsTheOldest(seq) ==
  IF Len(seq) >= StoreLimit THEN SubSeq(seq, 1, StoreLimit \div 2) ELSE seq

(* Add, before the append: a full store keeps the newer half of its items. *)
KeepNewerHalf(seq) ==
  IF Len(seq) >= StoreLimit
  THEN SubSeq(seq, Len(seq) - StoreLimit \div 2 + 1, Len(seq))
  ELSE seq

Free == up /\ writer = Nil

(* save begins: it purges, and then writes the file. *)
Save(seq, who) ==
  /\ approvals' = purgeExpired(seq, obj')
  /\ removed' = removed \cup (Range(approvals) \ Range(approvals'))
  /\ writer' = who /\ wpc' = "save"

(* executeJob: a finding of a job becomes a pending item. *)
Add(i) ==
  /\ Free
  /\ obj[i].status = "none"
  /\ obj' = [obj EXCEPT ![i] = [status |-> "pending", at |-> Nil, created |-> time]]
  /\ Save(Append(KeepNewerHalf(approvals), i), i)
  /\ UNCHANGED <<time, crashes, up, disk, asked, reply, added, damaged>>

F_Decidable(i) == i \in Range(approvals)

(* The guard of Decide: only a pending item can be decided. *)
Decidable(i) == i \in Range(approvals) /\ obj[i].status = "pending"

Decide(u, i, s) ==
  /\ Free
  /\ reply[u] = "none" /\ asked[u].id = Nil
  /\ asked' = [asked EXCEPT ![u] = [id |-> i, status |-> s]]
  /\ \/ /\ Decidable(i)
        /\ obj' = [obj EXCEPT ![i].status = s, ![i].at = time]
        /\ Save(approvals, u)
        /\ UNCHANGED reply
     \/ /\ ~ Decidable(i)
        /\ reply' = [reply EXCEPT ![u] = "error"]
        /\ UNCHANGED <<approvals, obj, writer, wpc, removed>>
  /\ UNCHANGED <<time, crashes, up, disk, added, damaged>>

(* os.WriteFile opens the file with O_TRUNC ... *)
Truncate ==
  /\ up /\ wpc = "save"
  /\ disk' = Torn
  /\ wpc' = "write"
  /\ UNCHANGED <<time, crashes, up, approvals, obj, writer, asked, reply, added,
                 damaged, removed>>

F_OldStatus == [approvals |-> approvals, obj |-> [obj EXCEPT ![Last(approvals)].status = "pending"]]

F_WithoutTheLast == [approvals |-> Front(approvals), obj |-> obj]

(* ... and then writes what MarshalIndent made of the items. *)
Contents == [approvals |-> approvals, obj |-> obj]

Write ==
  /\ up /\ wpc = "write"
  /\ disk' = Contents
  /\ wpc' = "return"
  /\ UNCHANGED <<time, crashes, up, approvals, obj, writer, asked, reply, added,
                 damaged, removed>>

(* The file cannot be opened, or the disk is full: nobody looks. *)
WriteFails ==
  /\ up /\ wpc \in {"save", "write"}
  /\ damaged' = TRUE
  /\ wpc' = "return"
  /\ UNCHANGED <<time, crashes, up, approvals, obj, disk, writer, asked, reply, added,
                 removed>>

(* The operation returns and releases the lock. *)
Return ==
  /\ up /\ wpc = "return"
  /\ writer' = Nil /\ wpc' = "idle"
  /\ reply' = IF writer \in Users THEN [reply EXCEPT ![writer] = "ok"] ELSE reply
  /\ added' = IF writer \in Ids THEN added \cup {writer} ELSE added
  /\ UNCHANGED <<time, crashes, up, approvals, obj, disk, asked, damaged, removed>>

ApprovalTick ==
  /\ time < MaxTicks
  /\ time' = time + 1
  /\ UNCHANGED <<crashes, up, approvals, obj, disk, writer, wpc, asked, reply,
                 added, damaged, removed>>

Crash ==
  /\ up /\ crashes < MaxCrashes
  /\ up' = FALSE /\ crashes' = crashes + 1
  /\ writer' = Nil /\ wpc' = "idle"
  /\ approvals' = <<>>
  /\ reply' = [u \in Users |-> IF asked[u].id # Nil /\ reply[u] = "none"
                               THEN "lost" ELSE reply[u]]
  /\ damaged' = (damaged \/ wpc = "write")
  /\ UNCHANGED <<time, obj, disk, asked, added, removed>>

(* NewApprovalStore: what does not parse as JSON is an empty store. *)
NewApprovalStore ==
  /\ ~ up
  /\ up' = TRUE
  /\ IF disk = Torn
     THEN UNCHANGED <<approvals, obj>>
     ELSE /\ approvals' = disk.approvals
          /\ obj' = [i \in Ids |-> IF i \in Range(disk.approvals)
                                   THEN disk.obj[i] ELSE obj[i]]
  /\ UNCHANGED <<time, crashes, disk, writer, wpc, asked, reply, added, damaged,
                 removed>>

ApprovalNext ==
  \/ \E i \in Ids : Add(i)
  \/ \E u \in Users, i \in Ids, s \in {"accepted", "rejected"} : Decide(u, i, s)
  \/ Truncate \/ Write \/ WriteFails \/ Return
  \/ ApprovalTick \/ Crash \/ NewApprovalStore

ApprovalSpec == ApprovalInit /\ [][ApprovalNext]_approvalVars
-----------------------------------------------------------------------------
(* Every variable has its type, the list names no item twice and never     *)
(* grows over its limit.                                                   *)
ApprovalTypeOK ==
  /\ time \in 0..MaxTicks /\ crashes \in 0..MaxCrashes /\ up \in BOOLEAN
  /\ approvals \in Seq(Ids) /\ IsInjective(approvals) /\ Len(approvals) <= StoreLimit
  /\ obj \in [Ids -> Items]
  /\ disk \in Files \cup {Torn}
  /\ writer \in Ids \cup Users \cup {Nil} /\ wpc \in {"idle", "save", "write", "return"}
  /\ asked \in [Users -> [id : Ids \cup {Nil}, status : Statuses]]
  /\ reply \in [Users -> {"none", "ok", "error", "lost"}]
  /\ added \subseteq Ids /\ damaged \in BOOLEAN /\ removed \subseteq Ids

(* Two people never both hear that their decision of one item was taken,   *)
(* whatever the order of their requests and wherever the process dies, for *)
(* as long as the file can be written: a decision that was answered is in  *)
(* the file before the lock is released.                                   *)
OneWinner ==
  damaged \/ \A u, v \in Users :
    reply[u] = "ok" /\ reply[v] = "ok" /\ asked[u].id = asked[v].id => u = v

(* What a person decided, and was told so, is what the store says of the   *)
(* item for as long as it keeps it, after a restart too.                   *)
AnswerHolds ==
  damaged \/ \A u \in Users :
    reply[u] = "ok" /\ asked[u].id \in Range(approvals)
      => obj[asked[u].id].status = asked[u].status

(* A running store lets go of a pending item only to make room for another *)
(* one, and then of the oldest: no passing of time, no decision and no     *)
(* other save removes it, and whatever stays is newer.                     *)
PendingStays ==
  [][up /\ up' =>
       \A a \in DOMAIN approvals :
         obj[approvals[a]].status = "pending" /\ approvals[a] \notin Range(approvals') =>
           /\ Len(approvals) = StoreLimit
           /\ \A b \in DOMAIN approvals : approvals[b] \in Range(approvals') => a < b]_approvalVars

(* A restart loses nothing (the comment on ApprovalStore): an item whose   *)
(* Add returned is there until a save drops it.  The code keeps this only  *)
(* while every write succeeds and no death falls into one.                 *)
RestartLosesNothing ==
  up /\ ~ damaged => added \ removed \subseteq Range(approvals)

(* What was decided once holds from then on, and nothing that was added is *)
(* lost, over restarts and concurrent decisions.                           *)
ApprovalsHold == OneWinner /\ AnswerHolds /\ RestartLosesNothing

-----------------------------------------------------------------------------
(* The store implements DecideOnce.  Its list there is the one of the file,*)
(* and while the file is written the one it is about to have: a decision   *)
(* is taken when the old file is cut, since until then a death undoes it.  *)
Book == IF disk = Torn THEN Contents ELSE disk

FateOf(i) ==
  IF i \in Range(Book.approvals) THEN Book.obj[i].status
  ELSE IF obj[i].status = "none" THEN "new"
  ELSE IF writer = i /\ wpc = "save" THEN "coming"
  ELSE "gone"

PhaseOf(u) ==
  IF reply[u] # "none" THEN reply[u]
  ELSE IF asked[u].id = Nil THEN "idle"
  ELSE IF wpc = "save" THEN "asking"
  ELSE "decided"

bookList  == Book.approvals
bookFate  == [i \in Ids |-> FateOf(i)]
bookPhase == [u \in Users |-> PhaseOf(u)]

Promise == INSTANCE DecideOnce WITH list <- bookList, fate <- bookFate, wish <- asked,
                                    phase <- bookPhase, intact <- ~ damaged

(* Every behaviour of the store is one of DecideOnce: an item enters once, *)
(* is decided once and does not come back, over deaths and restarts, until *)
(* a write fails or is torn.                                               *)
RefinesDecideOnce == Promise!Spec

=============================================================================
