---------------------------- MODULE StoresProofs ----------------------------
(* Proofs about the stores that survive the process: any documents, chunks *)
(* and deletes (Documents), any items, users and deaths of the process     *)
(* (ApprovalStore), and any requests and failing calls (Conversations).    *)
EXTENDS MCStores, MemoryProofs, StockProofs, SequenceLemmas, FiniteSetTheorems, TLAPS

DocTyped ==
  /\ docStore \in {"es", "mysql"}
  /\ indexed \in [Docs -> SUBSET AllChunks] /\ searchable \in [Docs -> SUBSET AllChunks]
  /\ \A d \in Docs : searchable[d] \subseteq indexed[d]
  /\ docList \in [Docs -> {NotListed, MaxChunks}]
  /\ upload \in [Docs -> {"new", "chunked", "stored", "over"}]
  /\ deleter \in [Deleters -> {"new", "meta", "over"}]
  /\ target \in [Deleters -> Docs]
  /\ hurt \subseteq Docs

(* Nothing is written of a document before its chunks are, and nothing is  *)
(* deleted of one that is not listed.                                      *)
Unwritten(d) == upload[d] \in {"new", "chunked"} => indexed[d] = {}

BeingDeleted(d) == \E x \in Deleters : target[x] = d /\ deleter[x] = "meta"

(* A document that no failed write has hurt has all of its chunks from     *)
(* when they are stored until a delete takes them, and none without an     *)
(* entry in the list.                                                      *)
ChunksComplete(d) ==
  /\ upload[d] = "stored" => indexed[d] = AllChunks
  /\ upload[d] # "over"   => docList[d] = NotListed /\ ~BeingDeleted(d)
  /\ BeingDeleted(d)      => indexed[d] = {}
  /\ upload[d] = "over"   => IF docList[d] = NotListed THEN indexed[d] = {}
                             ELSE indexed[d] = AllChunks \/ BeingDeleted(d)

DocInv == /\ DocTyped
          /\ \A d \in Docs : Unwritten(d) /\ (d \notin hurt => ChunksComplete(d))

-----------------------------------------------------------------------------
LEMMA DocInvInit == DocInit => DocInv
  BY DEF DocInit, DocInv, DocTyped, Unwritten, ChunksComplete, BeingDeleted

(* The steps of an upload.                                                 *)
LEMMA UploadKeeps ==
  ASSUME DocInv, NEW e \in Docs, Ingest(e) \/ StoreChunks(e) \/ StoreFails(e) \/ SaveMeta(e)
  PROVE  DocInv'
<1> USE DEF At
<1>1. /\ UNCHANGED <<docStore, deleter, target>> /\ hurt \subseteq hurt'
      /\ upload' \in [Docs -> {"new", "chunked", "stored", "over"}]
      /\ \A d \in Docs : d # e => upload'[d] = upload[d]
  BY DEF Ingest, StoreChunks, StoreFails, SaveMeta, DocInv, DocTyped
<1>2. \A d \in Docs : d # e => /\ indexed'[d] = indexed[d] /\ searchable'[d] = searchable[d]
                               /\ docList'[d] = docList[d]
  BY DEF Ingest, StoreChunks, StoreFails, SaveMeta, DocInv, DocTyped
<1>3. \A d \in Docs : BeingDeleted(d)' <=> BeingDeleted(d)
  BY <1>1 DEF BeingDeleted
<1>4. DocTyped' /\ Unwritten(e)' /\ (e \notin hurt' => ChunksComplete(e)')
  <2> USE DEF DocInv, DocTyped, Unwritten, ChunksComplete
  <2>1. CASE Ingest(e)
    BY <1>1, <1>3, <2>1 DEF Ingest
  <2>2. CASE StoreChunks(e)
    <3>1. PICK S \in SUBSET AllChunks :
            /\ indexed' = [indexed EXCEPT ![e] = S]
            /\ searchable' = IF docStore = "mysql" THEN [searchable EXCEPT ![e] = S]
                             ELSE searchable
            /\ hurt' = IF S = AllChunks THEN hurt ELSE hurt \cup {e}
      BY <2>2 DEF StoreChunks
    <3>2. upload[e] = "chunked" /\ upload'[e] = "stored" /\ UNCHANGED docList
      BY <2>2 DEF StoreChunks
    <3>3. searchable[e] \subseteq S /\ indexed'[e] = S /\ searchable'[e] \subseteq S
      BY <3>1, <3>2
    <3>4. /\ indexed' \in [Docs -> SUBSET AllChunks] /\ searchable' \in [Docs -> SUBSET AllChunks]
          /\ \A d \in Docs : d # e => indexed'[d] = indexed[d] /\ searchable'[d] = searchable[d]
      BY <3>1
    <3>5. DocTyped'
      BY <1>1, <3>1, <3>2, <3>3, <3>4
    <3>6. Unwritten(e)'
      BY <3>2
    <3>7. e \notin hurt' => e \notin hurt /\ S = AllChunks
      BY <3>1
    <3>8. e \notin hurt' => ChunksComplete(e)'
      <4>1. e \notin hurt' => docList[e] = NotListed /\ ~BeingDeleted(e)
        BY <3>2, <3>7
      <4>2. upload'[e] = "stored" /\ docList'[e] = docList[e]
            /\ (BeingDeleted(e)' <=> BeingDeleted(e))
        BY <1>3, <3>2
      <4> QED BY <3>3, <3>7, <4>1, <4>2
    <3> QED BY <3>5, <3>6, <3>8
  <2>3. CASE StoreFails(e)
    BY <1>1, <1>3, <2>3 DEF StoreFails
  <2>4. CASE SaveMeta(e)
    <3>1. MaxChunks # NotListed
      BY DocumentsAssumption DEF NotListed
    <3> QED BY <1>1, <1>3, <2>4, <3>1 DEF SaveMeta
  <2> QED BY <2>1, <2>2, <2>3, <2>4
<1>5. \A d \in Docs : d # e => Unwritten(d)' /\ (d \notin hurt' => ChunksComplete(d)')
  BY <1>1, <1>2, <1>3 DEF DocInv, Unwritten, ChunksComplete
<1> QED BY <1>4, <1>5 DEF DocInv

(* The steps of a delete.                                                  *)
LEMMA DeleteKeeps ==
  ASSUME DocInv, NEW x \in Deleters, DeleteChunks(x) \/ DeleteMeta(x)
  PROVE  DocInv'
<1> DEFINE e == target[x]
<1>1. /\ UNCHANGED <<docStore, upload, target>> /\ hurt \subseteq hurt' /\ e \in Docs
      /\ \A d \in Docs : d # e => /\ indexed'[d] = indexed[d] /\ searchable'[d] = searchable[d]
                                  /\ docList'[d] = docList[d]
      /\ \A y \in Deleters : y # x => deleter'[y] = deleter[y]
  BY DEF DeleteChunks, DeleteMeta, DocInv, DocTyped
<1>2. \A d \in Docs : d # e => (BeingDeleted(d)' <=> BeingDeleted(d))
  BY <1>1 DEF BeingDeleted
<1>3. DocTyped'
  BY DEF DeleteChunks, DeleteMeta, Reaches, DocInv, DocTyped
<1>4. Unwritten(e)' /\ (e \notin hurt' => ChunksComplete(e)')
  <2>1. CASE DeleteChunks(x)
    <3>1. deleter'[x] = "meta" /\ BeingDeleted(e)'
      BY <1>1, <2>1 DEF DeleteChunks, DocInv, DocTyped, BeingDeleted
    <3>2. /\ docList'[e] # NotListed
          /\ indexed'[e] \subseteq indexed[e]
          /\ e \notin hurt' => indexed'[e] = {}
      BY <1>1, <2>1 DEF DeleteChunks, DocInv, DocTyped, Reaches
    <3> QED BY <1>1, <2>1, <3>1, <3>2 DEF DeleteChunks, DocInv, Unwritten, ChunksComplete
  <2>2. CASE DeleteMeta(x)
    <3>1. BeingDeleted(e) /\ UNCHANGED indexed
      BY <1>1, <2>2 DEF DeleteMeta, BeingDeleted
    <3>2. BeingDeleted(e)' => BeingDeleted(e)
      BY <3>1
    <3>3. e \notin hurt' => docList'[e] = NotListed
      BY <1>1, <2>2 DEF DeleteMeta, DocInv, DocTyped
    <3> QED BY <1>1, <3>1, <3>2, <3>3 DEF DocInv, Unwritten, ChunksComplete
  <2> QED BY <2>1, <2>2
<1>5. \A d \in Docs : d # e => Unwritten(d)' /\ (d \notin hurt' => ChunksComplete(d)')
  BY <1>1, <1>2 DEF DocInv, Unwritten, ChunksComplete
<1> QED BY <1>1, <1>3, <1>4, <1>5 DEF DocInv

LEMMA DocStep == DocInv /\ [DocNext]_docVars => DocInv'
<1> SUFFICES ASSUME DocInv, [DocNext]_docVars PROVE DocInv'
  OBVIOUS
<1>1. CASE Refresh
  BY <1>1 DEF Refresh, DocInv, DocTyped, Unwritten, ChunksComplete, BeingDeleted
<1>2. CASE UNCHANGED docVars
  BY <1>2 DEF docVars, DocInv, DocTyped, Unwritten, ChunksComplete, BeingDeleted
<1> QED BY <1>1, <1>2, UploadKeeps, DeleteKeeps DEF DocNext

(* A document at rest that no failed write has hurt has all of its chunks, *)
(* if it is listed, and none if it is not, for any uploads and deletes.    *)
THEOREM DocumentsWhole == DocSpec => []ChunksFollowTheList
<1>1. DocInv => ChunksFollowTheList
  BY DEF DocInv, DocTyped, Unwritten, ChunksComplete, ChunksFollowTheList, Resting, BeingDeleted
<1> QED BY <1>1, DocInvInit, DocStep, PTL DEF DocSpec

(* The documents have their types.                                         *)
THEOREM DocumentsTyped == DocSpec => []DocTypeOK
<1>1. DocInv => DocTypeOK
  BY DEF DocInv, DocTyped, DocTypeOK
<1> QED BY <1>1, DocInvInit, DocStep, PTL DEF DocSpec

-----------------------------------------------------------------------------
(* Who is inside save, and that what is there was added once.              *)
InSave ==
  /\ writer = Nil <=> wpc = "idle"
  /\ ~up => wpc = "idle" /\ approvals = <<>>
  /\ writer \in Ids => writer \in Range(approvals)
  /\ \A i \in Range(approvals) : obj[i].status # "none"

(* What each user asked, and whether it waits for the file.                *)
Asking ==
  \A u \in Users :
    /\ asked[u].id = Nil <=> asked[u].status = "none"
    /\ asked[u].status # "pending"
    /\ asked[u].id # Nil /\ reply[u] = "none" => writer = u
    /\ asked[u].id = Nil => reply[u] = "none"
    /\ writer = u => /\ asked[u].id # Nil /\ reply[u] = "none"
                     /\ obj[asked[u].id].status = asked[u].status
    /\ reply[u] = "ok" => obj[asked[u].id].status # "none"

(* The file.                                                               *)
Parses == disk # Torn =>
  /\ IsInjective(disk.approvals) /\ Len(disk.approvals) <= StoreLimit
  /\ \A i \in Range(disk.approvals) : disk.obj[i].status # "none"

(* While every write succeeds and no death falls into one, the file has    *)
(* what was answered.                                                      *)
OnDisk ==
  damaged \/
    /\ disk = Torn => wpc = "write"
    /\ disk # Torn =>
         /\ added \ removed \subseteq Range(disk.approvals)
         /\ \A u \in Users :
              reply[u] = "ok" /\ asked[u].id \in Range(disk.approvals)
                => disk.obj[asked[u].id].status = asked[u].status
    /\ wpc = "return" =>
         /\ disk # Torn /\ disk.approvals = approvals
         /\ \A i \in Range(approvals) : disk.obj[i] = obj[i]
    /\ \A u, v \in Users :
         writer = u /\ reply[v] = "ok" => asked[v].id # asked[u].id

ApprovalInv == ApprovalTypeOK /\ InSave /\ Asking /\ Parses /\ OnDisk /\ ApprovalsHold

(* SetToSeq lists every element of a finite set once.                      *)
LEMMA SetToSeqIs ==
  ASSUME NEW S, IsFiniteSet(S)
  PROVE  /\ SetToSeq(S) \in Seq(S) /\ IsInjective(SetToSeq(S))
         /\ Len(SetToSeq(S)) = Cardinality(S) /\ Range(SetToSeq(S)) = S
<1> DEFINE n == Cardinality(S)
           f == SetToSeq(S)
<1>1. n \in Nat
  BY FS_CardinalityType
<1>2. IsFiniteSet(1..n) /\ Cardinality(1..n) = n
  BY <1>1, FS_Interval
<1>3. ExistsBijection(1..n, S)
  BY <1>1, <1>2, FS_SameCardinalityBij
<1>4. \E g \in [1..n -> S] : IsInjective(g)
  BY <1>3 DEF ExistsBijection, Bijection, Injection
<1>5. f \in [1..n -> S] /\ IsInjective(f)
  BY <1>4 DEF SetToSeq
<1> HIDE DEF f
<1>6. f \in Injection(1..n, S)
  BY <1>5 DEF Injection
<1>7. f \in Surjection(1..n, S)
  BY <1>2, <1>6, FS_Injection
<1>8. Range(f) = S
  BY <1>5, <1>7 DEF Range, Surjection
<1>9. f \in Seq(S) /\ Len(f) = n
  BY <1>1, <1>5
<1> QED BY <1>5, <1>8, <1>9 DEF f

LEMMA PurgeIs ==
  ASSUME NEW seq \in Seq(Ids), NEW heap
  PROVE  LET kept == purgeExpired(seq, heap) IN
         /\ kept \in Seq(Ids) /\ Len(kept) <= Len(seq) /\ Len(kept) \in Nat
         /\ \A i : i \in Range(kept) <=> i \in Range(seq) /\ ~Outlived(heap[i])
         /\ IsInjective(seq) => IsInjective(kept)
<1> DEFINE S == {i \in Ids : ~Outlived(heap[i])}
<1>1. Range(seq) \subseteq Ids
  BY RangeOfSeq
<1>2. /\ Range(Filter(seq, S)) = Range(seq) \cap S
      /\ IsInjective(seq) => IsInjective(Filter(seq, S))
      /\ Filter(seq, S) \in Seq(Ids) /\ Len(Filter(seq, S)) <= Len(seq)
  BY FilterRange
<1> QED BY <1>1, <1>2, LenProperties DEF purgeExpired

LEMMA HalfIs ==
  ASSUME NEW seq \in Seq(Ids), IsInjective(seq), Len(seq) <= StoreLimit
  PROVE  LET half == KeepNewerHalf(seq) IN
         /\ half \in Seq(Ids) /\ IsInjective(half) /\ Len(half) + 1 <= StoreLimit
         /\ Range(half) \subseteq Range(seq)
         /\ \A a \in DOMAIN seq : seq[a] \notin Range(half) =>
              /\ Len(seq) = StoreLimit
              /\ \A b \in DOMAIN seq : seq[b] \in Range(half) => a < b
<1> DEFINE n == Len(seq)
           h == StoreLimit \div 2
           k == n - h
           half == KeepNewerHalf(seq)
<1>1. n \in Nat /\ StoreLimit \in Nat /\ h \in Nat /\ h + 1 <= StoreLimit /\ DOMAIN seq = 1..n
      /\ n <= StoreLimit
  BY LenProperties, ApprovalAssumption
<1> HIDE DEF n, h
<1>2. CASE ~(n >= StoreLimit)
  <2>1. half = seq
    BY <1>2 DEF KeepNewerHalf, n
  <2>2. n + 1 <= StoreLimit
    BY <1>1, <1>2
  <2>3. \A a \in DOMAIN seq : seq[a] \in Range(half)
    BY <2>1 DEF Range
  <2> HIDE DEF half
  <2> QED BY <2>1, <2>2, <2>3 DEF n, half
<1>3. CASE n >= StoreLimit
  <2>1. n = StoreLimit /\ k \in Nat /\ k <= n /\ n - k = h
    BY <1>1, <1>3
  <2>2. half = SubSeq(seq, k + 1, n)
    BY <1>3 DEF KeepNewerHalf, n, h
  <2> HIDE DEF k, half
  <2>3. /\ half \in Seq(Ids) /\ Len(half) = n - k
        /\ \A x : x \in Range(half) <=> \E i \in DOMAIN seq : i > k /\ seq[i] = x
        /\ IsInjective(half)
    BY <2>1, <2>2, LastOnes DEF n
  <2>4. Range(half) \subseteq Range(seq)
    BY <2>3 DEF Range
  <2>5. ASSUME NEW a \in DOMAIN seq, seq[a] \notin Range(half), NEW b \in DOMAIN seq,
               seq[b] \in Range(half)
        PROVE  a < b
    <3>1. ~(a > k)
      BY <2>3, <2>5
    <3>2. PICK i \in DOMAIN seq : i > k /\ seq[i] = seq[b]
      BY <2>3, <2>5
    <3>3. i = b
      BY <3>2 DEF IsInjective
    <3> QED BY <1>1, <2>1, <3>1, <3>2, <3>3
  <2>6. Len(half) + 1 <= StoreLimit
    BY <1>1, <2>1, <2>3
  <2> QED BY <2>1, <2>3, <2>4, <2>5, <2>6 DEF half, n
<1> QED BY <1>2, <1>3

(* A pending item goes only to make room, and then before every newer one. *)
GoesForRoom(after) ==
  \A a \in DOMAIN approvals :
    obj[approvals[a]].status = "pending" /\ approvals[a] \notin Range(after) =>
      /\ Len(approvals) = StoreLimit
      /\ \A b \in DOMAIN approvals : approvals[b] \in Range(after) => a < b

LEMMA AddIs ==
  ASSUME ApprovalTypeOK, InSave, NEW i \in Ids, Add(i)
  PROVE  /\ obj' \in [Ids -> Items] /\ obj'[i].status = "pending"
         /\ \A j \in Ids \ {i} : obj'[j] = obj[j]
         /\ approvals' \in Seq(Ids) /\ IsInjective(approvals') /\ Len(approvals') <= StoreLimit
         /\ i \in Range(approvals') /\ Range(approvals') \subseteq Range(approvals) \cup {i}
         /\ GoesForRoom(approvals')
         /\ removed' = removed \cup (Range(approvals) \ Range(approvals'))
         /\ i \notin Range(approvals)
<1> DEFINE half == KeepNewerHalf(approvals)
           seq == Append(half, i)
<1>1. /\ approvals \in Seq(Ids) /\ IsInjective(approvals) /\ Len(approvals) <= StoreLimit
      /\ i \notin Range(approvals) /\ time \in 0..MaxTicks
  BY DEF ApprovalTypeOK, InSave, Add
<1>2. /\ half \in Seq(Ids) /\ IsInjective(half) /\ Len(half) + 1 <= StoreLimit
      /\ Range(half) \subseteq Range(approvals)
      /\ \A a \in DOMAIN approvals : approvals[a] \notin Range(half) =>
           /\ Len(approvals) = StoreLimit
           /\ \A b \in DOMAIN approvals : approvals[b] \in Range(half) => a < b
  BY <1>1, HalfIs
<1> HIDE DEF half
<1>3. /\ seq \in Seq(Ids) /\ IsInjective(seq) /\ Len(seq) <= StoreLimit
      /\ Range(seq) = Range(half) \cup {i}
  BY <1>1, <1>2, RangeOfAppend
<1> HIDE DEF seq
<1>4. /\ approvals' = purgeExpired(seq, obj')
      /\ removed' = removed \cup (Range(approvals) \ Range(approvals'))
      /\ obj' = [obj EXCEPT ![i] = [status |-> "pending", at |-> Nil, created |-> time]]
  BY DEF Add, Save, seq, half
<1>5. /\ approvals' \in Seq(Ids) /\ Len(approvals') <= Len(seq) /\ Len(approvals') \in Nat
      /\ \A j : j \in Range(approvals') <=> j \in Range(seq) /\ ~Outlived(obj'[j])
      /\ IsInjective(approvals')
  <2> DEFINE heap == obj'
  <2>1. approvals' = purgeExpired(seq, heap)
    BY <1>4
  <2> HIDE DEF heap
  <2>2. /\ approvals' \in Seq(Ids) /\ Len(approvals') <= Len(seq) /\ Len(approvals') \in Nat
        /\ \A j : j \in Range(approvals') <=> j \in Range(seq) /\ ~Outlived(heap[j])
        /\ IsInjective(approvals')
    BY <1>3, <2>1, PurgeIs
  <2> QED BY <2>2 DEF heap
<1>6. Len(approvals') <= StoreLimit
  <2>1. Len(seq) \in Nat /\ StoreLimit \in Nat
    BY <1>3, LenProperties, ApprovalAssumption
  <2> QED BY <1>3, <1>5, <2>1
<1>7. obj' \in [Ids -> Items] /\ obj'[i].status = "pending" /\ \A j \in Ids \ {i} : obj'[j] = obj[j]
  BY <1>1, <1>4 DEF ApprovalTypeOK, Items, Statuses
<1>8. \A j : obj'[j].status = "pending" => ~Outlived(obj'[j])
  BY DEF Outlived
<1>9. i \in Range(approvals') /\ Range(approvals') \subseteq Range(approvals) \cup {i}
  BY <1>2, <1>3, <1>5, <1>7, <1>8
<1>10. GoesForRoom(approvals')
  <2> SUFFICES ASSUME NEW a \in DOMAIN approvals, obj[approvals[a]].status = "pending",
                      approvals[a] \notin Range(approvals')
               PROVE  /\ Len(approvals) = StoreLimit
                      /\ \A b \in DOMAIN approvals : approvals[b] \in Range(approvals') => a < b
    BY DEF GoesForRoom
  <2>1. /\ approvals[a] \in Range(approvals)
        /\ \A b \in DOMAIN approvals : approvals[b] \in Range(approvals)
    BY DEF Range
  <2>2. approvals[a] \in Ids \ {i}
    BY <1>1, <2>1, RangeOfSeq
  <2>3. approvals[a] \notin Range(half)
    BY <1>3, <1>5, <1>7, <1>8, <2>2
  <2>4. \A b \in DOMAIN approvals : approvals[b] \in Range(approvals') => approvals[b] \in Range(half)
    BY <1>1, <1>3, <1>5, <2>1
  <2> QED BY <1>2, <2>3, <2>4
<1> QED BY <1>1, <1>4, <1>5, <1>6, <1>7, <1>9, <1>10

LEMMA DecideIs ==
  ASSUME ApprovalTypeOK, NEW i \in Ids, NEW s \in {"accepted", "rejected"}, NEW who,
         Decidable(i), obj' = [obj EXCEPT ![i].status = s, ![i].at = time], Save(approvals, who)
  PROVE  /\ obj' \in [Ids -> Items] /\ obj'[i].status = s
         /\ \A j \in Ids \ {i} : obj'[j] = obj[j]
         /\ approvals' \in Seq(Ids) /\ IsInjective(approvals') /\ Len(approvals') <= StoreLimit
         /\ Range(approvals') \subseteq Range(approvals)
         /\ GoesForRoom(approvals')
         /\ \A j \in Range(approvals) : obj[j].status = "pending" => j \in Range(approvals')
         /\ removed' = removed \cup (Range(approvals) \ Range(approvals'))
<1>1. /\ approvals \in Seq(Ids) /\ IsInjective(approvals) /\ Len(approvals) <= StoreLimit
      /\ time \in 0..MaxTicks /\ obj \in [Ids -> Items]
  BY DEF ApprovalTypeOK
<1>2. /\ approvals' \in Seq(Ids) /\ Len(approvals') <= Len(approvals) /\ Len(approvals') \in Nat
      /\ \A j : j \in Range(approvals') <=> j \in Range(approvals) /\ ~Outlived(obj'[j])
      /\ IsInjective(approvals')
  <2> DEFINE heap == obj'
  <2>1. approvals' = purgeExpired(approvals, heap)
    BY DEF Save
  <2> HIDE DEF heap
  <2>2. /\ approvals' \in Seq(Ids) /\ Len(approvals') <= Len(approvals) /\ Len(approvals') \in Nat
        /\ \A j : j \in Range(approvals') <=> j \in Range(approvals) /\ ~Outlived(heap[j])
        /\ IsInjective(approvals')
    BY <1>1, <2>1, PurgeIs
  <2> QED BY <2>2 DEF heap
<1>3. Len(approvals') <= StoreLimit
  <2>1. Len(approvals) \in Nat /\ StoreLimit \in Nat
    BY <1>1, LenProperties, ApprovalAssumption
  <2> QED BY <1>1, <1>2, <2>1
<1>4. obj[i] \in Items
  BY <1>1
<1>5. obj' \in [Ids -> Items] /\ obj'[i].status = s /\ obj'[i].at = time
      /\ \A j \in Ids \ {i} : obj'[j] = obj[j]
  <2>1. [obj[i] EXCEPT !.status = s, !.at = time] \in Items
    BY <1>1, <1>4 DEF Items, Statuses
  <2>2. obj' = [obj EXCEPT ![i] = [obj[i] EXCEPT !.status = s, !.at = time]]
    BY <1>1
  <2>3. /\ [obj[i] EXCEPT !.status = s, !.at = time].status = s
        /\ [obj[i] EXCEPT !.status = s, !.at = time].at = time
    BY <1>4 DEF Items
  <2> DEFINE o == [obj[i] EXCEPT !.status = s, !.at = time]
  <2> HIDE DEF o
  <2>4. o \in Items /\ obj' = [obj EXCEPT ![i] = o] /\ o.status = s /\ o.at = time
    BY <2>1, <2>2, <2>3 DEF o
  <2> QED BY <1>1, <2>4
<1>6. \A j \in Ids : obj[j].status = "pending" => ~Outlived(obj'[j])
  <2>1. ~Outlived(obj'[i])
    <3>1. obj'[i].at # Nil /\ time - obj'[i].at = 0 /\ ~(0 > ApprovalTTL)
      BY <1>1, <1>5, ApprovalAssumption
    <3> QED BY <3>1 DEF Outlived
  <2>2. \A j \in Ids \ {i} : obj[j].status = "pending" => ~Outlived(obj'[j])
    BY <1>5 DEF Outlived
  <2> QED BY <2>1, <2>2
<1>7. \A j \in Range(approvals) : obj[j].status = "pending" => j \in Range(approvals')
  BY <1>1, <1>2, <1>6, RangeOfSeq
<1>8. GoesForRoom(approvals')
  <2>1. \A a \in DOMAIN approvals : approvals[a] \in Range(approvals)
    BY DEF Range
  <2> QED BY <1>7, <2>1 DEF GoesForRoom
<1>9. Range(approvals') \subseteq Range(approvals)
  BY <1>2
<1> QED BY <1>2, <1>3, <1>5, <1>7, <1>8, <1>9 DEF Save

-----------------------------------------------------------------------------
(* What the two steps that change the list have in common.                 *)
Taken(u, i, s) ==
  /\ Free /\ reply[u] = "none" /\ asked[u].id = Nil
  /\ asked' = [asked EXCEPT ![u] = [id |-> i, status |-> s]]
  /\ Decidable(i) /\ obj' = [obj EXCEPT ![i].status = s, ![i].at = time]
  /\ Save(approvals, u)
  /\ UNCHANGED <<time, crashes, up, disk, reply, added, damaged>>

Refused(u, i, s) ==
  /\ Free /\ reply[u] = "none" /\ asked[u].id = Nil
  /\ asked' = [asked EXCEPT ![u] = [id |-> i, status |-> s]]
  /\ reply' = [reply EXCEPT ![u] = "error"]
  /\ UNCHANGED <<approvals, obj, writer, wpc, removed, time, crashes, up, disk, added, damaged>>

LEMMA DecideEither ==
  ASSUME NEW u, NEW i, NEW s, Decide(u, i, s)
  PROVE  Taken(u, i, s) \/ Refused(u, i, s)
  BY DEF Decide, Taken, Refused

Quiet == Truncate \/ Write \/ WriteFails \/ Return \/ ApprovalTick \/ Crash \/ UNCHANGED approvalVars

LEMMA ApprovalSteps ==
  ASSUME [ApprovalNext]_approvalVars
  PROVE  \/ \E i \in Ids : Add(i)
         \/ \E u \in Users, i \in Ids, s \in {"accepted", "rejected"} : Taken(u, i, s)
         \/ \E u \in Users, i \in Ids, s \in {"accepted", "rejected"} : Refused(u, i, s)
         \/ NewApprovalStore \/ Quiet
  BY DecideEither DEF ApprovalNext, Quiet

LEMMA TypeOfApprovalsKept ==
  ASSUME ApprovalTypeOK, InSave, Parses, [ApprovalNext]_approvalVars
  PROVE  ApprovalTypeOK'
<1>0. Nil \notin Ids /\ StoreLimit \in Nat /\ MaxTicks \in Nat /\ MaxCrashes \in Nat
  BY ApprovalAssumption
<1>1. ASSUME NEW i \in Ids, Add(i) PROVE ApprovalTypeOK'
  <2>1. /\ obj' \in [Ids -> Items] /\ removed' \subseteq Ids
        /\ approvals' \in Seq(Ids) /\ IsInjective(approvals') /\ Len(approvals') <= StoreLimit
    <3>1. Range(approvals) \subseteq Ids
      BY RangeOfSeq DEF ApprovalTypeOK
    <3> QED BY <1>1, <3>1, AddIs DEF ApprovalTypeOK
  <2> QED BY <1>1, <2>1 DEF Add, Save, ApprovalTypeOK
<1>2. ASSUME NEW u \in Users, NEW i \in Ids, NEW s \in {"accepted", "rejected"}, Taken(u, i, s)
      PROVE  ApprovalTypeOK'
  <2>1. /\ obj' \in [Ids -> Items] /\ removed' \subseteq Ids
        /\ approvals' \in Seq(Ids) /\ IsInjective(approvals') /\ Len(approvals') <= StoreLimit
    <3>1. Range(approvals) \subseteq Ids
      BY RangeOfSeq DEF ApprovalTypeOK
    <3> QED BY <1>2, <3>1, DecideIs DEF ApprovalTypeOK, Taken
  <2>2. asked' \in [Users -> [id : Ids \cup {Nil}, status : Statuses]]
    BY <1>2 DEF Taken, ApprovalTypeOK, Statuses
  <2> QED BY <1>2, <2>1, <2>2 DEF Taken, Save, ApprovalTypeOK
<1>3. ASSUME NEW u \in Users, NEW i \in Ids, NEW s \in {"accepted", "rejected"}, Refused(u, i, s)
      PROVE  ApprovalTypeOK'
  <2>1. asked' \in [Users -> [id : Ids \cup {Nil}, status : Statuses]]
    BY <1>3 DEF Refused, ApprovalTypeOK, Statuses
  <2>2. reply' \in [Users -> {"none", "ok", "error", "lost"}]
    BY <1>3 DEF Refused, ApprovalTypeOK
  <2> QED BY <1>3, <2>1, <2>2 DEF Refused, ApprovalTypeOK
<1>4. CASE NewApprovalStore
  <2>1. CASE disk = Torn
    BY <1>4, <2>1 DEF NewApprovalStore, ApprovalTypeOK
  <2>2. CASE disk # Torn
    <3>1. disk.approvals \in Seq(Ids) /\ disk.obj \in [Ids -> Items]
      BY <2>2 DEF ApprovalTypeOK, Files
    <3>2. obj' \in [Ids -> Items]
      BY <1>4, <2>2, <3>1 DEF NewApprovalStore, ApprovalTypeOK
    <3> QED BY <1>4, <2>2, <3>1, <3>2 DEF NewApprovalStore, ApprovalTypeOK, Parses
  <2> QED BY <2>1, <2>2
<1>5. CASE Truncate \/ ApprovalTick \/ WriteFails \/ UNCHANGED approvalVars
  <2>1. CASE Truncate
    BY <2>1 DEF Truncate, ApprovalTypeOK
  <2>2. CASE ApprovalTick
    <3>1. time' \in 0..MaxTicks
      BY <1>0, <2>2 DEF ApprovalTick, ApprovalTypeOK
    <3> QED BY <2>2, <3>1 DEF ApprovalTick, ApprovalTypeOK
  <2>3. CASE WriteFails
    BY <2>3 DEF WriteFails, ApprovalTypeOK
  <2>4. CASE UNCHANGED approvalVars
    BY <2>4 DEF approvalVars, ApprovalTypeOK
  <2> QED BY <1>5, <2>1, <2>2, <2>3, <2>4
<1>6. CASE Write
  <2>1. disk' \in Files
    BY <1>6 DEF Write, Contents, Files, ApprovalTypeOK
  <2> QED BY <1>6, <2>1 DEF Write, ApprovalTypeOK
<1>7. CASE Return
  <2>1. reply' \in [Users -> {"none", "ok", "error", "lost"}] /\ added' \subseteq Ids
    BY <1>7 DEF Return, ApprovalTypeOK
  <2> QED BY <1>7, <2>1 DEF Return, ApprovalTypeOK
<1>8. CASE Crash
  <2>1. <<>> \in Seq(Ids) /\ IsInjective(<<>>) /\ Len(<<>>) <= StoreLimit
    BY <1>0, EmptySeq DEF IsInjective
  <2>2. reply' \in [Users -> {"none", "ok", "error", "lost"}]
    BY <1>8 DEF Crash, ApprovalTypeOK
  <2>3. crashes' \in 0..MaxCrashes /\ damaged' \in BOOLEAN
    BY <1>0, <1>8 DEF Crash, ApprovalTypeOK
  <2> QED BY <1>8, <2>1, <2>2, <2>3 DEF Crash, ApprovalTypeOK
<1> QED BY <1>1, <1>2, <1>3, <1>4, <1>5, <1>6, <1>7, <1>8, ApprovalSteps DEF Quiet

LEMMA WritingKept ==
  ASSUME ApprovalTypeOK, InSave, Parses, [ApprovalNext]_approvalVars
  PROVE  InSave'
<1>0. /\ Ids \cap Users = {} /\ Nil \notin Ids /\ Nil \notin Users
      /\ Range(approvals) \subseteq Ids
  BY ApprovalAssumption, RangeOfSeq DEF ApprovalTypeOK
<1>1. ASSUME NEW i \in Ids, Add(i) PROVE InSave'
  <2>1. /\ obj'[i].status = "pending" /\ \A j \in Ids \ {i} : obj'[j] = obj[j]
        /\ i \in Range(approvals') /\ Range(approvals') \subseteq Range(approvals) \cup {i}
    BY <1>1, AddIs
  <2>2. \A j \in Range(approvals') : obj'[j].status # "none"
    BY <1>0, <2>1 DEF InSave
  <2>3. writer' = i /\ wpc' = "save" /\ up'
    BY <1>1 DEF Add, Save, Free
  <2> QED BY <1>0, <2>1, <2>2, <2>3 DEF InSave
<1>2. ASSUME NEW u \in Users, NEW i \in Ids, NEW s \in {"accepted", "rejected"}, Taken(u, i, s)
      PROVE  InSave'
  <2>1. /\ obj'[i].status = s /\ \A j \in Ids \ {i} : obj'[j] = obj[j]
        /\ Range(approvals') \subseteq Range(approvals)
    BY <1>2, DecideIs DEF Taken
  <2>2. \A j \in Range(approvals') : obj'[j].status # "none"
    BY <1>0, <2>1 DEF InSave
  <2>3. writer' = u /\ wpc' = "save" /\ up'
    BY <1>2 DEF Taken, Save, Free
  <2> QED BY <1>0, <2>2, <2>3 DEF InSave
<1>3. ASSUME NEW u \in Users, NEW i \in Ids, NEW s \in {"accepted", "rejected"}, Refused(u, i, s)
      PROVE  InSave'
  BY <1>3 DEF Refused, InSave
<1>4. CASE NewApprovalStore
  <2>1. writer' = Nil /\ wpc' = "idle" /\ up'
    BY <1>4 DEF NewApprovalStore, InSave
  <2>2. \A j \in Range(approvals') : obj'[j].status # "none"
    <3>1. CASE disk = Torn
      BY <1>4, <3>1 DEF NewApprovalStore, InSave
    <3>2. CASE disk # Torn
      <4>1. Range(disk.approvals) \subseteq Ids
        BY <3>2, RangeOfSeq DEF ApprovalTypeOK, Files
      <4>2. approvals' = disk.approvals /\ \A j \in Range(disk.approvals) : obj'[j] = disk.obj[j]
        BY <1>4, <3>2, <4>1 DEF NewApprovalStore
      <4> QED BY <3>2, <4>2 DEF Parses
    <3> QED BY <3>1, <3>2
  <2> QED BY <1>0, <2>1, <2>2 DEF InSave
<1>5. CASE Truncate
  BY <1>5 DEF Truncate, InSave
<1>6. CASE Write
  BY <1>6 DEF Write, InSave
<1>7. CASE WriteFails
  BY <1>7 DEF WriteFails, InSave
<1>8. CASE Return
  BY <1>0, <1>8 DEF Return, InSave
<1>9. CASE Crash
  <2>1. Range(approvals') = {}
    BY <1>9 DEF Crash, Range
  <2> QED BY <1>0, <1>9, <2>1 DEF Crash, InSave
<1>10. CASE ApprovalTick \/ UNCHANGED approvalVars
  BY <1>10 DEF ApprovalTick, approvalVars, InSave
<1> QED BY <1>1, <1>2, <1>3, <1>4, <1>5, <1>6, <1>7, <1>8, <1>9, <1>10, ApprovalSteps DEF Quiet

LEMMA AskingKept ==
  ASSUME ApprovalTypeOK, InSave, Parses, Asking, [ApprovalNext]_approvalVars
  PROVE  Asking'
<1>0. /\ Ids \cap Users = {} /\ Nil \notin Ids /\ Nil \notin Users
      /\ \A u \in Users : asked[u].id \in Ids \cup {Nil}
  BY ApprovalAssumption DEF ApprovalTypeOK
<1>1. ASSUME NEW i \in Ids, Add(i) PROVE Asking'
  <2>1. obj'[i].status = "pending" /\ \A j \in Ids \ {i} : obj'[j] = obj[j]
    BY <1>1, AddIs
  <2>2. asked' = asked /\ reply' = reply /\ writer' = i /\ writer = Nil
    BY <1>1 DEF Add, Save, Free
  <2> QED BY <1>0, <2>1, <2>2 DEF Asking
<1>2. ASSUME NEW u \in Users, NEW i \in Ids, NEW s \in {"accepted", "rejected"}, Taken(u, i, s)
      PROVE  Asking'
  <2>1. obj'[i].status = s /\ \A j \in Ids \ {i} : obj'[j] = obj[j]
    BY <1>2, DecideIs DEF Taken
  <2>2. /\ asked'[u].id = i /\ asked'[u].status = s /\ \A v \in Users \ {u} : asked'[v] = asked[v]
        /\ reply' = reply /\ reply[u] = "none" /\ writer' = u /\ writer = Nil
    BY <1>2 DEF Taken, Save, Free, ApprovalTypeOK
  <2> QED BY <1>0, <2>1, <2>2 DEF Asking
<1>3. ASSUME NEW u \in Users, NEW i \in Ids, NEW s \in {"accepted", "rejected"}, Refused(u, i, s)
      PROVE  Asking'
  <2>1. /\ asked'[u].id = i /\ asked'[u].status = s /\ \A v \in Users \ {u} : asked'[v] = asked[v]
        /\ reply'[u] = "error" /\ \A v \in Users \ {u} : reply'[v] = reply[v]
        /\ writer' = Nil /\ writer = Nil /\ obj' = obj
    BY <1>3 DEF Refused, Free, ApprovalTypeOK
  <2> QED BY <1>0, <2>1 DEF Asking
<1>4. CASE NewApprovalStore
  <2>1. writer = Nil /\ writer' = Nil /\ asked' = asked /\ reply' = reply
    BY <1>4 DEF NewApprovalStore, InSave
  <2>2. \A j \in Ids : obj[j].status # "none" => obj'[j].status # "none"
    <3>1. CASE disk = Torn
      BY <1>4, <3>1 DEF NewApprovalStore
    <3>2. CASE disk # Torn
      BY <1>4, <3>2 DEF NewApprovalStore, Parses
    <3> QED BY <3>1, <3>2
  <2> QED BY <1>0, <2>1, <2>2 DEF Asking
<1>5. CASE Truncate \/ Write \/ WriteFails \/ ApprovalTick \/ UNCHANGED approvalVars
  <2>1. UNCHANGED <<asked, reply, writer, obj>>
    BY <1>5 DEF Truncate, Write, WriteFails, ApprovalTick, approvalVars
  <2> QED BY <2>1 DEF Asking
<1>6. CASE Return
  <2>1. /\ writer' = Nil /\ asked' = asked /\ obj' = obj
        /\ \A v \in Users : reply'[v] = IF v = writer THEN "ok" ELSE reply[v]
    BY <1>6 DEF Return, ApprovalTypeOK
  <2> QED BY <1>0, <2>1 DEF Asking
<1>7. CASE Crash
  <2>1. /\ writer' = Nil /\ asked' = asked /\ obj' = obj
        /\ \A v \in Users : reply'[v] = IF asked[v].id # Nil /\ reply[v] = "none"
                                        THEN "lost" ELSE reply[v]
    BY <1>7 DEF Crash
  <2> QED BY <1>0, <2>1 DEF Asking
<1> QED BY <1>1, <1>2, <1>3, <1>4, <1>5, <1>6, <1>7, ApprovalSteps DEF Quiet

LEMMA ParsesKept ==
  ASSUME ApprovalTypeOK, InSave, Parses, [ApprovalNext]_approvalVars
  PROVE  Parses'
<1>1. CASE Truncate
  BY <1>1 DEF Truncate, Parses
<1>2. CASE Write
  <2>1. disk'.approvals = approvals /\ disk'.obj = obj
    BY <1>2 DEF Write, Contents
  <2> QED BY <2>1 DEF Parses, ApprovalTypeOK, InSave
<1>3. CASE disk' = disk
  BY <1>3 DEF Parses
<1>4. \/ Truncate \/ Write \/ disk' = disk
  BY ApprovalSteps DEF Quiet, Add, Taken, Refused, NewApprovalStore, Return, WriteFails,
                       Crash, ApprovalTick, approvalVars
<1> QED BY <1>1, <1>2, <1>3, <1>4

LEMMA SavedKept ==
  ASSUME ApprovalTypeOK, InSave, Parses, Asking, OnDisk, ApprovalsHold,
         [ApprovalNext]_approvalVars
  PROVE  OnDisk'
<1>0. /\ Ids \cap Users = {} /\ Nil \notin Ids /\ Nil \notin Users /\ Torn \notin Files
      /\ \A u \in Users : asked[u].id \in Ids \cup {Nil}
  BY ApprovalAssumption DEF ApprovalTypeOK
<1> SUFFICES ASSUME ~damaged' PROVE OnDisk'
  BY DEF OnDisk
<1>1. ASSUME NEW i \in Ids, Add(i) PROVE OnDisk'
  <2>1. /\ removed \subseteq removed' /\ UNCHANGED <<disk, added, reply, asked, damaged>>
        /\ writer' = i /\ writer = Nil /\ wpc' = "save" /\ wpc = "idle"
    BY <1>1 DEF Add, Save, Free, InSave
  <2> QED BY <1>0, <2>1 DEF OnDisk
<1>2. ASSUME NEW u \in Users, NEW i \in Ids, NEW s \in {"accepted", "rejected"}, Taken(u, i, s)
      PROVE  OnDisk'
  <2>1. /\ removed \subseteq removed' /\ UNCHANGED <<disk, added, reply, damaged>>
        /\ asked'[u].id = i /\ \A v \in Users \ {u} : asked'[v] = asked[v]
        /\ reply[u] = "none"
        /\ writer' = u /\ writer = Nil /\ wpc' = "save" /\ wpc = "idle"
    BY <1>2 DEF Taken, Save, Free, InSave, ApprovalTypeOK
  <2>2. \A v \in Users : reply[v] = "ok" => asked[v].id # i
    BY <1>2, <2>1 DEF Taken, Decidable, ApprovalsHold, AnswerHolds, Asking
  <2> QED BY <2>1, <2>2 DEF OnDisk
<1>3. ASSUME NEW u \in Users, NEW i \in Ids, NEW s \in {"accepted", "rejected"}, Refused(u, i, s)
      PROVE  OnDisk'
  <2>1. /\ \A v \in Users \ {u} : asked'[v] = asked[v] /\ reply'[v] = reply[v]
        /\ reply'[u] = "error"
        /\ writer' = Nil
        /\ UNCHANGED <<disk, added, damaged, removed, wpc, approvals, obj>>
    BY <1>3 DEF Refused, Free, ApprovalTypeOK
  <2> QED BY <1>0, <2>1 DEF OnDisk
<1>4. CASE NewApprovalStore
  <2>1. /\ UNCHANGED <<disk, added, reply, asked, damaged, removed, wpc, writer>>
        /\ wpc = "idle" /\ writer = Nil
    BY <1>4 DEF NewApprovalStore, InSave
  <2> QED BY <1>0, <2>1 DEF OnDisk
<1>5. CASE Truncate
  <2>1. disk' = Torn /\ wpc' = "write" /\ UNCHANGED <<writer, reply, asked, damaged>>
    BY <1>5 DEF Truncate
  <2> QED BY <2>1 DEF OnDisk
<1>6. CASE Write
  <2>1. /\ disk' \in Files /\ disk'.approvals = approvals /\ disk'.obj = obj
        /\ UNCHANGED <<writer, reply, asked, damaged, added, removed, approvals, obj>>
        /\ up
    BY <1>6 DEF Write, Contents, Files, ApprovalTypeOK
  <2> QED BY <1>0, <2>1 DEF OnDisk, ApprovalsHold, AnswerHolds, RestartLosesNothing
<1>7. CASE WriteFails
  BY <1>7 DEF WriteFails
<1>8. CASE Return
  <2>1. /\ UNCHANGED <<disk, asked, damaged, removed, approvals, obj>>
        /\ wpc = "return" /\ wpc' = "idle" /\ writer' = Nil
        /\ \A v \in Users : reply'[v] = IF v = writer THEN "ok" ELSE reply[v]
        /\ added' \subseteq added \cup (Range(approvals) \cap {writer})
    BY <1>8 DEF Return, ApprovalTypeOK, InSave
  <2>2. ASSUME NEW v \in Users, reply'[v] = "ok", asked[v].id \in Range(disk.approvals)
        PROVE  disk.obj[asked[v].id].status = asked[v].status
    BY <2>1, <2>2 DEF OnDisk, Asking
  <2>3. added' \ removed \subseteq Range(disk.approvals)
    BY <2>1 DEF OnDisk
  <2> QED BY <1>0, <2>1, <2>2, <2>3 DEF OnDisk
<1>9. CASE Crash
  <2>1. /\ UNCHANGED <<disk, asked, added, removed>> /\ ~damaged /\ wpc # "write"
        /\ wpc' = "idle" /\ writer' = Nil
        /\ \A v \in Users : reply'[v] = "ok" => reply[v] = "ok"
    BY <1>9 DEF Crash
  <2> QED BY <1>0, <2>1 DEF OnDisk
<1>10. CASE ApprovalTick \/ UNCHANGED approvalVars
  <2>1. UNCHANGED <<disk, asked, added, removed, wpc, writer, reply, damaged, approvals, obj>>
    BY <1>10 DEF ApprovalTick, approvalVars
  <2> QED BY <2>1 DEF OnDisk
<1> QED BY <1>1, <1>2, <1>3, <1>4, <1>5, <1>6, <1>7, <1>8, <1>9, <1>10, ApprovalSteps DEF Quiet

(* Nobody hears "ok" but the one who was inside save.                      *)
LEMMA OnlyTheWriterHears ==
  ASSUME ApprovalTypeOK, InSave, [ApprovalNext]_approvalVars, NEW u \in Users, reply'[u] = "ok"
  PROVE  \/ reply[u] = "ok" /\ asked'[u] = asked[u]
         \/ Return /\ writer = u
<1>1. ASSUME NEW v \in Users, NEW i \in Ids, NEW s \in {"accepted", "rejected"}, Taken(v, i, s)
      PROVE  reply[u] = "ok" /\ asked'[u] = asked[u]
  BY <1>1 DEF Taken, ApprovalTypeOK
<1>2. ASSUME NEW v \in Users, NEW i \in Ids, NEW s \in {"accepted", "rejected"}, Refused(v, i, s)
      PROVE  reply[u] = "ok" /\ asked'[u] = asked[u]
  BY <1>2 DEF Refused, ApprovalTypeOK
<1>3. CASE Return
  BY <1>3 DEF Return, ApprovalTypeOK
<1>4. CASE Crash
  BY <1>4 DEF Crash
<1>5. ASSUME UNCHANGED <<asked, reply>> PROVE reply[u] = "ok" /\ asked'[u] = asked[u]
  BY <1>5
<1>6. ASSUME NEW i \in Ids, Add(i) PROVE UNCHANGED <<asked, reply>>
  BY <1>6 DEF Add
<1>7. CASE NewApprovalStore \/ Truncate \/ Write \/ WriteFails \/ ApprovalTick \/ UNCHANGED approvalVars
  BY <1>5, <1>7 DEF NewApprovalStore, Truncate, Write, WriteFails, ApprovalTick, approvalVars
<1> QED BY <1>1, <1>2, <1>3, <1>4, <1>5, <1>6, <1>7, ApprovalSteps DEF Quiet

(* Of two deciders of one item, the second is refused.                     *)
LEMMA OneWinnerKept ==
  ASSUME ApprovalTypeOK, InSave, OnDisk, OneWinner, [ApprovalNext]_approvalVars
  PROVE  OneWinner'
<1> SUFFICES ASSUME ~damaged', NEW u \in Users, NEW v \in Users,
                    reply'[u] = "ok", reply'[v] = "ok", asked'[u].id = asked'[v].id
             PROVE  u = v
  BY DEF OneWinner
<1>1. ~damaged
  <2>1. damaged => damaged'
    BY ApprovalSteps DEF Quiet, Add, Taken, Refused, NewApprovalStore, Return, WriteFails,
                         Crash, ApprovalTick, Truncate, Write, approvalVars, ApprovalTypeOK
  <2> QED BY <2>1
<1>2. CASE Return /\ (writer = u \/ writer = v)
  <2>1. asked' = asked
    BY <1>2 DEF Return
  <2>2. \A w \in Users : reply'[w] = "ok" /\ w # writer => reply[w] = "ok"
    BY <1>2 DEF Return, ApprovalTypeOK
  <2> QED BY <1>1, <1>2, <2>1, <2>2 DEF OnDisk
<1>3. CASE ~(Return /\ (writer = u \/ writer = v))
  <2>1. reply[u] = "ok" /\ asked'[u] = asked[u] /\ reply[v] = "ok" /\ asked'[v] = asked[v]
    BY <1>3, OnlyTheWriterHears
  <2> QED BY <1>1, <2>1 DEF OneWinner
<1> QED BY <1>2, <1>3

LEMMA AnswerHoldsKept ==
  ASSUME ApprovalTypeOK, InSave, Parses, Asking, OnDisk, AnswerHolds, [ApprovalNext]_approvalVars
  PROVE  AnswerHolds'
<1>0. /\ \A u \in Users : asked[u].id \in Ids \cup {Nil}
      /\ Range(approvals) \subseteq Ids /\ Nil \notin Ids
  BY ApprovalAssumption, RangeOfSeq DEF ApprovalTypeOK
<1> SUFFICES ASSUME ~damaged', NEW u \in Users, reply'[u] = "ok",
                    asked'[u].id \in Range(approvals')
             PROVE  obj'[asked'[u].id].status = asked'[u].status
  BY DEF AnswerHolds
<1>1. ASSUME NEW i \in Ids, Add(i) PROVE obj'[asked'[u].id].status = asked'[u].status
  <2>1. /\ \A j \in Ids \ {i} : obj'[j] = obj[j]
        /\ Range(approvals') \subseteq Range(approvals) \cup {i}
    BY <1>1, AddIs
  <2>2. UNCHANGED <<asked, reply, damaged>> /\ obj[i].status = "none"
    BY <1>1 DEF Add
  <2> QED BY <1>0, <2>1, <2>2 DEF AnswerHolds, Asking
<1>2. ASSUME NEW v \in Users, NEW i \in Ids, NEW s \in {"accepted", "rejected"}, Taken(v, i, s)
      PROVE  obj'[asked'[u].id].status = asked'[u].status
  <2>1. /\ \A j \in Ids \ {i} : obj'[j] = obj[j]
        /\ Range(approvals') \subseteq Range(approvals)
    BY <1>2, DecideIs DEF Taken
  <2>2. /\ reply' = reply /\ damaged' = damaged /\ reply[v] = "none"
        /\ \A w \in Users \ {v} : asked'[w] = asked[w]
        /\ i \in Range(approvals) /\ obj[i].status = "pending"
    BY <1>2 DEF Taken, Decidable, ApprovalTypeOK
  <2>3. asked'[u] = asked[u] /\ reply[u] = "ok"
    BY <2>2
  <2>4. obj[asked[u].id].status = asked[u].status
    BY <2>1, <2>2, <2>3 DEF AnswerHolds
  <2>5. asked[u].id # i
    BY <2>2, <2>4 DEF Asking
  <2> QED BY <1>0, <2>1, <2>3, <2>4, <2>5
<1>3. ASSUME NEW v \in Users, NEW i \in Ids, NEW s \in {"accepted", "rejected"}, Refused(v, i, s)
      PROVE  obj'[asked'[u].id].status = asked'[u].status
  <2>1. /\ reply'[v] = "error" /\ \A w \in Users \ {v} : asked'[w] = asked[w] /\ reply'[w] = reply[w]
        /\ UNCHANGED <<approvals, obj, damaged>>
    BY <1>3 DEF Refused, ApprovalTypeOK
  <2> QED BY <2>1 DEF AnswerHolds
<1>4. CASE NewApprovalStore
  <2>1. wpc = "idle" /\ UNCHANGED <<asked, reply, damaged>>
    BY <1>4 DEF NewApprovalStore, InSave
  <2>2. disk # Torn
    BY <2>1 DEF OnDisk
  <2>3. approvals' = disk.approvals /\ \A j \in Ids \cap Range(disk.approvals) : obj'[j] = disk.obj[j]
    BY <1>4, <2>2 DEF NewApprovalStore
  <2>4. Range(disk.approvals) \subseteq Ids
    BY <2>2, RangeOfSeq DEF ApprovalTypeOK, Files
  <2> QED BY <2>1, <2>2, <2>3, <2>4 DEF OnDisk
<1>5. CASE Return
  <2>1. /\ UNCHANGED <<asked, damaged, approvals, obj>>
        /\ reply'[u] = IF u = writer THEN "ok" ELSE reply[u]
    BY <1>5 DEF Return, ApprovalTypeOK
  <2> QED BY <2>1 DEF AnswerHolds, Asking
<1>6. CASE Crash
  BY <1>6 DEF Crash, Range
<1>7. CASE Truncate \/ Write \/ WriteFails \/ ApprovalTick \/ UNCHANGED approvalVars
  <2>1. ~damaged /\ UNCHANGED <<asked, reply, approvals, obj>>
    BY <1>7 DEF Truncate, Write, WriteFails, ApprovalTick, approvalVars
  <2> QED BY <2>1 DEF AnswerHolds
<1> QED BY <1>1, <1>2, <1>3, <1>4, <1>5, <1>6, <1>7, ApprovalSteps DEF Quiet

LEMMA RestartKept ==
  ASSUME ApprovalTypeOK, InSave, OnDisk, RestartLosesNothing, [ApprovalNext]_approvalVars
  PROVE  RestartLosesNothing'
<1> SUFFICES ASSUME up', ~damaged' PROVE added' \ removed' \subseteq Range(approvals')
  BY DEF RestartLosesNothing
<1>1. ASSUME NEW i \in Ids, Add(i) PROVE added' \ removed' \subseteq Range(approvals')
  <2>1. removed' = removed \cup (Range(approvals) \ Range(approvals'))
    BY <1>1, AddIs
  <2> QED BY <1>1, <2>1 DEF Add, RestartLosesNothing
<1>2. ASSUME NEW u \in Users, NEW i \in Ids, NEW s \in {"accepted", "rejected"}, Taken(u, i, s)
      PROVE  added' \ removed' \subseteq Range(approvals')
  <2>1. removed' = removed \cup (Range(approvals) \ Range(approvals'))
    BY <1>2, DecideIs DEF Taken
  <2> QED BY <1>2, <2>1 DEF Taken, RestartLosesNothing
<1>3. CASE NewApprovalStore
  BY <1>3 DEF NewApprovalStore, InSave, OnDisk
<1>4. CASE Return
  <2>1. added' \subseteq added \cup (Range(approvals) \cap {writer})
    BY <1>4 DEF Return, InSave
  <2> QED BY <1>4, <2>1 DEF Return, RestartLosesNothing
<1>5. ASSUME up /\ ~damaged /\ UNCHANGED <<added, removed, approvals>>
      PROVE  added' \ removed' \subseteq Range(approvals')
  BY <1>5 DEF RestartLosesNothing
<1>6. ASSUME NEW u \in Users, NEW i \in Ids, NEW s \in {"accepted", "rejected"}, Refused(u, i, s)
      PROVE  up /\ ~damaged /\ UNCHANGED <<added, removed, approvals>>
  BY <1>6 DEF Refused
<1>7. CASE Truncate \/ Write \/ WriteFails \/ Crash \/ ApprovalTick \/ UNCHANGED approvalVars
  <2>1. CASE Truncate \/ Write \/ ApprovalTick \/ UNCHANGED approvalVars
    <3>1. CASE Truncate
      BY <1>5, <3>1 DEF Truncate
    <3>2. CASE Write
      BY <1>5, <3>2 DEF Write
    <3>3. CASE ApprovalTick
      BY <1>5, <3>3 DEF ApprovalTick
    <3>4. CASE UNCHANGED approvalVars
      BY <1>5, <3>4 DEF approvalVars
    <3> QED BY <2>1, <3>1, <3>2, <3>3, <3>4
  <2>2. CASE WriteFails
    BY <2>2 DEF WriteFails
  <2>3. CASE Crash
    BY <2>3 DEF Crash
  <2> QED BY <1>7, <2>1, <2>2, <2>3
<1> QED BY <1>1, <1>2, <1>3, <1>4, <1>5, <1>6, <1>7, ApprovalSteps DEF Quiet

LEMMA ApprovalStarts ==
  ASSUME ApprovalInit
  PROVE  ApprovalInv
<1>0. /\ Legacy \subseteq Ids /\ IsFiniteSet(Legacy) /\ Cardinality(Legacy) <= StoreLimit
      /\ Nil \notin Users /\ Nil \notin Ids /\ MaxTicks \in Nat /\ MaxCrashes \in Nat
      /\ Torn \notin Files
  BY ApprovalAssumption
<1>1. /\ approvals \in Seq(Legacy) /\ IsInjective(approvals)
      /\ Len(approvals) <= StoreLimit /\ Range(approvals) = Legacy
  BY <1>0, SetToSeqIs DEF ApprovalInit
<1>2. approvals \in Seq(Ids)
  BY <1>0, <1>1
<1>3. obj \in [Ids -> Items] /\ \A i \in Legacy : obj[i].status = "accepted"
  BY <1>0 DEF ApprovalInit, Fresh, Items, Statuses
<1>4. disk \in Files /\ disk.approvals = approvals /\ disk.obj = obj
  BY <1>2, <1>3 DEF ApprovalInit, Files
<1>5. asked \in [Users -> [id : Ids \cup {Nil}, status : Statuses]]
  BY DEF ApprovalInit, Statuses
<1>6. ApprovalTypeOK
  <2>1. time \in 0..MaxTicks /\ crashes \in 0..MaxCrashes
    BY <1>0 DEF ApprovalInit
  <2>2. reply \in [Users -> {"none", "ok", "error", "lost"}] /\ added \subseteq Ids
    BY <1>0 DEF ApprovalInit
  <2> QED BY <1>1, <1>2, <1>3, <1>4, <1>5, <2>1, <2>2 DEF ApprovalInit, ApprovalTypeOK
<1>7. InSave /\ Asking
  BY <1>0, <1>1, <1>3 DEF ApprovalInit, InSave, Asking
<1>8. Parses
  BY <1>1, <1>3, <1>4 DEF Parses
<1>9. OnDisk
  BY <1>0, <1>1, <1>4 DEF ApprovalInit, OnDisk
<1>10. ApprovalsHold
  BY <1>1 DEF ApprovalInit, ApprovalsHold, OneWinner, AnswerHolds, RestartLosesNothing
<1> QED BY <1>6, <1>7, <1>8, <1>9, <1>10 DEF ApprovalInv

(* Every reachable state of the store has the inductive invariant.         *)
THEOREM ApprovalsCorrect == ApprovalSpec => []ApprovalInv
<1>1. ApprovalInv /\ [ApprovalNext]_approvalVars => ApprovalInv'
  BY TypeOfApprovalsKept, WritingKept, AskingKept, ParsesKept, SavedKept,
     OneWinnerKept, AnswerHoldsKept, RestartKept DEF ApprovalInv, ApprovalsHold
<1> QED BY ApprovalStarts, <1>1, PTL DEF ApprovalSpec

(* What was decided once holds from then on and nothing that was added is  *)
(* lost, whatever the order of the requests and wherever the process dies, *)
(* as long as the file can be written.                                     *)
THEOREM DecisionsHold == ApprovalSpec => []ApprovalsHold
<1>1. ApprovalInv => ApprovalsHold
  BY DEF ApprovalInv
<1> QED BY <1>1, ApprovalsCorrect, PTL

(* The items, the file and the requests have their types, and the list    *)
(* never holds more than its limit.                                        *)
THEOREM ApprovalsTyped == ApprovalSpec => []ApprovalTypeOK
<1>1. ApprovalInv => ApprovalTypeOK
  BY DEF ApprovalInv
<1> QED BY <1>1, ApprovalsCorrect, PTL

(* A pending item leaves a running store only to make room, oldest first.  *)
THEOREM PendingNeverLeaves == ApprovalSpec => PendingStays
<1> DEFINE Stay == up /\ up' =>
       \A a \in DOMAIN approvals :
         obj[approvals[a]].status = "pending" /\ approvals[a] \notin Range(approvals') =>
           /\ Len(approvals) = StoreLimit
           /\ \A b \in DOMAIN approvals : approvals[b] \in Range(approvals') => a < b
<1>1. ApprovalInv /\ [ApprovalNext]_approvalVars => Stay
  <2> SUFFICES ASSUME ApprovalInv, [ApprovalNext]_approvalVars, up, up' PROVE GoesForRoom(approvals')
    BY DEF GoesForRoom
  <2>1. ApprovalTypeOK /\ InSave
    BY DEF ApprovalInv
  <2>2. ASSUME NEW i \in Ids, Add(i) PROVE GoesForRoom(approvals')
    BY <2>1, <2>2, AddIs
  <2>3. ASSUME NEW u \in Users, NEW i \in Ids, NEW s \in {"accepted", "rejected"}, Taken(u, i, s)
        PROVE  GoesForRoom(approvals')
    BY <2>1, <2>3, DecideIs DEF Taken
  <2>4. ASSUME approvals' = approvals PROVE GoesForRoom(approvals')
    BY <2>4 DEF GoesForRoom, Range
  <2>5. ASSUME NEW u \in Users, NEW i \in Ids, NEW s \in {"accepted", "rejected"}, Refused(u, i, s)
        PROVE  approvals' = approvals
    BY <2>5 DEF Refused
  <2>6. CASE NewApprovalStore \/ Quiet
    BY <2>4, <2>6 DEF NewApprovalStore, Quiet, Truncate, Write, WriteFails, Return, Crash,
                      ApprovalTick, approvalVars
  <2> QED BY <2>2, <2>3, <2>4, <2>5, <2>6, ApprovalSteps
<1>2. ApprovalInv /\ [ApprovalNext]_approvalVars => [Stay]_approvalVars
  BY <1>1
<1> QED BY <1>2, ApprovalsCorrect, PTL DEF ApprovalSpec, PendingStays

-----------------------------------------------------------------------------
(* What the file and the memory have in common, between two saves and in   *)
(* the first half of one.                                                  *)
InFile(i) == i \in Range(disk.approvals)

SameAsFile ==
  /\ disk.approvals = approvals
  /\ \A i \in Range(approvals) : disk.obj[i] = obj[i]

SaveOfNew ==
  /\ ~ InFile(writer) /\ obj[writer].status = "pending"
  /\ \A j \in Range(approvals) \ {writer} : InFile(j) /\ disk.obj[j] = obj[j]
  /\ \A a \in DOMAIN disk.approvals :
       disk.obj[disk.approvals[a]].status = "pending" /\ disk.approvals[a] \notin Range(approvals) =>
         /\ Len(disk.approvals) = StoreLimit
         /\ \A b \in DOMAIN disk.approvals : disk.approvals[b] \in Range(approvals) => a < b

SaveOfDecision ==
  LET k == asked[writer].id IN
  /\ k \in Ids /\ InFile(k) /\ k \in Range(approvals) /\ disk.obj[k].status = "pending"
  /\ \A j \in Range(approvals) \ {k} : InFile(j) /\ disk.obj[j] = obj[j]
  /\ \A j \in Range(disk.approvals) : disk.obj[j].status = "pending" => j \in Range(approvals)

Underway ==
  /\ wpc = "write" => disk = Torn
  /\ disk # Torn => \A i \in Range(disk.approvals) : obj[i].status # "none"
  /\ up /\ wpc = "idle" /\ ~damaged => disk # Torn /\ SameAsFile
  /\ wpc = "save" /\ ~damaged =>
       /\ writer \in Ids => SaveOfNew
       /\ writer \in Users => SaveOfDecision

LEMMA FileIsTyped ==
  ASSUME ApprovalTypeOK, disk # Torn
  PROVE  /\ disk.approvals \in Seq(Ids) /\ disk.obj \in [Ids -> Items]
         /\ Range(disk.approvals) \subseteq Ids
         /\ \A a \in DOMAIN disk.approvals : disk.approvals[a] \in Range(disk.approvals)
<1>1. disk \in Files
  BY DEF ApprovalTypeOK
<1>2. disk.approvals \in Seq(Ids) /\ disk.obj \in [Ids -> Items]
  BY <1>1 DEF Files
<1> QED BY <1>2, RangeOfSeq DEF Range

LEMMA UnderwayStarts ==
  ASSUME ApprovalInit
  PROVE  Underway
<1>1. ApprovalInv
  BY ApprovalStarts
<1>2. disk # Torn /\ disk.approvals = approvals /\ disk.obj = obj
  <2>1. disk.approvals = approvals /\ disk.obj = obj
    BY DEF ApprovalInit
  <2> QED BY <1>1, <2>1 DEF ApprovalInv, OnDisk, ApprovalInit
<1>3. \A i \in Range(approvals) : obj[i].status # "none"
  BY <1>1 DEF ApprovalInv, InSave
<1> QED BY <1>2, <1>3 DEF ApprovalInit, Underway, SameAsFile

LEMMA UnderwayKept ==
  ASSUME ApprovalInv, Underway, [ApprovalNext]_approvalVars
  PROVE  Underway'
<1>0. /\ ApprovalTypeOK /\ InSave /\ Asking /\ Parses /\ OnDisk
      /\ Ids \cap Users = {} /\ Nil \notin Ids /\ Nil \notin Users
      /\ approvals \in Seq(Ids) /\ Range(approvals) \subseteq Ids
  BY ApprovalAssumption, RangeOfSeq DEF ApprovalInv, ApprovalTypeOK
<1> USE DEF InFile
<1>1. ASSUME NEW i \in Ids, Add(i) PROVE Underway'
  <2>1. /\ Free /\ obj[i].status = "none"
        /\ UNCHANGED <<disk, asked, damaged, up>>
        /\ writer' = i /\ wpc' = "save"
    BY <1>1 DEF Add, Save
  <2>2. /\ obj'[i].status = "pending" /\ \A j \in Ids \ {i} : obj'[j] = obj[j]
        /\ i \in Range(approvals') /\ Range(approvals') \subseteq Range(approvals) \cup {i}
        /\ GoesForRoom(approvals')
    BY <1>0, <1>1, AddIs
  <2>3. disk # Torn => ~ InFile(i)
    BY <2>1 DEF Underway
  <2>4. wpc = "idle" /\ up
    BY <1>0, <2>1 DEF Free, InSave
  <2>5. disk # Torn => \A j \in Range(disk.approvals) : obj'[j].status # "none"
    BY <1>0, <2>2, FileIsTyped DEF Underway
  <2>6. ASSUME ~damaged PROVE SaveOfNew'
    <3>1. disk # Torn /\ SameAsFile
      BY <2>4, <2>6 DEF Underway
    <3>2. \A j \in Range(approvals') \ {i} : j \in Range(approvals) /\ j \in Ids \ {i}
      BY <1>0, <2>2
    <3>3. \A j \in Range(approvals') \ {i} : InFile(j) /\ disk.obj[j] = obj'[j]
      BY <2>2, <3>1, <3>2 DEF SameAsFile
    <3>4. \A a \in DOMAIN approvals : approvals[a] \in Range(approvals)
      BY DEF Range
    <3>5. \A a \in DOMAIN disk.approvals :
            disk.obj[disk.approvals[a]].status = "pending" /\ disk.approvals[a] \notin Range(approvals') =>
              /\ Len(disk.approvals) = StoreLimit
              /\ \A b \in DOMAIN disk.approvals : disk.approvals[b] \in Range(approvals') => a < b
      BY <2>2, <3>1, <3>4 DEF SameAsFile, GoesForRoom
    <3> QED BY <2>1, <2>2, <2>3, <3>1, <3>3, <3>5 DEF SaveOfNew
  <2> QED BY <1>0, <2>1, <2>5, <2>6 DEF Underway
<1>2. ASSUME NEW u \in Users, NEW i \in Ids, NEW s \in {"accepted", "rejected"}, Taken(u, i, s)
      PROVE  Underway'
  <2>1. /\ Free /\ Decidable(i)
        /\ UNCHANGED <<disk, damaged, up>>
        /\ writer' = u /\ wpc' = "save" /\ asked'[u].id = i
    BY <1>0, <1>2 DEF Taken, Save, ApprovalTypeOK
  <2>2. /\ obj'[i].status = s /\ \A j \in Ids \ {i} : obj'[j] = obj[j]
        /\ Range(approvals') \subseteq Range(approvals)
        /\ \A j \in Range(approvals) : obj[j].status = "pending" => j \in Range(approvals')
    BY <1>0, <1>2, DecideIs DEF Taken
  <2>3. wpc = "idle" /\ up
    BY <1>0, <2>1 DEF Free, InSave
  <2>4. disk # Torn => \A j \in Range(disk.approvals) : obj'[j].status # "none"
    BY <1>0, <2>2, FileIsTyped DEF Underway
  <2>5. ASSUME ~damaged PROVE SaveOfDecision'
    <3>1. disk # Torn /\ SameAsFile
      BY <2>3, <2>5 DEF Underway
    <3>2. InFile(i) /\ disk.obj[i].status = "pending" /\ i \in Range(approvals')
      BY <2>1, <2>2, <3>1 DEF SameAsFile, Decidable
    <3>3. \A j \in Range(approvals') \ {i} : InFile(j) /\ disk.obj[j] = obj'[j]
      BY <1>0, <2>2, <3>1 DEF SameAsFile
    <3>4. \A j \in Range(disk.approvals) : disk.obj[j].status = "pending" => j \in Range(approvals')
      BY <2>2, <3>1 DEF SameAsFile
    <3> QED BY <2>1, <3>2, <3>3, <3>4 DEF SaveOfDecision
  <2> QED BY <1>0, <2>1, <2>4, <2>5 DEF Underway
<1>3. CASE NewApprovalStore
  <2>1. wpc = "idle" /\ UNCHANGED <<disk, wpc, damaged>> /\ ~up
    BY <1>0, <1>3 DEF NewApprovalStore, InSave
  <2>2. ASSUME disk # Torn
        PROVE  /\ approvals' = disk.approvals
               /\ \A i \in Range(disk.approvals) : obj'[i] = disk.obj[i]
    BY <1>0, <1>3, <2>2, FileIsTyped DEF NewApprovalStore
  <2>3. ~damaged => disk # Torn
    BY <1>0, <2>1 DEF OnDisk
  <2> QED BY <1>0, <2>1, <2>2, <2>3 DEF Underway, SameAsFile, Parses
<1>4. CASE Truncate
  <2>1. disk' = Torn /\ wpc' = "write"
    BY <1>4 DEF Truncate
  <2> QED BY <2>1 DEF Underway
<1>5. CASE Write
  <2>1. disk'.approvals = approvals /\ UNCHANGED <<obj, approvals>> /\ wpc' = "return"
    BY <1>5 DEF Write, Contents
  <2> QED BY <1>0, <2>1 DEF Underway, InSave
<1>6. CASE WriteFails
  BY <1>6 DEF WriteFails, Underway
<1>7. CASE Return
  <2>1. wpc = "return" /\ wpc' = "idle" /\ UNCHANGED <<disk, obj, approvals, damaged, up>>
    BY <1>7 DEF Return
  <2> QED BY <1>0, <2>1 DEF Underway, OnDisk, SameAsFile
<1>8. CASE Crash
  BY <1>8 DEF Crash, Underway
<1>9. ASSUME UNCHANGED <<disk, obj, approvals, damaged, up, wpc, writer>>,
             \A u \in Users : writer = u => asked'[u] = asked[u]
      PROVE  Underway'
  BY <1>0, <1>9 DEF Underway, SameAsFile, SaveOfNew, SaveOfDecision
<1>10. ASSUME NEW u \in Users, NEW i \in Ids, NEW s \in {"accepted", "rejected"}, Refused(u, i, s)
       PROVE  Underway'
  <2>1. writer = Nil /\ UNCHANGED <<disk, obj, approvals, damaged, up, wpc, writer>>
    BY <1>10 DEF Refused, Free
  <2> QED BY <1>0, <1>9, <2>1
<1>11. CASE ApprovalTick \/ UNCHANGED approvalVars
  BY <1>9, <1>11 DEF ApprovalTick, approvalVars
<1> QED BY <1>1, <1>2, <1>3, <1>4, <1>5, <1>6, <1>7, <1>8, <1>10, <1>11, ApprovalSteps DEF Quiet

(* Between two saves the list of the file is that of the memory, and no    *)
(* request waits.                                                          *)
LEMMA AtRest ==
  ASSUME ApprovalInv, Underway, ~damaged, Free
  PROVE  /\ disk # Torn /\ SameAsFile /\ wpc = "idle"
         /\ \A u \in Users : asked[u].id # Nil => reply[u] # "none"
<1>1. wpc = "idle" /\ up
  BY DEF ApprovalInv, InSave, Free
<1>2. \A u \in Users : writer # u
  BY ApprovalAssumption DEF Free
<1> QED BY <1>1, <1>2 DEF ApprovalInv, Asking, Underway

(* A step at rest that leaves the file leaves the book.                    *)
LEMMA SameBook ==
  ASSUME disk # Torn, disk' = disk
  PROVE  Book = disk /\ Book' = disk /\ bookList = disk.approvals /\ bookList' = bookList
  BY DEF Book, bookList

LEMMA FatesAre ==
  /\ \A i \in Ids : bookFate[i] = FateOf(i) /\ bookFate'[i] = FateOf(i)'
  /\ \A u \in Users : bookPhase[u] = PhaseOf(u) /\ bookPhase'[u] = PhaseOf(u)'
  BY DEF bookFate, bookPhase

LEMMA FateMoves ==
  ASSUME NEW i \in Ids, NEW v, FateOf(i)' = v, \A j \in Ids \ {i} : FateOf(j)' = FateOf(j)
  PROVE  bookFate' = [bookFate EXCEPT ![i] = v]
  BY DEF bookFate

LEMMA FatesStay ==
  ASSUME \A j \in Ids : FateOf(j)' = FateOf(j)
  PROVE  bookFate' = bookFate
  BY DEF bookFate

LEMMA PhaseMoves ==
  ASSUME NEW u \in Users, NEW v, PhaseOf(u)' = v, \A w \in Users \ {u} : PhaseOf(w)' = PhaseOf(w)
  PROVE  bookPhase' = [bookPhase EXCEPT ![u] = v]
  BY DEF bookPhase

LEMMA PhasesStay ==
  ASSUME \A u \in Users : PhaseOf(u)' = PhaseOf(u)
  PROVE  bookPhase' = bookPhase
  BY DEF bookPhase

(* Add is the submission of a new item.                                    *)
LEMMA AddSubmits ==
  ASSUME ApprovalInv, Underway, ~damaged, NEW i \in Ids, Add(i)
  PROVE  Promise!Submit(i)
<1>1. /\ Free /\ obj[i].status = "none" /\ UNCHANGED <<disk, asked, reply, damaged>>
      /\ writer' = i /\ wpc' = "save"
  BY DEF Add, Save
<1>2. /\ disk # Torn /\ SameAsFile /\ wpc = "idle"
      /\ \A u \in Users : asked[u].id # Nil => reply[u] # "none"
  BY <1>1, AtRest
<1>3. obj'[i].status = "pending" /\ \A j \in Ids \ {i} : obj'[j] = obj[j]
  BY AddIs DEF ApprovalInv
<1>4. Book = disk /\ Book' = disk /\ bookList' = bookList
  BY <1>1, <1>2, SameBook
<1>5. i \notin Range(disk.approvals)
  BY <1>1, <1>2 DEF Underway, InFile
<1>6. FateOf(i) = "new" /\ FateOf(i)' = "coming"
  BY <1>1, <1>3, <1>4, <1>5 DEF FateOf
<1>7. \A j \in Ids \ {i} : FateOf(j)' = FateOf(j)
  BY <1>1, <1>2, <1>3, <1>4 DEF FateOf
<1>8. bookFate[i] = "new" /\ bookFate' = [bookFate EXCEPT ![i] = "coming"]
  BY <1>6, <1>7, FateMoves, FatesAre
<1>9. bookPhase' = bookPhase
  <2>1. \A u \in Users : PhaseOf(u)' = PhaseOf(u)
    BY <1>1, <1>2 DEF PhaseOf
  <2> QED BY <2>1, PhasesStay
<1> QED BY <1>1, <1>4, <1>8, <1>9 DEF Promise!Submit

(* A decision of a pending item begins as a request in waiting ...         *)
LEMMA TakenAsks ==
  ASSUME ApprovalInv, Underway, ~damaged, NEW u \in Users, NEW i \in Ids,
         NEW s \in {"accepted", "rejected"}, Taken(u, i, s)
  PROVE  Promise!Ask(u, i, s)
<1>1. /\ Free /\ Decidable(i) /\ UNCHANGED <<disk, reply, damaged>>
      /\ reply[u] = "none" /\ asked[u].id = Nil
      /\ writer' = u /\ wpc' = "save"
      /\ asked' = [asked EXCEPT ![u] = [id |-> i, status |-> s]]
  BY DEF Taken, Save
<1>2. /\ disk # Torn /\ SameAsFile /\ wpc = "idle"
      /\ \A v \in Users : asked[v].id # Nil => reply[v] # "none"
  BY <1>1, AtRest
<1>3. \A j \in Ids \ {i} : obj'[j] = obj[j]
  BY DecideIs DEF ApprovalInv, Taken
<1>4. Book = disk /\ Book' = disk /\ bookList' = bookList
  BY <1>1, <1>2, SameBook
<1>5. i \in Range(disk.approvals) /\ FateOf(i) = "pending"
  BY <1>1, <1>2, <1>4 DEF SameAsFile, Decidable, FateOf
<1>6. \A j \in Ids : FateOf(j)' = FateOf(j)
  BY <1>1, <1>2, <1>3, <1>4, <1>5, ApprovalAssumption DEF FateOf
<1>7. asked'[u].id = i /\ \A v \in Users \ {u} : asked'[v] = asked[v]
  BY <1>1 DEF ApprovalInv, ApprovalTypeOK
<1>8. PhaseOf(u) = "idle" /\ PhaseOf(u)' = "asking" /\ \A v \in Users \ {u} : PhaseOf(v)' = PhaseOf(v)
  BY <1>1, <1>2, <1>7, ApprovalAssumption DEF PhaseOf
<1>9. bookPhase[u] = "idle" /\ bookPhase' = [bookPhase EXCEPT ![u] = "asking"]
  BY <1>8, PhaseMoves, FatesAre
<1>10. bookFate[i] = "pending" /\ bookFate' = bookFate
  BY <1>5, <1>6, FatesStay, FatesAre
<1> QED BY <1>1, <1>4, <1>9, <1>10 DEF Promise!Ask, Promise!Asks, Promise!Hears

(* ... and of any other item is refused.                                   *)
LEMMA RefusedRefuses ==
  ASSUME ApprovalInv, Underway, ~damaged, NEW u \in Users, NEW i \in Ids,
         NEW s \in {"accepted", "rejected"}, ~Decidable(i), Refused(u, i, s)
  PROVE  Promise!Refuse(u, i, s)
<1>1. /\ Free /\ UNCHANGED <<disk, obj, approvals, writer, wpc, damaged>>
      /\ reply[u] = "none" /\ asked[u].id = Nil
      /\ reply' = [reply EXCEPT ![u] = "error"]
      /\ asked' = [asked EXCEPT ![u] = [id |-> i, status |-> s]]
  BY DEF Refused
<1>2. /\ disk # Torn /\ SameAsFile /\ wpc = "idle"
      /\ \A v \in Users : asked[v].id # Nil => reply[v] # "none"
  BY <1>1, AtRest
<1>4. Book = disk /\ Book' = disk /\ bookList' = bookList
  BY <1>1, <1>2, SameBook
<1>5. FateOf(i) # "pending"
  BY <1>2, <1>4 DEF SameAsFile, Decidable, FateOf
<1>6. \A j \in Ids : FateOf(j)' = FateOf(j)
  BY <1>1, <1>4 DEF FateOf
<1>7. /\ reply'[u] = "error"
      /\ \A v \in Users \ {u} : asked'[v] = asked[v] /\ reply'[v] = reply[v]
  BY <1>1 DEF ApprovalInv, ApprovalTypeOK
<1>8. PhaseOf(u) = "idle" /\ PhaseOf(u)' = "error" /\ \A v \in Users \ {u} : PhaseOf(v)' = PhaseOf(v)
  BY <1>1, <1>7 DEF PhaseOf
<1>9. bookPhase[u] = "idle" /\ bookPhase' = [bookPhase EXCEPT ![u] = "error"]
  BY <1>8, PhaseMoves, FatesAre
<1>10. bookFate[i] # "pending" /\ bookFate' = bookFate
  BY <1>5, <1>6, FatesStay, FatesAre
<1> QED BY <1>1, <1>4, <1>9, <1>10 DEF Promise!Refuse, Promise!Asks, Promise!Hears

(* The fates when an old file is cut: what was to be written counts.       *)
LEMMA CutBook ==
  ASSUME ApprovalInv, Underway, ~damaged, Truncate
  PROVE  /\ disk # Torn /\ Book = disk /\ bookList = disk.approvals /\ bookList' = approvals
         /\ Range(approvals) \subseteq Ids
         /\ \A i \in Range(approvals) : FateOf(i)' = obj[i].status
         /\ \A i \in Ids \ Range(approvals) :
              FateOf(i)' = IF obj[i].status = "none" THEN "new" ELSE "gone"
         /\ \A i \in Range(disk.approvals) : FateOf(i) = disk.obj[i].status /\ obj[i].status # "none"
         /\ \A i \in Ids \ Range(disk.approvals) :
              FateOf(i) = IF obj[i].status = "none" THEN "new"
                          ELSE IF writer = i THEN "coming" ELSE "gone"
<1>1. wpc = "save" /\ disk' = Torn /\ wpc' = "write" /\ UNCHANGED <<approvals, obj, writer>>
  BY DEF Truncate
<1>2. disk # Torn
  BY <1>1 DEF ApprovalInv, OnDisk
<1>3. Book = disk /\ Book'.approvals = approvals /\ Book'.obj = obj
  BY <1>1, <1>2 DEF Book, Contents
<1>4. Range(approvals) \subseteq Ids
  BY RangeOfSeq DEF ApprovalInv, ApprovalTypeOK
<1>5. \A i \in Range(disk.approvals) : obj[i].status # "none"
  BY <1>2 DEF Underway
<1> QED BY <1>1, <1>2, <1>3, <1>4, <1>5 DEF FateOf, bookList

LEMMA PromiseRange == \A s : Promise!Range(s) = Range(s)
  BY DEF Promise!Range, Range

LEMMA CutEnters ==
  ASSUME ApprovalInv, Underway, ~damaged, Truncate, NEW w \in Ids, writer = w
  PROVE  Promise!Enter(w)
<1>1. wpc = "save" /\ wpc' = "write" /\ UNCHANGED <<approvals, obj, writer, asked, reply, damaged>>
  BY DEF Truncate
<1>2. SaveOfNew
  BY <1>1 DEF Underway
<1>3. /\ w \in Range(approvals) /\ Len(approvals) <= StoreLimit
      /\ \A i \in Range(approvals) : obj[i].status # "none"
      /\ Ids \cap Users = {}
  BY ApprovalAssumption DEF ApprovalInv, InSave, ApprovalTypeOK
<1>4. bookFate[w] = "coming"
  BY <1>2, CutBook, FatesAre DEF SaveOfNew, InFile
<1>5. bookList' = approvals /\ bookList = disk.approvals
  BY CutBook
<1>6. Range(approvals) \subseteq Range(disk.approvals) \cup {w}
  BY <1>2 DEF SaveOfNew, InFile
<1>7. Promise!OldestGoFirst
  <2>1. \A a \in DOMAIN disk.approvals : bookFate[disk.approvals[a]] = disk.obj[disk.approvals[a]].status
    BY CutBook, FatesAre, FileIsTyped DEF ApprovalInv
  <2> QED BY <1>2, <1>5, <2>1, PromiseRange DEF SaveOfNew, Promise!OldestGoFirst
<1>8. bookFate' = [Promise!Thinned EXCEPT ![w] = "pending"]
  <2>1. FateOf(w)' = "pending"
    BY <1>2, <1>3, CutBook DEF SaveOfNew
  <2>2. ASSUME NEW i \in Ids \ {w}
        PROVE  FateOf(i)' = IF i \in Range(disk.approvals) \ Range(approvals) THEN "gone" ELSE FateOf(i)
    <3>1. CASE i \in Range(approvals)
      <4>1. i \in Range(disk.approvals) /\ disk.obj[i] = obj[i]
        BY <1>2, <2>2, <3>1 DEF SaveOfNew, InFile
      <4> QED BY <3>1, <4>1, CutBook
    <3>2. CASE i \notin Range(approvals)
      BY <2>2, <3>2, CutBook
    <3> QED BY <3>1, <3>2
  <2>3. bookFate' = [i \in Ids |-> FateOf(i)'] /\ bookFate = [i \in Ids |-> FateOf(i)]
    BY DEF bookFate
  <2>4. Promise!Thinned = [i \in Ids |-> IF i \in Range(disk.approvals) \ Range(approvals)
                                         THEN "gone" ELSE bookFate[i]]
    BY <1>5, PromiseRange DEF Promise!Thinned
  <2> QED BY <2>1, <2>2, <2>3, <2>4
<1>9. bookPhase' = bookPhase
  <2>1. \A u \in Users : asked[u].id # Nil => reply[u] # "none"
    BY <1>3 DEF ApprovalInv, Asking
  <2>2. \A u \in Users : PhaseOf(u)' = PhaseOf(u)
    BY <1>1, <2>1 DEF PhaseOf
  <2> QED BY <2>2, PhasesStay
<1> QED BY <1>1, <1>3, <1>4, <1>5, <1>6, <1>7, <1>8, <1>9, PromiseRange DEF Promise!Enter

LEMMA CutSettles ==
  ASSUME ApprovalInv, Underway, ~damaged, Truncate, NEW w \in Users, writer = w
  PROVE  Promise!Settle(w)
<1>1. wpc = "save" /\ wpc' = "write" /\ UNCHANGED <<approvals, obj, writer, asked, reply, damaged>>
  BY DEF Truncate
<1>a. SaveOfDecision
  BY <1>1 DEF Underway
<1>2. PICK k \in Ids : k = asked[w].id
  BY <1>a DEF SaveOfDecision
<1>3. /\ asked[w].id # Nil /\ reply[w] = "none"
      /\ obj[k].status = asked[w].status
      /\ Ids \cap Users = {}
  BY <1>2, ApprovalAssumption DEF ApprovalInv, Asking
<1>4. /\ k \in Range(disk.approvals) /\ k \in Range(approvals) /\ disk.obj[k].status = "pending"
      /\ \A j \in Range(approvals) \ {k} : j \in Range(disk.approvals) /\ disk.obj[j] = obj[j]
      /\ \A j \in Range(disk.approvals) : disk.obj[j].status = "pending" => j \in Range(approvals)
  BY <1>a, <1>2 DEF SaveOfDecision, InFile
<1>5. bookList' = approvals /\ bookList = disk.approvals /\ bookFate[k] = "pending"
  BY <1>2, <1>4, CutBook, FatesAre
<1>6. \A i \in Range(disk.approvals) : bookFate[i] = "pending" => i \in Range(approvals)
  BY <1>4, CutBook, FatesAre, FileIsTyped DEF ApprovalInv
<1>7. bookFate' = [Promise!Thinned EXCEPT ![k] = asked[w].status]
  <2>1. FateOf(k)' = asked[w].status
    BY <1>3, <1>4, CutBook
  <2>2. ASSUME NEW i \in Ids \ {k}
        PROVE  FateOf(i)' = IF i \in Range(disk.approvals) \ Range(approvals) THEN "gone" ELSE FateOf(i)
    <3>1. CASE i \in Range(approvals)
      <4>1. i \in Range(disk.approvals) /\ disk.obj[i] = obj[i]
        BY <1>4, <2>2, <3>1
      <4> QED BY <3>1, <4>1, CutBook
    <3>2. CASE i \notin Range(approvals)
      <4>1. w # i
        BY <1>3, <2>2
      <4> QED BY <2>2, <3>2, <4>1, CutBook
    <3> QED BY <3>1, <3>2
  <2>3. bookFate' = [i \in Ids |-> FateOf(i)'] /\ bookFate = [i \in Ids |-> FateOf(i)]
    BY DEF bookFate
  <2>4. Promise!Thinned = [i \in Ids |-> IF i \in Range(disk.approvals) \ Range(approvals)
                                         THEN "gone" ELSE bookFate[i]]
    BY <1>5, PromiseRange DEF Promise!Thinned
  <2> QED BY <1>2, <2>1, <2>2, <2>3, <2>4
<1>8. /\ bookPhase[w] = "asking"
      /\ bookPhase' = [bookPhase EXCEPT ![w] = "decided"]
  <2>1. \A u \in Users \ {w} : asked[u].id # Nil => reply[u] # "none"
    BY DEF ApprovalInv, Asking
  <2>2. PhaseOf(w) = "asking" /\ PhaseOf(w)' = "decided"
    BY <1>1, <1>3 DEF PhaseOf
  <2>3. \A u \in Users \ {w} : PhaseOf(u)' = PhaseOf(u)
    BY <1>1, <2>1 DEF PhaseOf
  <2> QED BY <2>2, <2>3, PhaseMoves, FatesAre
<1>9. Range(approvals) \subseteq Range(disk.approvals)
  BY <1>4
<1> QED BY <1>1, <1>2, <1>5, <1>6, <1>7, <1>8, <1>9, PromiseRange DEF Promise!Settle, Promise!Hears

(* The operation returns: who decided hears of it.                         *)
LEMMA ReturnTells ==
  ASSUME ApprovalInv, Underway, ~damaged, Return, NEW w, writer = w
  PROVE  \/ w \in Users /\ Promise!Tell(w)
         \/ UNCHANGED <<bookList, bookFate, asked, bookPhase, damaged>>
<1>1. /\ wpc = "return" /\ wpc' = "idle" /\ writer' = Nil
      /\ UNCHANGED <<disk, obj, approvals, asked, damaged>>
      /\ reply' = IF w \in Users THEN [reply EXCEPT ![w] = "ok"] ELSE reply
  BY DEF Return
<1>2. disk # Torn
  BY <1>1 DEF ApprovalInv, OnDisk
<1>3. Book = disk /\ Book' = disk /\ bookList' = bookList
  BY <1>1, <1>2, SameBook
<1>4. bookFate' = bookFate
  <2>1. \A i \in Ids : FateOf(i)' = FateOf(i)
    BY <1>1, <1>3 DEF FateOf
  <2> QED BY <2>1, FatesStay
<1>5. \A u \in Users : asked[u].id # Nil /\ reply[u] = "none" => u = w
  BY DEF ApprovalInv, Asking
<1>6. CASE w \in Users
  <2>1. asked[w].id # Nil /\ reply[w] = "none"
    BY <1>6 DEF ApprovalInv, Asking
  <2>2. reply'[w] = "ok" /\ \A u \in Users \ {w} : reply'[u] = reply[u]
    BY <1>1, <1>6 DEF ApprovalInv, ApprovalTypeOK
  <2>3. PhaseOf(w) = "decided" /\ PhaseOf(w)' = "ok"
    BY <1>1, <2>1, <2>2 DEF PhaseOf
  <2>4. \A u \in Users \ {w} : PhaseOf(u)' = PhaseOf(u)
    BY <1>1, <1>5, <2>2 DEF PhaseOf
  <2>5. bookPhase[w] = "decided" /\ bookPhase' = [bookPhase EXCEPT ![w] = "ok"]
    BY <1>6, <2>3, <2>4, PhaseMoves, FatesAre
  <2> QED BY <1>1, <1>3, <1>4, <1>6, <2>5 DEF Promise!Tell, Promise!Hears
<1>7. CASE w \notin Users
  <2>1. \A u \in Users : PhaseOf(u)' = PhaseOf(u)
    BY <1>1, <1>5, <1>7 DEF PhaseOf
  <2> QED BY <1>1, <1>3, <1>4, <2>1, PhasesStay
<1> QED BY <1>6, <1>7

(* A death takes what had not entered, and the answers.                    *)
LEMMA CrashDies ==
  ASSUME ApprovalInv, Underway, ~damaged, ~damaged', Crash
  PROVE  Promise!Die
<1>1. /\ wpc # "write" /\ wpc' = "idle" /\ writer' = Nil /\ damaged' = damaged
      /\ UNCHANGED <<disk, obj, asked>>
      /\ reply' = [u \in Users |-> IF asked[u].id # Nil /\ reply[u] = "none"
                                   THEN "lost" ELSE reply[u]]
  BY DEF Crash, ApprovalInv, ApprovalTypeOK
<1>2. disk # Torn
  BY <1>1 DEF ApprovalInv, OnDisk
<1>3. Book = disk /\ Book' = disk /\ bookList' = bookList
  BY <1>1, <1>2, SameBook
<1>4. \A i \in Range(disk.approvals) : disk.obj[i].status \in Statuses
  BY <1>2, FileIsTyped DEF ApprovalInv, Items
<1>5. ASSUME NEW i \in Ids PROVE FateOf(i)' = IF FateOf(i) = "coming" THEN "gone" ELSE FateOf(i)
  <2>1. Nil # i
    BY ApprovalAssumption
  <2>2. CASE i \in Range(disk.approvals)
    <3>1. FateOf(i)' = disk.obj[i].status /\ FateOf(i) = disk.obj[i].status
      BY <1>3, <2>2 DEF FateOf
    <3>2. disk.obj[i].status # "coming"
      BY <1>4, <2>2 DEF Statuses
    <3> QED BY <3>1, <3>2
  <2>3. CASE i \notin Range(disk.approvals)
    BY <1>1, <1>3, <2>1, <2>3 DEF FateOf
  <2> QED BY <2>2, <2>3
<1>6. ASSUME NEW u \in Users
      PROVE  PhaseOf(u)' = IF PhaseOf(u) \in {"asking", "decided"} THEN "lost" ELSE PhaseOf(u)
  <2>1. reply[u] \in {"none", "ok", "error", "lost"}
    BY DEF ApprovalInv, ApprovalTypeOK
  <2>2. asked[u].id = Nil => reply[u] = "none"
    BY DEF ApprovalInv, Asking
  <2>3. reply'[u] = IF asked[u].id # Nil /\ reply[u] = "none" THEN "lost" ELSE reply[u]
    BY <1>1
  <2> QED BY <1>1, <2>1, <2>2, <2>3 DEF PhaseOf
<1>7. bookFate' = [i \in Ids |-> IF bookFate[i] = "coming" THEN "gone" ELSE bookFate[i]]
  BY <1>5 DEF bookFate
<1>8. bookPhase' = [u \in Users |-> IF bookPhase[u] \in {"asking", "decided"} THEN "lost"
                                    ELSE bookPhase[u]]
  BY <1>6 DEF bookPhase
<1> QED BY <1>1, <1>3, <1>7, <1>8 DEF Promise!Die

(* The file is written, the clock ticks, the store is loaded again.        *)
LEMMA OthersStutter ==
  ASSUME ApprovalInv, Underway, ~damaged,
         Write \/ ApprovalTick \/ NewApprovalStore \/ UNCHANGED approvalVars
  PROVE  UNCHANGED <<bookList, bookFate, asked, bookPhase, damaged>>
<1>1. CASE Write
  <2>1. /\ wpc = "write" /\ wpc' = "return" /\ disk' = Contents
        /\ UNCHANGED <<obj, approvals, writer, asked, reply, damaged>>
    BY <1>1 DEF Write
  <2>2. disk = Torn /\ Contents \in Files
    BY <2>1 DEF Underway, ApprovalInv, ApprovalTypeOK, Contents, Files
  <2>3. Book = Contents /\ Book' = Contents
    BY <2>1, <2>2, ApprovalAssumption DEF Book
  <2>4. \A i \in Ids : FateOf(i)' = FateOf(i)
    BY <2>1, <2>3 DEF FateOf
  <2>5. \A u \in Users : PhaseOf(u)' = PhaseOf(u)
    BY <2>1 DEF PhaseOf
  <2> QED BY <2>1, <2>3, <2>4, <2>5, FatesStay, PhasesStay DEF bookList
<1>2. CASE NewApprovalStore
  <2>1. /\ UNCHANGED <<disk, writer, wpc, asked, reply, damaged>>
        /\ wpc = "idle"
    BY <1>2 DEF NewApprovalStore, ApprovalInv, InSave
  <2>2. disk # Torn
    BY <2>1 DEF ApprovalInv, OnDisk
  <2>3. Book = disk /\ Book' = disk /\ bookList' = bookList
    BY <2>1, <2>2, SameBook
  <2>4. \A i \in Ids : i \notin Range(disk.approvals) => obj'[i] = obj[i]
    BY <1>2, <2>2 DEF NewApprovalStore
  <2>5. \A i \in Ids : FateOf(i)' = FateOf(i)
    BY <2>1, <2>3, <2>4 DEF FateOf
  <2>6. \A u \in Users : PhaseOf(u)' = PhaseOf(u)
    BY <2>1 DEF PhaseOf
  <2> QED BY <2>1, <2>3, <2>5, <2>6, FatesStay, PhasesStay
<1>3. CASE ApprovalTick \/ UNCHANGED approvalVars
  <2>1. UNCHANGED <<disk, obj, approvals, writer, wpc, asked, reply, damaged>>
    BY <1>3 DEF ApprovalTick, approvalVars
  <2>2. Book' = Book
    BY <2>1 DEF Book, Contents
  <2>3. \A i \in Ids : FateOf(i)' = FateOf(i)
    BY <2>1, <2>2 DEF FateOf
  <2>4. \A u \in Users : PhaseOf(u)' = PhaseOf(u)
    BY <2>1 DEF PhaseOf
  <2> QED BY <2>1, <2>2, <2>3, <2>4, FatesStay, PhasesStay DEF bookList
<1> QED BY <1>1, <1>2, <1>3

LEMMA PromiseStarts ==
  ASSUME ApprovalInit
  PROVE  Promise!Init
<1>1. /\ disk.approvals = approvals /\ disk.obj = obj /\ disk # Torn
      /\ Range(approvals) = Legacy /\ Len(approvals) <= StoreLimit
  <2>1. disk.approvals = approvals /\ disk.obj = obj
    BY DEF ApprovalInit
  <2>2. ApprovalInv
    BY ApprovalStarts
  <2>3. Range(approvals) = Legacy
    BY ApprovalAssumption, SetToSeqIs DEF ApprovalInit
  <2> QED BY <2>1, <2>2, <2>3 DEF ApprovalInv, ApprovalTypeOK, OnDisk, ApprovalInit
<1>2. Book = disk /\ bookList = approvals
  BY <1>1 DEF Book, bookList
<1>3. /\ \A i \in Legacy : obj[i].status = "accepted"
      /\ \A i \in Ids \ Legacy : obj[i].status = "none"
  BY ApprovalAssumption DEF ApprovalInit, Fresh
<1>4. \A i \in Ids : bookFate[i] = IF i \in Range(bookList) THEN "accepted" ELSE "new"
  BY <1>1, <1>2, <1>3, FatesAre DEF FateOf
<1>5. \A u \in Users : asked[u].id = Nil
  BY DEF ApprovalInit
<1>6. bookPhase = [u \in Users |-> "idle"]
  BY DEF ApprovalInit, bookPhase, PhaseOf
<1>7. ~damaged = TRUE
  BY DEF ApprovalInit
<1> QED BY <1>1, <1>2, <1>4, <1>5, <1>6, <1>7, PromiseRange DEF Promise!Init

(* Every step of the store is one of DecideOnce, or stutters there.        *)
LEMMA PromiseKept ==
  ASSUME ApprovalInv, Underway, [ApprovalNext]_approvalVars
  PROVE  [Promise!Next]_(Promise!vars)
<1> SUFFICES ASSUME ~damaged' PROVE Promise!Next \/ UNCHANGED Promise!vars
  BY DEF Promise!Next
<1>0. ~damaged
  BY DEF ApprovalNext, Add, Decide, Truncate, Write, WriteFails, Return, ApprovalTick, Crash,
         NewApprovalStore, approvalVars
<1>1. ASSUME NEW i \in Ids, Add(i) PROVE Promise!Next
  BY <1>0, <1>1, AddSubmits DEF Promise!Next
<1>2. ASSUME NEW u \in Users, NEW i \in Ids, NEW s \in {"accepted", "rejected"}, Decide(u, i, s)
      PROVE  Promise!Next
  <2>1. Taken(u, i, s) \/ (~Decidable(i) /\ Refused(u, i, s))
    BY <1>2 DEF Decide, Taken, Refused
  <2> QED BY <1>0, <2>1, TakenAsks, RefusedRefuses DEF Promise!Next
<1>3. CASE Truncate
  <2>1. PICK w \in Ids \cup Users : writer = w
    BY <1>3 DEF Truncate, ApprovalInv, ApprovalTypeOK, InSave
  <2>2. w \in Ids => Promise!Enter(w)
    BY <1>0, <1>3, <2>1, CutEnters
  <2>3. w \in Users => Promise!Settle(w)
    BY <1>0, <1>3, <2>1, CutSettles
  <2> QED BY <2>1, <2>2, <2>3 DEF Promise!Next
<1>4. CASE Return
  <2>1. PICK w : writer = w
    OBVIOUS
  <2> QED BY <1>0, <1>4, <2>1, ReturnTells DEF Promise!Next, Promise!vars
<1>5. CASE Crash
  BY <1>0, <1>5, CrashDies DEF Promise!Next
<1>6. CASE Write \/ ApprovalTick \/ NewApprovalStore \/ UNCHANGED approvalVars
  BY <1>0, <1>6, OthersStutter DEF Promise!vars
<1>7. ~WriteFails
  BY DEF WriteFails
<1> QED BY <1>1, <1>2, <1>3, <1>4, <1>5, <1>6, <1>7 DEF ApprovalNext

(* The store implements DecideOnce for every limit, lifetime and number of *)
(* deaths: an item enters once, one request decides it, and what was told  *)
(* stays true, until a write fails or is torn.                             *)
THEOREM PromiseIsKept == ApprovalSpec => RefinesDecideOnce
<1>1. ApprovalInit => ApprovalInv /\ Underway /\ Promise!Init
  BY ApprovalStarts, UnderwayStarts, PromiseStarts
<1>2. Underway /\ ApprovalInv /\ [ApprovalNext]_approvalVars => Underway'
  BY UnderwayKept
<1>3. Underway /\ ApprovalInv /\ [ApprovalNext]_approvalVars => [Promise!Next]_(Promise!vars)
  BY PromiseKept
<1> QED BY <1>1, <1>2, <1>3, ApprovalsCorrect, PTL DEF ApprovalSpec, RefinesDecideOnce, Promise!Spec
-----------------------------------------------------------------------------
Saves == {"index", "count", "write"}
Places == {"new", "ensure", "load", "trim", "ask", "index", "count", "write", "reply", "done"}
Early == {"new", "ensure", "load"}
Messages == [by : Chats \cup {"old"}, role : {"user", "assistant"}, stamp : Nat]
Savings  == [role : {"none", "user", "assistant"}, stamp : Nat, count : Nat]

ConvTyped ==
  /\ backend \in {"es", "mysql", "mem"}
  /\ listed \in [ConvIds -> Nat \cup {Absent}]
  /\ stored \in [ConvIds -> SUBSET Messages]
  /\ \A c \in ConvIds : IsFiniteSet(stored[c])
  /\ clock \in Nat
  /\ at \in [Chats -> Places]
  /\ conv \in [Chats -> ConvIds] /\ saving \in [Chats -> Savings]
  /\ history = [r \in Chats |-> history[r]] /\ given = [r \in Chats |-> given[r]]
  /\ summaries = [k \in DOMAIN summaries |-> summaries[k]]
  /\ deleting \subseteq ConvIds
  /\ lone \subseteq Chats /\ steady \subseteq ConvIds /\ deletes \in 0..MaxDeletes

(* Every message has a stamp of its own, no newer than the clock; what is  *)
(* yet to be stored has one too.                                           *)
Stamped ==
  /\ \A c \in ConvIds : \A x \in stored[c] : x.stamp <= clock
  /\ \A c \in ConvIds : \A x, y \in stored[c] : x.stamp = y.stamp => x = y
  /\ \A r \in Chats : at[r] = "index" =>
       /\ saving[r].role # "none"
       /\ saving[r].stamp <= clock
       /\ \A c \in ConvIds : \A x \in stored[c] : x.stamp # saving[r].stamp
       /\ \A q \in Chats \ {r} : at[q] = "index" => saving[q].stamp # saving[r].stamp

(* Where the requests are.                                                 *)
Chatting ==
  /\ \A r \in Chats : conv[r] \in FixedIds \cup {r}
  /\ \A r \in Chats : at[r] = "new" => conv[r] = r
  /\ \A r \in Chats : at[r] = "ensure" => conv[r] \in FixedIds
  /\ \A r \in Chats : at[r] \in {"count", "write"} => backend = "es"
  /\ \A r \in lone : at[r] # "new"

(* MySQL and memory count right.                                           *)
Counted ==
  backend # "es" =>
    /\ deleting = {}
    /\ \A c \in ConvIds :
          IF listed[c] = Absent THEN stored[c] = {} ELSE listed[c] = Cardinality(stored[c])

(* Nobody else saves, and what has been counted is what there is.          *)
Alone ==
  \A r \in lone :
    /\ at[r] \in Saves => \A q \in Chats \ {r} : conv[q] = conv[r] => at[q] \notin Saves
    /\ at[r] = "write" => saving[r].count = Cardinality(stored[conv[r]])

ConvCounts == ConvTyped /\ Stamped /\ Chatting /\ Counted /\ Alone

-----------------------------------------------------------------------------
(* What a step does to what the invariants are about.                      *)

LEMMA GoIs ==
  ASSUME ConvTyped, NEW r \in Chats, NEW from, NEW to \in Places, Go(r, from, to)
  PROVE  /\ at[r] = from /\ at'[r] = to /\ \A q \in Chats \ {r} : at'[q] = at[q]
         /\ at' \in [Chats -> Places]
  BY DEF Go, ConvTyped

(* Create makes an entry with count 0 and, in memory, no messages.         *)
Created(c) ==
  /\ backend' = backend
  /\ \A d \in ConvIds \ {c} : listed'[d] = listed[d] /\ stored'[d] = stored[d]
  /\ IF backend = "mysql" /\ Exists(c) THEN listed'[c] = listed[c] ELSE listed'[c] = 0
  /\ IF backend = "mem" THEN stored'[c] = {} ELSE stored'[c] = stored[c]

LEMMA CreateIs ==
  ASSUME ConvTyped, NEW c \in ConvIds, Create(c)
  PROVE  /\ Created(c)
         /\ listed' \in [ConvIds -> Nat \cup {Absent}]
         /\ stored' \in [ConvIds -> SUBSET Messages]
         /\ \A d \in ConvIds : IsFiniteSet(stored'[d])
<1>1. IsFiniteSet({})
  BY FS_EmptySet
<1> QED BY <1>1 DEF Create, ConvTyped, Created

(* A message is one more, with the stamp of its save.                      *)
LEMMA InsertIs ==
  ASSUME ConvTyped, Stamped, NEW r \in Chats, at[r] = "index", Insert(r)
  PROVE  /\ stored' \in [ConvIds -> SUBSET Messages]
         /\ \A d \in ConvIds : IsFiniteSet(stored'[d])
         /\ stored'[conv[r]] = stored[conv[r]] \cup {Message(r)}
         /\ Message(r) \notin stored[conv[r]] /\ Message(r).stamp = saving[r].stamp
         /\ Cardinality(stored'[conv[r]]) = Cardinality(stored[conv[r]]) + 1
         /\ \A d \in ConvIds \ {conv[r]} : stored'[d] = stored[d]
<1>1. Message(r) \in Messages /\ Message(r).stamp = saving[r].stamp
  BY DEF Message, Messages, Stamped, ConvTyped, Savings
<1>2. Message(r) \notin stored[conv[r]]
  BY <1>1 DEF Stamped, ConvTyped
<1> DEFINE m == Message(r)
<1> HIDE DEF m
<1>3. stored' = [stored EXCEPT ![conv[r]] = stored[conv[r]] \cup {m}] /\ conv[r] \in ConvIds
  BY DEF Insert, m, ConvTyped
<1>4. IsFiniteSet(stored[conv[r]])
  BY <1>3 DEF ConvTyped
<1>5. IsFiniteSet(stored[conv[r]] \cup {m})
      /\ Cardinality(stored[conv[r]] \cup {m}) = Cardinality(stored[conv[r]]) + 1
  BY <1>2, <1>4, FS_AddElement DEF m
<1>6. stored'[conv[r]] = stored[conv[r]] \cup {m} /\ \A d \in ConvIds \ {conv[r]} : stored'[d] = stored[d]
  BY <1>3 DEF ConvTyped
<1>7. stored' \in [ConvIds -> SUBSET Messages]
  BY <1>1, <1>3 DEF ConvTyped, m
<1> QED BY <1>1, <1>2, <1>5, <1>6, <1>7 DEF ConvTyped, m

LEMMA ConvSteps ==
  ASSUME [ConvNext]_convVars
  PROVE  \/ \E r \in Chats : StartNew(r)
         \/ \E r \in Chats, c \in FixedIds : StartFixed(r, c)
         \/ \E r \in Chats : EnsureCreates(r)
         \/ \E r \in Chats : LoadHistory(r)
         \/ \E r \in Chats : TrimHistory(r)
         \/ \E r \in Chats, role \in {"user", "assistant"} : BeginSave(r, role)
         \/ \E r \in Chats : SaveAtOnce(r)
         \/ \E r \in Chats : BulkIndex(r)
         \/ \E r \in Chats : CountMessages(r)
         \/ \E r \in Chats : WriteCount(r)
         \/ \E r \in Chats : NoReply(r)
         \/ \E C \in SUBSET ConvIds : Delete(C)
         \/ \E C \in SUBSET ConvIds : DeleteAtOnce(C)
         \/ DeleteMessages
         \/ UNCHANGED convVars
  BY DEF ConvNext, ChatStep

LEMMA ConvTypedKept ==
  ASSUME ConvTyped, Stamped, [ConvNext]_convVars
  PROVE  ConvTyped'
<1> USE DEF Places
<1>0. FixedIds \subseteq ConvIds /\ Chats \subseteq ConvIds /\ MaxDeletes \in Nat
  BY ConversationsAssumption DEF ConvIds
<1>1. ASSUME NEW r \in Chats, StartNew(r) PROVE ConvTyped'
  <2>1. CASE Create(r) /\ Go(r, "new", "ask")
    BY <1>0, <1>1, <2>1, CreateIs, GoIs DEF StartNew, Created, chat, user, ConvTyped
  <2>2. CASE MayFail /\ Go(r, "new", "done")
    BY <1>0, <1>1, <2>2, GoIs DEF StartNew, MayFail, data, chat, user, ConvTyped
  <2> QED BY <1>1, <2>1, <2>2 DEF StartNew
<1>2. ASSUME NEW r \in Chats, NEW c \in FixedIds, StartFixed(r, c) PROVE ConvTyped'
  BY <1>0, <1>2 DEF StartFixed, Go, MayFail, data, user, ConvTyped
<1>3. ASSUME NEW r \in Chats, EnsureCreates(r) PROVE ConvTyped'
  <2>1. CASE Create(conv[r])
    <3>1. conv[r] \in ConvIds
      BY DEF ConvTyped
    <3> QED BY <1>3, <2>1, <3>1, CreateIs, GoIs DEF EnsureCreates, Interrupt, Created, chat, user, ConvTyped
  <2>2. CASE MayFail
    BY <1>3, <2>2, GoIs DEF EnsureCreates, Interrupt, MayFail, data, chat, user, ConvTyped
  <2> QED BY <1>3, <2>1, <2>2 DEF EnsureCreates
<1>4. ASSUME NEW r \in Chats, LoadHistory(r) PROVE ConvTyped'
  BY <1>4 DEF LoadHistory, Go, data, user, ConvTyped
<1>5. ASSUME NEW r \in Chats, TrimHistory(r) PROVE ConvTyped'
  <2> DEFINE h == history[r]
             n == IF Len(h) > Budget THEN Len(h) - Budget ELSE 0
             dropped == SubSeq(h, 1, n)
             kept == SubSeq(h, n + 1, Len(h))
             key == CacheKey(conv[r], dropped)
  <2>1. /\ Go(r, "trim", "ask")
        /\ \E t \in IF n = 0 THEN {<<<<>>, summaries>>} ELSE Summarize(key, dropped) :
             given' = [given EXCEPT ![r] = [summed |-> t[1], kept |-> kept]] /\ summaries' = t[2]
        /\ UNCHANGED <<data, clock, conv, saving, history, user, lone, steady>>
    BY <1>5 DEF TrimHistory
  <2> HIDE DEF h, n, dropped, kept, key
  <2>2. summaries' = [k \in DOMAIN summaries' |-> summaries'[k]]
    BY <2>1 DEF Summarize, ConvTyped
  <2>3. given' = [q \in Chats |-> given'[q]]
    BY <2>1 DEF ConvTyped
  <2> QED BY <2>1, <2>2, <2>3, GoIs DEF data, user, ConvTyped
<1>6. ASSUME NEW r \in Chats, NEW role \in {"user", "assistant"}, BeginSave(r, role) PROVE ConvTyped'
  <2>1. saving' \in [Chats -> Savings] /\ clock' \in Nat
    BY <1>6 DEF BeginSave, Savings, ConvTyped
  <2>2. history' = [q \in Chats |-> history'[q]] /\ given' = [q \in Chats |-> given'[q]]
    BY <1>6 DEF BeginSave, ConvTyped
  <2>3. lone' \subseteq Chats
    BY <1>6 DEF BeginSave, ConvTyped
  <2> QED BY <1>6, <2>1, <2>2, <2>3, GoIs DEF BeginSave, data, user, ConvTyped
<1>7. ASSUME NEW r \in Chats, Over(r) PROVE /\ saving' \in [Chats -> Savings]
                                            /\ UNCHANGED <<conv, history, given, summaries>>
  BY <1>7 DEF Over, Idle, Savings, ConvTyped
<1>8. ASSUME NEW r \in Chats, SaveAtOnce(r) PROVE ConvTyped'
  <2>0. Go(r, "index", Saved(r)) /\ Saved(r) \in {"reply", "done"} /\ Over(r)
        /\ UNCHANGED <<backend, clock, user, lone, steady>>
    BY <1>8 DEF SaveAtOnce, Saved
  <2>1. at[r] = "index" /\ at' \in [Chats -> Places]
    BY <2>0, GoIs
  <2>2. CASE Exists(conv[r]) /\ Insert(r) /\ listed' = [listed EXCEPT ![conv[r]] = @ + 1]
    <3>1. listed' \in [ConvIds -> Nat \cup {Absent}]
      BY <2>2 DEF ConvTyped, Exists
    <3> QED BY <1>7, <2>0, <2>1, <2>2, <3>1, InsertIs DEF user, ConvTyped
  <2>3. CASE UNCHANGED <<stored, listed>>
    BY <1>7, <2>0, <2>1, <2>3 DEF user, ConvTyped
  <2> QED BY <1>8, <2>2, <2>3 DEF SaveAtOnce
<1>9. ASSUME NEW r \in Chats, BulkIndex(r) PROVE ConvTyped'
  <2>1. CASE Go(r, "index", "count") /\ Insert(r) /\ UNCHANGED lone /\ UNCHANGED chat
    BY <1>9, <2>1, GoIs, InsertIs DEF BulkIndex, chat, user, ConvTyped
  <2>2. CASE at[r] = "index" /\ Failing(r) /\ UNCHANGED stored /\ Over(r)
    <3>1. Saved(r) \in {"reply", "done"}
      BY DEF Saved
    <3> QED BY <1>7, <1>9, <2>2, <3>1, GoIs DEF BulkIndex, Failing, user, ConvTyped
  <2> QED BY <1>9, <2>1, <2>2 DEF BulkIndex
<1>10. ASSUME NEW r \in Chats, CountMessages(r) PROVE ConvTyped'
  <2>1. Cardinality(stored[conv[r]]) \in Nat
    BY FS_CardinalityType DEF ConvTyped
  <2>2. saving' \in [Chats -> Savings]
    BY <1>10, <2>1 DEF CountMessages, Savings, ConvTyped
  <2> QED BY <1>10, <2>2, GoIs DEF CountMessages, data, user, ConvTyped
<1>11. ASSUME NEW r \in Chats, WriteCount(r) PROVE ConvTyped'
  <2>1. Saved(r) \in {"reply", "done"} /\ Over(r) /\ UNCHANGED <<backend, stored, clock, user, steady>>
    BY <1>11 DEF Saved, WriteCount
  <2>2. lone' \subseteq Chats /\ Go(r, "write", Saved(r))
    BY <1>11 DEF WriteCount, Failing, ConvTyped, Go
  <2>3. listed' \in [ConvIds -> Nat \cup {Absent}]
    <3>1. saving[r].count \in Nat
      BY DEF ConvTyped, Savings
    <3> QED BY <1>11, <3>1 DEF WriteCount, ConvTyped
  <2> QED BY <1>7, <2>1, <2>2, <2>3, GoIs DEF user, ConvTyped
<1>12. ASSUME NEW r \in Chats, NoReply(r) PROVE ConvTyped'
  BY <1>12, GoIs DEF NoReply, data, chat, user, ConvTyped
<1>13. ASSUME NEW C \in SUBSET ConvIds, DeleteAsked(C)
       PROVE  /\ deletes' \in 0..MaxDeletes /\ lone' \subseteq Chats /\ steady' \subseteq ConvIds
              /\ UNCHANGED <<backend, clock, at, chat>>
  BY <1>0, <1>13 DEF DeleteAsked, ConvTyped
<1>14. ASSUME NEW C \in SUBSET ConvIds, Delete(C) PROVE ConvTyped'
  <2>1. listed' \in [ConvIds -> Nat \cup {Absent}]
    BY <1>14 DEF Delete, Without, ConvTyped
  <2> QED BY <1>13, <1>14, <2>1 DEF Delete, chat, ConvTyped
<1>15. ASSUME NEW C \in SUBSET ConvIds, DeleteAtOnce(C) PROVE ConvTyped'
  <2>1. listed' \in [ConvIds -> Nat \cup {Absent}]
    BY <1>15 DEF DeleteAtOnce, Without, ConvTyped
  <2>2. stored' \in [ConvIds -> SUBSET Messages] /\ \A c \in ConvIds : IsFiniteSet(stored'[c])
    BY <1>15, FS_EmptySet DEF DeleteAtOnce, Without, ConvTyped
  <2> QED BY <1>13, <1>15, <2>1, <2>2 DEF DeleteAtOnce, chat, ConvTyped
<1>16. CASE DeleteMessages
  <2>1. stored' \in [ConvIds -> SUBSET Messages] /\ \A c \in ConvIds : IsFiniteSet(stored'[c])
    BY <1>16, FS_EmptySet DEF DeleteMessages, Without, ConvTyped
  <2> QED BY <1>16, <2>1 DEF DeleteMessages, chat, ConvTyped
<1>17. CASE UNCHANGED convVars
  BY <1>17 DEF convVars, data, chat, user, ConvTyped
<1> QED BY <1>1, <1>2, <1>3, <1>4, <1>5, <1>6, <1>8, <1>9, <1>10, <1>11, <1>12, <1>14, <1>15,
           <1>16, <1>17, ConvSteps

LEMMA SavedPlaces == ASSUME NEW r PROVE Saved(r) \in {"reply", "done"} /\ Saved(r) \in Places
  BY DEF Saved, Places

(* A step that stores nothing and begins no save.                          *)
LEMMA StampedQuietly ==
  ASSUME Stamped, clock' = clock,
         \A c \in ConvIds : stored'[c] \subseteq stored[c],
         \A q \in Chats : at'[q] = "index" => at[q] = "index" /\ saving'[q] = saving[q]
  PROVE  Stamped'
  BY DEF Stamped

LEMMA StampedInsert ==
  ASSUME ConvTyped, Stamped, NEW r \in Chats, at[r] = "index", Insert(r), clock' = clock,
         at'[r] # "index",
         \A q \in Chats : at'[q] = "index" => at[q] = "index" /\ saving'[q] = saving[q]
  PROVE  Stamped'
<1>1. /\ stored'[conv[r]] = stored[conv[r]] \cup {Message(r)} /\ Message(r).stamp = saving[r].stamp
      /\ \A d \in ConvIds \ {conv[r]} : stored'[d] = stored[d]
  BY InsertIs
<1>2. /\ saving[r].stamp <= clock
      /\ \A c \in ConvIds : \A x \in stored[c] : x.stamp # saving[r].stamp
      /\ \A q \in Chats : at'[q] = "index" => saving'[q].stamp # saving[r].stamp /\ at[q] = "index"
  BY DEF Stamped
<1>3. \A c \in ConvIds : \A x \in stored'[c] :
        (x = Message(r) /\ c = conv[r]) \/ x \in stored[c]
  BY <1>1
<1>4. \A c \in ConvIds : \A x \in stored'[c] : x.stamp <= clock'
  BY <1>1, <1>2, <1>3 DEF Stamped
<1>5. \A c \in ConvIds : \A x, y \in stored'[c] : x.stamp = y.stamp => x = y
  BY <1>1, <1>2, <1>3 DEF Stamped
<1>6. ASSUME NEW q \in Chats, at'[q] = "index"
      PROVE  /\ saving'[q].role # "none"
             /\ saving'[q].stamp <= clock'
             /\ \A c \in ConvIds : \A x \in stored'[c] : x.stamp # saving'[q].stamp
             /\ \A p \in Chats \ {q} : at'[p] = "index" => saving'[p].stamp # saving'[q].stamp
  <2>1. at[q] = "index" /\ saving'[q] = saving[q]
    BY <1>6
  <2>2. \A c \in ConvIds : \A x \in stored'[c] : x.stamp # saving'[q].stamp
    BY <1>1, <1>2, <1>3, <1>6, <2>1 DEF Stamped
  <2> QED BY <2>1, <2>2 DEF Stamped
<1> QED BY <1>4, <1>5, <1>6 DEF Stamped

LEMMA StampedKept ==
  ASSUME ConvTyped, Stamped, [ConvNext]_convVars
  PROVE  Stamped'
<1>1. ASSUME NEW r \in Chats, StartNew(r) PROVE Stamped'
  <2>1. r \in ConvIds /\ clock' = clock /\ saving' = saving
    BY <1>1 DEF ConvIds, StartNew, chat
  <2>2. \A c \in ConvIds : stored'[c] \subseteq stored[c]
    BY <1>1, <2>1, CreateIs DEF StartNew, MayFail, data, Created
  <2>3. \A q \in Chats : at'[q] = "index" => at[q] = "index"
    BY <1>1 DEF StartNew, Go, ConvTyped
  <2> QED BY <2>1, <2>2, <2>3, StampedQuietly
<1>2. ASSUME NEW r \in Chats, NEW c \in FixedIds, StartFixed(r, c) PROVE Stamped'
  <2>1. \A q \in Chats : at'[q] = "index" => at[q] = "index"
    BY <1>2 DEF StartFixed, Go, ConvTyped
  <2> QED BY <1>2, <2>1, StampedQuietly DEF StartFixed, data
<1>3. ASSUME NEW r \in Chats, EnsureCreates(r) PROVE Stamped'
  <2>1. conv[r] \in ConvIds /\ clock' = clock /\ saving' = saving
    BY <1>3 DEF EnsureCreates, chat, ConvTyped
  <2>2. \A c \in ConvIds : stored'[c] \subseteq stored[c]
    BY <1>3, <2>1, CreateIs DEF EnsureCreates, MayFail, data, Created
  <2>3. \A q \in Chats : at'[q] = "index" => at[q] = "index"
    BY <1>3 DEF EnsureCreates, Go, ConvTyped
  <2> QED BY <2>1, <2>2, <2>3, StampedQuietly
<1>4. ASSUME NEW r \in Chats, LoadHistory(r) \/ TrimHistory(r) \/ NoReply(r) PROVE Stamped'
  <2>1. \A q \in Chats : at'[q] = "index" => at[q] = "index"
    BY <1>4 DEF LoadHistory, TrimHistory, NoReply, Go, ConvTyped
  <2>2. UNCHANGED <<data, clock, saving>>
    BY <1>4 DEF LoadHistory, TrimHistory, NoReply, chat
  <2> QED BY <2>1, <2>2, StampedQuietly DEF data
<1>6. ASSUME NEW r \in Chats, NEW role \in {"user", "assistant"}, BeginSave(r, role) PROVE Stamped'
  <2>1. /\ clock' = clock + 1 /\ saving'[r].stamp = clock + 1 /\ saving'[r].role = role
        /\ \A q \in Chats \ {r} : saving'[q] = saving[q] /\ at'[q] = at[q]
        /\ stored' = stored
    BY <1>6 DEF BeginSave, data, Go, ConvTyped
  <2>2. clock \in Nat /\ \A c \in ConvIds : \A x \in stored[c] : x.stamp \in Nat /\ x.stamp <= clock
    BY DEF ConvTyped, Stamped, Messages
  <2>3. \A q \in Chats : saving[q].stamp \in Nat /\ (at[q] = "index" => saving[q].stamp <= clock)
    BY DEF ConvTyped, Stamped, Savings
  <2>4. \A c \in ConvIds : \A x \in stored'[c] : x.stamp <= clock'
    BY <2>1, <2>2
  <2>5. ASSUME NEW q \in Chats, at'[q] = "index"
        PROVE  /\ saving'[q].role # "none"
               /\ saving'[q].stamp <= clock'
               /\ \A c \in ConvIds : \A x \in stored'[c] : x.stamp # saving'[q].stamp
               /\ \A p \in Chats \ {q} : at'[p] = "index" => saving'[p].stamp # saving'[q].stamp
    <3>1. CASE q = r
      <4>1. saving'[q].stamp = clock + 1 /\ saving'[q].role # "none"
        BY <2>1, <3>1
      <4>2. \A c \in ConvIds : \A x \in stored'[c] : x.stamp # saving'[q].stamp
        BY <2>1, <2>2, <4>1
      <4>3. \A p \in Chats \ {q} : at'[p] = "index" => saving'[p].stamp # saving'[q].stamp
        BY <2>1, <2>2, <2>3, <3>1, <4>1
      <4> QED BY <2>1, <2>2, <4>1, <4>2, <4>3
    <3>2. CASE q # r
      <4>1. at[q] = "index" /\ saving'[q] = saving[q]
        BY <2>1, <2>5, <3>2
      <4>2. saving'[q].stamp <= clock' /\ saving'[q].role # "none"
        BY <2>1, <2>2, <2>3, <4>1 DEF Stamped
      <4>3. \A c \in ConvIds : \A x \in stored'[c] : x.stamp # saving'[q].stamp
        BY <2>1, <4>1 DEF Stamped
      <4>4. ASSUME NEW p \in Chats \ {q}, at'[p] = "index" PROVE saving'[p].stamp # saving'[q].stamp
        <5>1. CASE p = r
          BY <2>1, <2>2, <2>3, <4>1, <5>1
        <5>2. CASE p # r
          BY <2>1, <4>1, <4>4, <5>2 DEF Stamped
        <5> QED BY <5>1, <5>2
      <4> QED BY <4>2, <4>3, <4>4
    <3> QED BY <3>1, <3>2
  <2> QED BY <2>1, <2>4, <2>5 DEF Stamped
<1>7. ASSUME NEW r \in Chats, SaveAtOnce(r) PROVE Stamped'
  <2>1. /\ at[r] = "index" /\ at'[r] # "index" /\ clock' = clock
        /\ \A q \in Chats : at'[q] = "index" => at[q] = "index" /\ saving'[q] = saving[q]
    BY <1>7, SavedPlaces DEF SaveAtOnce, Go, Over, ConvTyped
  <2>2. CASE Insert(r)
    BY <2>1, <2>2, StampedInsert
  <2>3. CASE stored' = stored
    BY <2>1, <2>3, StampedQuietly
  <2> QED BY <1>7, <2>2, <2>3 DEF SaveAtOnce
<1>8. ASSUME NEW r \in Chats, BulkIndex(r) PROVE Stamped'
  <2>1. /\ at[r] = "index" /\ at'[r] # "index" /\ clock' = clock
        /\ \A q \in Chats : at'[q] = "index" => at[q] = "index" /\ saving'[q] = saving[q]
    BY <1>8, SavedPlaces DEF BulkIndex, Failing, Go, Over, ConvTyped, chat
  <2>2. CASE Insert(r)
    BY <2>1, <2>2, StampedInsert
  <2>3. CASE stored' = stored
    BY <2>1, <2>3, StampedQuietly
  <2> QED BY <1>8, <2>2, <2>3 DEF BulkIndex
<1>9. ASSUME NEW r \in Chats, CountMessages(r) \/ WriteCount(r) PROVE Stamped'
  <2>1. /\ clock' = clock /\ stored' = stored
        /\ \A q \in Chats : at'[q] = "index" => at[q] = "index" /\ saving'[q] = saving[q]
    BY <1>9, SavedPlaces DEF CountMessages, WriteCount, Failing, Go, Over, ConvTyped, data
  <2> QED BY <2>1, StampedQuietly
<1>10. ASSUME NEW C \in SUBSET ConvIds, Delete(C) \/ DeleteAtOnce(C) PROVE Stamped'
  <2>1. clock' = clock /\ at' = at /\ saving' = saving
    BY <1>10 DEF Delete, DeleteAtOnce, DeleteAsked, chat
  <2>2. \A c \in ConvIds : stored'[c] \subseteq stored[c]
    BY <1>10 DEF Delete, DeleteAtOnce, Without
  <2> QED BY <2>1, <2>2, StampedQuietly
<1>11. CASE DeleteMessages
  <2>1. clock' = clock /\ at' = at /\ saving' = saving
    BY <1>11 DEF DeleteMessages, chat
  <2>2. \A c \in ConvIds : stored'[c] \subseteq stored[c]
    BY <1>11 DEF DeleteMessages, Without
  <2> QED BY <2>1, <2>2, StampedQuietly
<1>12. CASE UNCHANGED convVars
  BY <1>12, StampedQuietly DEF convVars, data, chat
<1> QED BY <1>1, <1>2, <1>3, <1>4, <1>6, <1>7, <1>8, <1>9, <1>10, <1>11, <1>12, ConvSteps

LEMMA ChattingKept ==
  ASSUME ConvTyped, Chatting, [ConvNext]_convVars
  PROVE  Chatting'
<1>1. ASSUME NEW r \in Chats, StartNew(r) PROVE Chatting'
  BY <1>1 DEF StartNew, Go, chat, Create, MayFail, data, ConvTyped, Chatting
<1>2. ASSUME NEW r \in Chats, NEW c \in FixedIds, StartFixed(r, c) PROVE Chatting'
  BY <1>2 DEF StartFixed, Go, MayFail, data, ConvTyped, Chatting
<1>3. ASSUME NEW r \in Chats, EnsureCreates(r) PROVE Chatting'
  BY <1>3 DEF EnsureCreates, Go, Create, Interrupt, MayFail, data, chat, ConvTyped, Chatting
<1>4. ASSUME NEW r \in Chats, LoadHistory(r) \/ TrimHistory(r) \/ NoReply(r) PROVE Chatting'
  BY <1>4 DEF LoadHistory, TrimHistory, NoReply, Go, data, chat, ConvTyped, Chatting
<1>6. ASSUME NEW r \in Chats, NEW role \in {"user", "assistant"}, BeginSave(r, role) PROVE Chatting'
  <2>1. lone' \subseteq lone \cup {r}
    BY <1>6 DEF BeginSave
  <2>2. at[r] \in {"ask", "reply"} /\ at' = [at EXCEPT ![r] = "index"]
    BY <1>6 DEF BeginSave, Go
  <2>3. at'[r] = "index" /\ \A q \in Chats \ {r} : at'[q] = at[q]
    BY <2>2 DEF ConvTyped
  <2>4. conv' = conv /\ backend' = backend
    BY <1>6 DEF BeginSave, data
  <2> QED BY <2>1, <2>2, <2>3, <2>4 DEF Chatting
<1>7. ASSUME NEW r \in Chats, SaveAtOnce(r) \/ BulkIndex(r) \/ CountMessages(r) \/ WriteCount(r)
      PROVE  Chatting'
  <2> DEFINE Moved == /\ at'[r] \notin {"new", "ensure"}
                      /\ \A q \in Chats \ {r} : at'[q] = at[q]
                      /\ at'[r] \in {"count", "write"} => backend = "es"
                      /\ lone' \subseteq lone
                      /\ conv' = conv /\ backend' = backend
  <2>1. ASSUME SaveAtOnce(r) PROVE Moved
    BY <2>1, SavedPlaces DEF SaveAtOnce, Go, Over, ConvTyped
  <2>2. ASSUME BulkIndex(r) PROVE Moved
    BY <2>2, SavedPlaces DEF BulkIndex, Failing, Go, Over, chat, ConvTyped
  <2>3. ASSUME CountMessages(r) PROVE Moved
    BY <2>3 DEF CountMessages, Go, data, ConvTyped, Chatting
  <2>4. ASSUME WriteCount(r) PROVE Moved
    BY <2>4, SavedPlaces DEF WriteCount, Failing, Go, Over, ConvTyped
  <2>5. Moved
    BY <1>7, <2>1, <2>2, <2>3, <2>4
  <2>6. lone \subseteq Chats
    BY DEF ConvTyped
  <2> QED BY <2>5, <2>6 DEF Chatting
<1>8. ASSUME NEW C \in SUBSET ConvIds, Delete(C) \/ DeleteAtOnce(C) PROVE Chatting'
  BY <1>8 DEF Delete, DeleteAtOnce, DeleteAsked, chat, Chatting
<1>9. CASE DeleteMessages \/ UNCHANGED convVars
  BY <1>9 DEF DeleteMessages, convVars, data, chat, Chatting
<1> QED BY <1>1, <1>2, <1>3, <1>4, <1>6, <1>7, <1>8, <1>9, ConvSteps

LEMMA CountedQuietly ==
  ASSUME Counted, UNCHANGED data, deleting' = deleting
  PROVE  Counted'
  BY DEF Counted, data

LEMMA CountedCreate ==
  ASSUME ConvTyped, Counted, NEW c \in ConvIds, Create(c), deleting' = deleting
  PROVE  Counted'
<1>1. Created(c) /\ Cardinality({}) = 0
  BY CreateIs, FS_EmptySet
<1> QED BY <1>1 DEF Created, Counted, Exists, ConvTyped, Absent

LEMMA CountedKept ==
  ASSUME ConvTyped, Stamped, Chatting, Counted, [ConvNext]_convVars
  PROVE  Counted'
<1>1. ASSUME NEW r \in Chats, StartNew(r) PROVE Counted'
  <2>1. r \in ConvIds /\ deleting' = deleting
    BY <1>1 DEF ConvIds, StartNew, user
  <2> QED BY <1>1, <2>1, CountedCreate, CountedQuietly DEF StartNew, MayFail
<1>2. ASSUME NEW r \in Chats, NEW c \in FixedIds, StartFixed(r, c) PROVE Counted'
  BY <1>2, CountedQuietly DEF StartFixed, user
<1>3. ASSUME NEW r \in Chats, EnsureCreates(r) PROVE Counted'
  <2>1. conv[r] \in ConvIds /\ deleting' = deleting
    BY <1>3 DEF ConvTyped, EnsureCreates, user
  <2> QED BY <1>3, <2>1, CountedCreate, CountedQuietly DEF EnsureCreates, MayFail
<1>4. ASSUME NEW r \in Chats, LoadHistory(r) \/ TrimHistory(r) \/ NoReply(r) \/ CountMessages(r) PROVE Counted'
  BY <1>4, CountedQuietly DEF LoadHistory, TrimHistory, NoReply, CountMessages, user
<1>6. ASSUME NEW r \in Chats, NEW role \in {"user", "assistant"}, BeginSave(r, role) PROVE Counted'
  BY <1>6, CountedQuietly DEF BeginSave, user
<1>7. ASSUME NEW r \in Chats, SaveAtOnce(r) PROVE Counted'
  <2>1. at[r] = "index" /\ UNCHANGED <<backend, deleting>>
    BY <1>7 DEF SaveAtOnce, Go, user
  <2>2. CASE Exists(conv[r]) /\ Insert(r) /\ listed' = [listed EXCEPT ![conv[r]] = @ + 1]
    <3>1. /\ Cardinality(stored'[conv[r]]) = Cardinality(stored[conv[r]]) + 1
          /\ \A d \in ConvIds \ {conv[r]} : stored'[d] = stored[d]
      BY <2>1, <2>2, InsertIs
    <3>2. /\ conv[r] \in ConvIds /\ listed'[conv[r]] = listed[conv[r]] + 1
          /\ listed[conv[r]] \in Nat
          /\ \A d \in ConvIds \ {conv[r]} : listed'[d] = listed[d]
      BY <2>2 DEF ConvTyped, Exists
    <3> QED BY <2>1, <3>1, <3>2 DEF Counted, Absent
  <2>3. CASE UNCHANGED <<stored, listed>>
    BY <2>1, <2>3, CountedQuietly DEF data
  <2> QED BY <1>7, <2>2, <2>3 DEF SaveAtOnce
<1>8. ASSUME NEW r \in Chats, BulkIndex(r) \/ WriteCount(r) PROVE Counted'
  BY <1>8 DEF BulkIndex, WriteCount, Go, Failing, Chatting, Counted
<1>9. ASSUME NEW C \in SUBSET ConvIds, Delete(C) PROVE Counted'
  BY <1>9 DEF Delete, DeleteAsked, Counted
<1>10. ASSUME NEW C \in SUBSET ConvIds, DeleteAtOnce(C) PROVE Counted'
  BY <1>10 DEF DeleteAtOnce, DeleteAsked, Without, Counted
<1>11. CASE DeleteMessages
  BY <1>11 DEF DeleteMessages, Counted
<1>12. CASE UNCHANGED convVars
  BY <1>12, CountedQuietly DEF convVars, user
<1> QED BY <1>1, <1>2, <1>3, <1>4, <1>6, <1>7, <1>8, <1>9, <1>10, <1>11, <1>12, ConvSteps

(* A step of one request that begins no save and stores nothing.           *)
LEMMA AloneQuietly ==
  ASSUME Alone, lone \subseteq Chats, lone' \subseteq lone,
         \A q \in lone' : stored'[conv[q]] = stored[conv[q]],
         \A q \in lone' : saving'[q] = saving[q] \/ at'[q] # "write",
         \A q \in Chats : at'[q] \in Saves => at[q] \in Saves /\ conv'[q] = conv[q],
         \A q \in lone' : at'[q] = "write" => at[q] = "write"
  PROVE  Alone'
  BY DEF Alone, Saves

LEMMA AloneKept ==
  ASSUME ConvTyped, Stamped, Chatting, Counted, Alone, [ConvNext]_convVars
  PROVE  Alone'
<1>0. lone \subseteq Chats
  BY DEF ConvTyped
<1>1. ASSUME NEW r \in Chats, StartNew(r) PROVE Alone'
  <2>1. /\ at[r] = "new" /\ at'[r] \in {"ask", "done"} /\ \A q \in Chats \ {r} : at'[q] = at[q]
        /\ UNCHANGED <<lone, saving, conv>>
    BY <1>1 DEF StartNew, Go, chat, ConvTyped
  <2>2. /\ conv[r] = r /\ r \notin lone /\ r \in ConvIds /\ r \notin FixedIds
        /\ \A q \in Chats \ {r} : conv[q] # r /\ conv[q] \in ConvIds
    BY <2>1, ConversationsAssumption DEF Chatting, ConvIds, ConvTyped
  <2>3. \A q \in Chats \ {r} : stored'[conv[q]] = stored[conv[q]]
    BY <1>1, <2>2, CreateIs DEF StartNew, MayFail, data, Created
  <2> QED BY <1>0, <2>1, <2>2, <2>3, AloneQuietly DEF Saves
<1>2. ASSUME NEW r \in Chats, NEW c \in FixedIds, StartFixed(r, c) PROVE Alone'
  <2>1. /\ at'[r] \in {"ensure", "load"} /\ \A q \in Chats \ {r} : at'[q] = at[q]
        /\ \A q \in Chats \ {r} : conv'[q] = conv[q]
        /\ at[r] = "new" /\ UNCHANGED <<lone, saving, stored>>
    BY <1>2 DEF StartFixed, Go, data, ConvTyped, MayFail
  <2> QED BY <1>0, <2>1 DEF Alone, Saves, Chatting
<1>3. ASSUME NEW r \in Chats, EnsureCreates(r) PROVE Alone'
  <2>1. /\ at'[r] = "load" /\ \A q \in Chats \ {r} : at'[q] = at[q]
        /\ lone' = lone \ (Writing(conv[r]) \cup {r}) /\ UNCHANGED <<saving, conv>>
    BY <1>3 DEF EnsureCreates, Go, Interrupt, chat, ConvTyped
  <2>2. \A q \in lone' : at'[q] \in Saves => conv[q] # conv[r]
    BY <1>0, <2>1 DEF Writing, Using, Saves
  <2>3. \A d \in ConvIds \ {conv[r]} : stored'[d] = stored[d]
    BY <1>3, CreateIs DEF EnsureCreates, MayFail, data, Created, ConvTyped
  <2>4. \A q \in lone' : at'[q] = "write" => stored'[conv[q]] = stored[conv[q]]
    BY <1>0, <2>1, <2>2, <2>3 DEF Saves, ConvTyped
  <2> QED BY <1>0, <2>1, <2>4 DEF Alone, Saves
<1>4. ASSUME NEW r \in Chats, LoadHistory(r) \/ TrimHistory(r) \/ NoReply(r) PROVE Alone'
  <2>1. /\ at'[r] \in {"trim", "ask", "done"} /\ \A q \in Chats \ {r} : at'[q] = at[q]
        /\ UNCHANGED <<saving, conv, lone, stored>>
    BY <1>4 DEF LoadHistory, TrimHistory, NoReply, Go, data, chat, ConvTyped
  <2> QED BY <1>0, <2>1, AloneQuietly DEF Saves
<1>5. ASSUME NEW r \in Chats, NEW role \in {"user", "assistant"}, BeginSave(r, role) PROVE Alone'
  <2>1. /\ at'[r] = "index" /\ \A q \in Chats \ {r} : at'[q] = at[q] /\ saving'[q] = saving[q]
        /\ UNCHANGED <<stored, conv>>
    BY <1>5 DEF BeginSave, Go, data, ConvTyped
  <2>2. lone' = (lone \ (Writing(conv[r]) \cup {r})) \cup
               (IF Writing(conv[r]) = {} /\ conv[r] \notin deleting THEN {r} ELSE {})
    BY <1>5 DEF BeginSave
  <2>3. ASSUME NEW q \in lone', at'[q] \in Saves, NEW p \in Chats \ {q}, conv'[p] = conv'[q]
        PROVE  at'[p] \notin Saves
    <3>1. CASE q = r
      <4>1. Writing(conv[r]) = {}
        BY <2>2, <3>1
      <4> QED BY <2>1, <2>3, <3>1, <4>1 DEF Writing, Using, Saves
    <3>2. CASE q # r /\ p = r
      <4>1. q \in lone \ Writing(conv[r])
        BY <2>2, <3>2
      <4> QED BY <1>0, <2>1, <2>3, <3>2, <4>1 DEF Writing, Using, Saves
    <3>3. CASE q # r /\ p # r
      <4>1. q \in lone
        BY <2>2, <3>3
      <4> QED BY <1>0, <2>1, <2>3, <3>3, <4>1 DEF Alone
    <3> QED BY <3>1, <3>2, <3>3
  <2>4. \A q \in lone' : at'[q] = "write" => q \in lone /\ q # r
    BY <2>1, <2>2
  <2> QED BY <1>0, <2>1, <2>3, <2>4 DEF Alone
<1>6. ASSUME NEW r \in Chats, SaveAtOnce(r) PROVE Alone'
  <2>1. /\ at'[r] \in {"reply", "done"} /\ \A q \in Chats \ {r} : at'[q] = at[q]
        /\ UNCHANGED <<conv, lone>> /\ backend # "es"
    BY <1>6, SavedPlaces DEF SaveAtOnce, Go, Over, ConvTyped
  <2>2. \A q \in lone : at'[q] # "write"
    BY <1>0, <2>1 DEF Chatting
  <2> QED BY <1>0, <2>1, <2>2 DEF Alone, Saves
<1>7. ASSUME NEW r \in Chats, BulkIndex(r) PROVE Alone'
  <2>1. CASE Go(r, "index", "count") /\ Insert(r) /\ UNCHANGED lone /\ UNCHANGED chat
    <3>1. /\ at[r] = "index" /\ at'[r] = "count" /\ \A q \in Chats \ {r} : at'[q] = at[q]
          /\ UNCHANGED <<conv, lone, saving>>
      BY <2>1 DEF Go, chat, ConvTyped
    <3>2. \A d \in ConvIds \ {conv[r]} : stored'[d] = stored[d]
      BY <2>1, <3>1, InsertIs
    <3>3. \A q \in lone : at'[q] = "write" => at[q] = "write" /\ stored'[conv[q]] = stored[conv[q]]
      BY <1>0, <3>1, <3>2 DEF Alone, Saves, ConvTyped
    <3> QED BY <1>0, <3>1, <3>3 DEF Alone, Saves
  <2>2. CASE at[r] = "index" /\ Failing(r) /\ UNCHANGED stored /\ Over(r)
    <3>1. /\ at'[r] \in {"reply", "done"} /\ \A q \in Chats \ {r} : at'[q] = at[q]
          /\ \A q \in Chats \ {r} : saving'[q] = saving[q]
          /\ conv' = conv /\ lone' \subseteq lone
      BY <2>2, SavedPlaces DEF Failing, Go, Over, ConvTyped
    <3> QED BY <1>0, <2>2, <3>1, AloneQuietly DEF Saves
  <2> QED BY <1>7, <2>1, <2>2 DEF BulkIndex
<1>8. ASSUME NEW r \in Chats, CountMessages(r) PROVE Alone'
  <2>1. /\ at[r] = "count" /\ at'[r] = "write" /\ \A q \in Chats \ {r} : at'[q] = at[q]
        /\ UNCHANGED <<stored, conv, lone>>
        /\ saving'[r].count = Cardinality(stored[conv[r]])
        /\ \A q \in Chats \ {r} : saving'[q] = saving[q]
    BY <1>8 DEF CountMessages, Go, data, ConvTyped, Savings
  <2> QED BY <1>0, <2>1 DEF Alone, Saves
<1>9. ASSUME NEW r \in Chats, WriteCount(r) PROVE Alone'
  <2>1. /\ at'[r] \in {"reply", "done"} /\ \A q \in Chats \ {r} : at'[q] = at[q]
        /\ \A q \in Chats \ {r} : saving'[q] = saving[q]
        /\ conv' = conv /\ stored' = stored
    BY <1>9, SavedPlaces DEF WriteCount, Failing, Go, Over, ConvTyped
  <2>2. lone' \subseteq lone
    BY <1>9 DEF WriteCount, Failing
  <2> QED BY <1>0, <2>1, <2>2, AloneQuietly DEF Saves
<1>10. ASSUME NEW C \in SUBSET ConvIds, Delete(C) \/ DeleteAtOnce(C) PROVE Alone'
  <2>1. UNCHANGED <<at, conv, saving>> /\ lone' = {q \in lone : conv[q] \notin C}
    BY <1>10 DEF Delete, DeleteAtOnce, DeleteAsked, chat
  <2>2. \A q \in lone' : stored'[conv[q]] = stored[conv[q]]
    BY <1>0, <1>10, <2>1 DEF Delete, DeleteAtOnce, Without, ConvTyped
  <2> QED BY <1>0, <2>1, <2>2, AloneQuietly
<1>11. CASE DeleteMessages
  <2>1. UNCHANGED <<at, conv, saving>> /\ lone' = {q \in lone : conv[q] \notin deleting}
    BY <1>11 DEF DeleteMessages, chat
  <2>2. \A q \in lone' : stored'[conv[q]] = stored[conv[q]]
    BY <1>0, <1>11, <2>1 DEF DeleteMessages, Without, ConvTyped
  <2> QED BY <1>0, <2>1, <2>2, AloneQuietly
<1>12. CASE UNCHANGED convVars
  BY <1>0, <1>12, AloneQuietly DEF convVars, data, chat
<1> QED BY <1>1, <1>2, <1>3, <1>4, <1>5, <1>6, <1>7, <1>8, <1>9, <1>10, <1>11, <1>12, ConvSteps

LEMMA ConvCountsInit == ConvInit => ConvCounts
<1> SUFFICES ASSUME ConvInit PROVE ConvCounts
  OBVIOUS
<1>0. PICK n \in {0, 2} :
        /\ listed = [c \in ConvIds |-> IF c \in FixedIds /\ n > 0 THEN n ELSE Absent]
        /\ stored = [c \in ConvIds |-> IF c \in FixedIds THEN {Old(i) : i \in 1..n} ELSE {}]
        /\ clock = n
  BY DEF ConvInit
<1>1. \A i \in 1..n : Old(i) \in Messages /\ Old(i).stamp = i
  BY <1>0 DEF Old, Messages
<1>2. IsFiniteSet({Old(i) : i \in 1..n}) /\ Cardinality({Old(i) : i \in 1..n}) = n
  <2> DEFINE f == [i \in 1..n |-> Old(i)]
             S == {Old(i) : i \in 1..n}
  <2>1. n \in Nat /\ IsFiniteSet(1..n) /\ Cardinality(1..n) = n
    BY <1>0, FS_Interval
  <2>2. f \in Bijection(1..n, S)
    BY <1>1 DEF Bijection, Injection, Surjection, IsInjective
  <2> HIDE DEF f, S
  <2>3. IsFiniteSet(S) /\ Cardinality(S) = n
    BY <2>1, <2>2, FS_Bijection DEF ExistsBijection
  <2> QED BY <2>3 DEF S
<1>3. ConvTyped
  <2>1. listed \in [ConvIds -> Nat \cup {Absent}]
    BY <1>0
  <2>2. stored \in [ConvIds -> SUBSET Messages] /\ \A c \in ConvIds : IsFiniteSet(stored[c])
    <3> DEFINE S == {Old(i) : i \in 1..n}
    <3>1. S \in SUBSET Messages
      BY <1>1
    <3>2. IsFiniteSet(S) /\ IsFiniteSet({})
      BY <1>2, FS_EmptySet
    <3>3. stored = [c \in ConvIds |-> IF c \in FixedIds THEN S ELSE {}]
      BY <1>0
    <3> HIDE DEF S
    <3> QED BY <3>1, <3>2, <3>3
  <2>3. saving \in [Chats -> Savings]
    BY DEF ConvInit, Idle, Savings
  <2>4. conv \in [Chats -> ConvIds] /\ at \in [Chats -> Places] /\ clock \in Nat
    BY <1>0 DEF ConvInit, ConvIds, Places
  <2>5. deletes \in 0..MaxDeletes
    BY ConversationsAssumption DEF ConvInit
  <2>6. summaries = [k \in DOMAIN summaries |-> summaries[k]]
    BY DEF ConvInit
  <2> QED BY <2>1, <2>2, <2>3, <2>4, <2>5, <2>6 DEF ConvInit, ConvTyped
<1>4. Stamped
  <2>1. \A r \in Chats : at[r] = "new"
    BY DEF ConvInit
  <2>2. \A c \in ConvIds : \A x \in stored[c] : \E i \in 1..n : x = Old(i)
    BY <1>0
  <2>3. \A c \in ConvIds : \A x \in stored[c] : x.stamp <= clock
    BY <1>0, <1>1, <2>2
  <2>4. \A c \in ConvIds : \A x, y \in stored[c] : x.stamp = y.stamp => x = y
    BY <1>1, <2>2
  <2> QED BY <2>1, <2>3, <2>4 DEF Stamped
<1>5. Counted
  <2>1. \A c \in ConvIds : IF listed[c] = Absent THEN stored[c] = {} ELSE listed[c] = Cardinality(stored[c])
    BY <1>0, <1>2 DEF Absent
  <2> QED BY <2>1 DEF Counted, ConvInit
<1>6. Chatting /\ Alone
  BY DEF ConvInit, Chatting, Alone
<1> QED BY <1>3, <1>4, <1>5, <1>6 DEF ConvCounts

(* Where every request is, what it is about to store and what the counts   *)
(* are.                                                                    *)
THEOREM ConvCountsHold == ConvSpec => []ConvCounts
<1>1. ConvCounts /\ [ConvNext]_convVars => ConvCounts'
  BY ConvTypedKept, StampedKept, ChattingKept, CountedKept, AloneKept DEF ConvCounts
<1> QED BY ConvCountsInit, <1>1, PTL DEF ConvSpec

(* The conversations and the requests have their types, and no two messages*)
(* of a conversation have one time stamp.                                  *)
THEOREM ConversationsTyped == ConvSpec => []ConvTypeOK
<1>1. ConvCounts => ConvTypeOK
  BY DEF ConvCounts, ConvTyped, Stamped, ConvTypeOK, Places
<1> QED BY <1>1, ConvCountsHold, PTL

(* MySQL and memory always count right, and Elasticsearch after every save *)
(* that nothing overlaps and that does not fail.                           *)
THEOREM CountsRight == ConvSpec => CountsAreRight
<1> DEFINE Right ==
     /\ backend # "es" => \A c \in ConvIds :
          IF listed'[c] = Absent THEN stored'[c] = {} ELSE listed'[c] = Cardinality(stored'[c])
     /\ \A r \in lone' : at[r] = "write" /\ at'[r] # "write" /\ listed'[conv[r]] # Absent
          => listed'[conv[r]] = Cardinality(stored'[conv[r]])
<1>1. ConvCounts /\ ConvCounts' /\ [ConvNext]_convVars => Right
  <2> SUFFICES ASSUME ConvCounts, Counted', ConvTyped', [ConvNext]_convVars PROVE Right
    BY DEF ConvCounts
  <2>0. ConvTyped /\ Alone
    BY DEF ConvCounts
  <2>1. backend' = backend
    BY DEF ConvNext, ChatStep, StartNew, StartFixed, EnsureCreates, LoadHistory, TrimHistory,
           BeginSave, SaveAtOnce, BulkIndex, CountMessages, WriteCount, NoReply, Delete,
           DeleteAtOnce, DeleteAsked, DeleteMessages, Create, MayFail, convVars, data
  <2>2. ASSUME NEW r \in lone', at[r] = "write", at'[r] # "write"
        PROVE  WriteCount(r)
    <3>1. r \in Chats
      BY DEF ConvTyped
    <3>2. ASSUME NEW q \in Chats, q # r, at' = [at EXCEPT ![q] = at'[q]] PROVE FALSE
      BY <2>0, <2>2, <3>1, <3>2 DEF ConvTyped
    <3>3. ASSUME NEW q \in Chats, NEW from, NEW to, Go(q, from, to) PROVE q = r /\ from = "write"
      BY <2>0, <2>2, <3>1, <3>3 DEF ConvTyped, Go
    <3>4. ASSUME at' = at PROVE FALSE
      BY <2>2, <3>4
    <3>5. ASSUME NEW q \in Chats, StartNew(q) \/ EnsureCreates(q) \/ LoadHistory(q) \/ TrimHistory(q)
                                  \/ SaveAtOnce(q) \/ CountMessages(q) \/ NoReply(q)
          PROVE  FALSE
      BY <3>3, <3>5 DEF StartNew, EnsureCreates, LoadHistory, TrimHistory, SaveAtOnce, CountMessages, NoReply
    <3>6. ASSUME NEW q \in Chats, NEW c \in FixedIds, StartFixed(q, c) PROVE FALSE
      BY <3>3, <3>6 DEF StartFixed
    <3>7. ASSUME NEW q \in Chats, NEW role \in {"user", "assistant"}, BeginSave(q, role) PROVE FALSE
      BY <3>3, <3>7 DEF BeginSave
    <3>8. ASSUME NEW q \in Chats, BulkIndex(q) PROVE FALSE
      BY <3>3, <3>8 DEF BulkIndex, Failing
    <3>9. ASSUME NEW q \in Chats, WriteCount(q) PROVE q = r
      BY <3>3, <3>9 DEF WriteCount, Failing
    <3>10. ASSUME NEW C \in SUBSET ConvIds, Delete(C) \/ DeleteAtOnce(C) PROVE FALSE
      BY <3>4, <3>10 DEF Delete, DeleteAtOnce, DeleteAsked
    <3>11. CASE DeleteMessages \/ UNCHANGED convVars
      BY <3>4, <3>11 DEF DeleteMessages, convVars
    <3> QED BY <3>5, <3>6, <3>7, <3>8, <3>9, <3>10, <3>11, ConvSteps
  <2>3. ASSUME NEW r \in lone', at[r] = "write", at'[r] # "write", listed'[conv[r]] # Absent
        PROVE  listed'[conv[r]] = Cardinality(stored'[conv[r]])
    <3>1. WriteCount(r) /\ r \in Chats
      BY <2>2, <2>3 DEF ConvTyped
    <3>2. r \in lone /\ stored' = stored
          /\ listed' = IF Exists(conv[r]) THEN [listed EXCEPT ![conv[r]] = saving[r].count] ELSE listed
      BY <2>3, <3>1 DEF WriteCount, Failing
    <3>3. saving[r].count = Cardinality(stored[conv[r]])
      BY <2>0, <2>3, <3>2 DEF Alone
    <3> QED BY <2>0, <2>3, <3>1, <3>2, <3>3 DEF Exists, ConvTyped
  <2>4. backend # "es" => \A c \in ConvIds :
          IF listed'[c] = Absent THEN stored'[c] = {} ELSE listed'[c] = Cardinality(stored'[c])
    BY <2>1 DEF Counted
  <2> QED BY <2>3, <2>4
<1>2. ConvCounts /\ ConvCounts' /\ [ConvNext]_convVars => [Right]_convVars
  BY <1>1
<1> QED BY <1>2, ConvCountsHold, PTL DEF ConvSpec, CountsAreRight

(* A steady conversation has one user, and its messages only grow.         *)
Steady ==
  /\ steady \cap deleting = {}
  /\ \A r, q \in Chats : conv[r] = conv[q] /\ conv[r] \in steady /\ r # q =>
        at[r] \in {"new", "done"} \/ at[q] \in {"new", "done"}
  /\ \A r \in Chats : conv[r] \in steady =>
       /\ at[r] = "ensure" => listed[conv[r]] = Absent
       /\ at[r] = "index" => \A x \in stored[conv[r]] : x.stamp < saving[r].stamp
       /\ at[r] = "trim" => history[r] \in {<<>>, Oldest(stored[conv[r]], LoadLimit)}

(* The first messages of S.                                                *)
First(s, S) == /\ Len(s) \in Nat /\ Len(s) <= Cardinality(S) /\ DOMAIN s = 1..Len(s)
               /\ s = [i \in 1..Len(s) |-> s[i]]
               /\ \A i \in 1..Len(s) : s[i] = CHOOSE x \in Nth(S, i) : TRUE

(* What the cache has of a steady conversation are its first messages.     *)
Cached ==
  \A k \in DOMAIN summaries :
    /\ k[1] \in Chats => at[k[1]] # "new"
    /\ k[1] \in steady => Len(summaries[k]) = k[2] /\ First(summaries[k], stored[k[1]])
    /\ k[1] \in ConvIds
    /\ k = <<k[1], k[2]>>

(* What is not yet loaded or trimmed is empty.                             *)
Fed ==
  \A r \in Chats :
    /\ at[r] \in Early => history[r] = <<>>
    /\ at[r] \in Early \cup {"trim"} => given[r] = Nothing

ConvInv == ConvCounts /\ Steady /\ Cached /\ Fed /\ SummariesFit

-----------------------------------------------------------------------------
(* A newer message takes the place of none.                                *)
LEMMA FirstStays ==
  ASSUME NEW S \in SUBSET Messages, IsFiniteSet(S), NEW m \in Messages, m \notin S,
         \A x \in S : x.stamp < m.stamp, NEW s, First(s, S)
  PROVE  First(s, S \cup {m})
<1> DEFINE T == S \cup {m}
<1>1. Cardinality(T) = Cardinality(S) + 1 /\ Cardinality(S) \in Nat
  BY FS_AddElement, FS_CardinalityType
<1>2. \A x \in S \cup {m} : x.stamp \in Nat
  BY DEF Messages
<1>3. \A x \in S : {y \in T : y.stamp < x.stamp} = {y \in S : y.stamp < x.stamp}
  BY <1>2
<1>4. {y \in T : y.stamp < m.stamp} = S
  BY <1>2
<1>5. ASSUME NEW i \in 1..Len(s) PROVE Nth(T, i) = Nth(S, i)
  <2>1. i - 1 # Cardinality(S)
    BY <1>1 DEF First
  <2>2. m \notin Nth(T, i)
    BY <1>4, <2>1 DEF Nth
  <2> QED BY <1>3, <2>2 DEF Nth
<1>6. Len(s) <= Cardinality(T)
  BY <1>1 DEF First
<1> HIDE DEF T
<1>7. \A i \in 1..Len(s) : s[i] = CHOOSE x \in Nth(T, i) : TRUE
  BY <1>5 DEF First
<1> QED BY <1>6, <1>7 DEF First, T

(* What a store returns, and the part of it that is dropped.               *)
LEMMA OldestIs ==
  ASSUME NEW S, IsFiniteSet(S), NEW n \in Nat, NEW k \in Nat,
         k <= Len(Oldest(S, n))
  PROVE  /\ First(SubSeq(Oldest(S, n), 1, k), S)
         /\ Len(SubSeq(Oldest(S, n), 1, k)) = k
         /\ SubSeq(Oldest(S, n), 1, k) \o SubSeq(Oldest(S, n), k + 1, Len(Oldest(S, n))) = Oldest(S, n)
         /\ Len(Oldest(S, n)) \in Nat
<1> DEFINE h == Oldest(S, n)
           m == IF Cardinality(S) < n THEN Cardinality(S) ELSE n
           Pick(i) == CHOOSE x \in Nth(S, i) : TRUE
           d == SubSeq(h, 1, k)
<1>1. m \in Nat /\ m <= Cardinality(S) /\ Cardinality(S) \in Nat
  BY FS_CardinalityType
<1>2. h = [i \in 1..m |-> Pick(i)]
  BY DEF Oldest
<1> HIDE DEF m, Pick
<1> DEFINE R == {Pick(i) : i \in 1..m}
<1>3. h \in [1..m -> R]
  BY <1>2
<1>4. h \in Seq(R) /\ Len(h) = m /\ \A i \in 1..m : h[i] = Pick(i)
  BY <1>1, <1>2, <1>3
<1> HIDE DEF h, R
<1>5. k <= m
  BY <1>4 DEF h
<1>6. \A i \in 1..k : i \in 1..m
  BY <1>1, <1>5
<1>7. /\ d = [i \in 1..k |-> h[i]] /\ Len(d) = k /\ DOMAIN d = 1..k
  BY <1>1, <1>4, <1>5
<1>8. First(d, S)
  <2> HIDE DEF d
  <2>1. \A i \in 1..k : d[i] = Pick(i)
    BY <1>4, <1>6, <1>7
  <2>2. d = [i \in 1..k |-> d[i]]
    BY <1>7
  <2>3. k <= Cardinality(S)
    BY <1>1, <1>5
  <2> QED BY <1>7, <2>1, <2>2, <2>3 DEF First, Pick
<1>9. d \o SubSeq(h, k + 1, m) = h
  BY <1>1, <1>4, <1>5
<1> QED BY <1>1, <1>4, <1>7, <1>8, <1>9 DEF h, d

(* There is one sequence of the first k messages.                          *)
LEMMA FirstIsOne ==
  ASSUME NEW S, NEW s, NEW t, First(s, S), First(t, S), Len(s) = Len(t)
  PROVE  s = t
  BY DEF First

(* The third part of Steady, for one request.                              *)
Waits(r) ==
  /\ at[r] = "ensure" => listed[conv[r]] = Absent
  /\ at[r] = "index" => \A x \in stored[conv[r]] : x.stamp < saving[r].stamp
  /\ at[r] = "trim" => history[r] \in {<<>>, Oldest(stored[conv[r]], LoadLimit)}

(* A step of r in its conversation leaves the other users of steady ones   *)
(* where they are.                                                         *)
LEMMA SteadyStep ==
  ASSUME ConvTyped, Steady, NEW r \in Chats, at[r] \notin {"new", "done"},
         UNCHANGED <<conv, steady, deleting>>,
         \A q \in Chats \ {r} : /\ at'[q] = at[q] /\ saving'[q] = saving[q]
                                /\ history'[q] = history[q],
         \A d \in ConvIds \ {conv[r]} : listed'[d] = listed[d] /\ stored'[d] = stored[d],
         conv[r] \in steady => Waits(r)'
  PROVE  Steady'
<1>1. ASSUME NEW q \in Chats, NEW p \in Chats, conv[q] = conv[p], conv[q] \in steady, q # p
      PROVE  at'[q] \in {"new", "done"} \/ at'[p] \in {"new", "done"}
  BY <1>1 DEF Steady
<1>2. ASSUME NEW q \in Chats, conv[q] \in steady
      PROVE  Waits(q)'
  <2>1. CASE q = r
    BY <1>2, <2>1
  <2>2. CASE q # r /\ conv[q] = conv[r]
    <3>1. at'[q] \in {"new", "done"}
      BY <1>2, <2>2 DEF Steady
    <3> QED BY <3>1 DEF Waits
  <2>3. CASE conv[q] # conv[r]
    <3>1. UNCHANGED <<conv, listed[conv[q]], stored[conv[q]], at[q], saving[q], history[q]>>
      BY <2>3 DEF ConvTyped
    <3> QED BY <1>2, <3>1 DEF Steady, Waits
  <2> QED BY <2>1, <2>2, <2>3
<1> QED BY <1>1, <1>2 DEF Steady, Waits

LEMMA SteadyDelete ==
  ASSUME ConvTyped, Steady, NEW C, steady' = steady \ C, steady' \cap deleting' = {},
         UNCHANGED <<conv, at, saving, history>>,
         \A d \in ConvIds \ C : listed'[d] = listed[d] /\ stored'[d] = stored[d]
  PROVE  Steady'
<1>1. ASSUME NEW q \in Chats, conv[q] \in steady'
      PROVE  Waits(q)'
  <2>1. UNCHANGED <<conv, listed[conv[q]], stored[conv[q]], at[q], saving[q], history[q]>>
    BY <1>1 DEF ConvTyped
  <2> QED BY <1>1, <2>1 DEF Steady, Waits
<1> QED BY <1>1 DEF Steady, Waits

LEMMA SteadyKept ==
  ASSUME ConvCounts, Steady, Fed, [ConvNext]_convVars
  PROVE  Steady'
<1>0. ConvTyped /\ Stamped /\ Chatting /\ Counted /\ Chats \cap FixedIds = {}
  BY ConversationsAssumption DEF ConvCounts
<1>1. ASSUME NEW r \in Chats, StartNew(r) PROVE Steady'
  <2>1. /\ at[r] = "new" /\ at'[r] \in {"ask", "done"} /\ \A q \in Chats \ {r} : at'[q] = at[q]
        /\ UNCHANGED <<steady, saving, conv, history, deleting>>
    BY <1>0, <1>1 DEF StartNew, Go, chat, user, ConvTyped
  <2>2. /\ conv[r] = r /\ r \in ConvIds
        /\ \A q \in Chats \ {r} : conv[q] # r /\ conv[q] \in ConvIds
    BY <1>0, <2>1 DEF Chatting, ConvIds, ConvTyped
  <2>3. \A q \in Chats \ {r} : stored'[conv[q]] = stored[conv[q]] /\ listed'[conv[q]] = listed[conv[q]]
    BY <1>0, <1>1, <2>2, CreateIs DEF StartNew, MayFail, data, Created
  <2>4. ASSUME NEW q \in Chats, conv[q] \in steady PROVE Waits(q)'
    <3>1. CASE q = r
      BY <2>1, <3>1 DEF Waits
    <3>2. CASE q # r
      <4>1. UNCHANGED <<conv, listed[conv[q]], stored[conv[q]], at[q], saving[q], history[q]>>
        BY <2>1, <2>3, <3>2
      <4> QED BY <2>4, <4>1 DEF Steady, Waits
    <3> QED BY <3>1, <3>2
  <2>5. ASSUME NEW q \in Chats, NEW p \in Chats, conv[q] = conv[p], conv[q] \in steady, q # p
        PROVE  at'[q] \in {"new", "done"} \/ at'[p] \in {"new", "done"}
    <3>1. q # r /\ p # r
      BY <2>2, <2>5
    <3> QED BY <2>1, <2>5, <3>1 DEF Steady
  <2> QED BY <2>1, <2>4, <2>5 DEF Steady, Waits
<1>2. ASSUME NEW r \in Chats, NEW c \in FixedIds, StartFixed(r, c) PROVE Steady'
  <2>1. /\ at[r] = "new" /\ at'[r] \in {"ensure", "load"} /\ \A q \in Chats \ {r} : at'[q] = at[q]
        /\ at'[r] = "ensure" => ~Exists(c)
        /\ conv'[r] = c /\ \A q \in Chats \ {r} : conv'[q] = conv[q]
        /\ UNCHANGED <<listed, stored, saving, history, deleting>>
    BY <1>0, <1>2 DEF StartFixed, MayFail, Go, data, user, ConvTyped
  <2>2. steady' = IF Using(c) = {} THEN steady ELSE steady \ {c}
    BY <1>2 DEF StartFixed
  <2>3. c \in steady' => \A q \in Chats : conv[q] = c => at[q] \in {"new", "done"}
    BY <2>2 DEF Using
  <2>4. steady' \subseteq steady
    BY <2>2
  <2>5. ASSUME NEW q \in Chats, conv'[q] \in steady' PROVE Waits(q)'
    <3>1. CASE q = r
      BY <2>1, <3>1 DEF Waits, Exists
    <3>2. CASE q # r
      <4>1. UNCHANGED <<conv[q], listed, stored, at[q], saving[q], history[q]>>
        BY <2>1, <3>2
      <4> QED BY <2>4, <2>5, <4>1 DEF Steady, Waits
    <3> QED BY <3>1, <3>2
  <2>6. ASSUME NEW q \in Chats, NEW p \in Chats, conv'[q] = conv'[p], conv'[q] \in steady', q # p
        PROVE  at'[q] \in {"new", "done"} \/ at'[p] \in {"new", "done"}
    BY <2>1, <2>3, <2>4, <2>6 DEF Steady
  <2> QED BY <2>1, <2>4, <2>5, <2>6 DEF Steady, Waits
<1>3. ASSUME NEW r \in Chats, EnsureCreates(r) PROVE Steady'
  <2>1. /\ at[r] = "ensure" /\ at'[r] = "load" /\ \A q \in Chats \ {r} : at'[q] = at[q]
        /\ UNCHANGED <<steady, saving, conv, history, deleting>>
    BY <1>0, <1>3 DEF EnsureCreates, Go, chat, user, ConvTyped
  <2>2. \A d \in ConvIds \ {conv[r]} : stored'[d] = stored[d] /\ listed'[d] = listed[d]
    BY <1>0, <1>3, CreateIs DEF EnsureCreates, MayFail, data, Created, ConvTyped
  <2>3. Waits(r)'
    BY <2>1 DEF Waits
  <2> QED BY <1>0, <2>1, <2>2, <2>3, SteadyStep
<1>4. ASSUME NEW r \in Chats, LoadHistory(r) PROVE Steady'
  <2>1. /\ at[r] = "load" /\ at'[r] = "trim" /\ \A q \in Chats \ {r} : at'[q] = at[q]
        /\ UNCHANGED <<steady, saving, conv, deleting, stored, listed>>
        /\ \A q \in Chats \ {r} : history'[q] = history[q]
        /\ \/ history'[r] = Oldest(stored[conv[r]], LoadLimit)
           \/ history'[r] = history[r]
    BY <1>0, <1>4 DEF LoadHistory, Go, data, user, ConvTyped
  <2>2. history[r] = <<>>
    BY <2>1 DEF Fed, Early
  <2>3. Waits(r)'
    BY <2>1, <2>2 DEF Waits
  <2> QED BY <1>0, <2>1, <2>3, SteadyStep
<1>5. ASSUME NEW r \in Chats, TrimHistory(r) \/ NoReply(r) PROVE Steady'
  <2>1. /\ at[r] \in {"trim", "reply"} /\ at'[r] \in {"ask", "done"} /\ \A q \in Chats \ {r} : at'[q] = at[q]
        /\ UNCHANGED <<steady, saving, conv, deleting, stored, listed, history>>
    BY <1>0, <1>5 DEF TrimHistory, NoReply, Go, data, user, chat, ConvTyped
  <2>2. Waits(r)'
    BY <2>1 DEF Waits
  <2> QED BY <1>0, <2>1, <2>2, SteadyStep
<1>6. ASSUME NEW r \in Chats, NEW role \in {"user", "assistant"}, BeginSave(r, role) PROVE Steady'
  <2>1. /\ at[r] \in {"ask", "reply"} /\ at'[r] = "index" /\ \A q \in Chats \ {r} : at'[q] = at[q]
        /\ UNCHANGED <<steady, conv, deleting, stored, listed>>
    BY <1>0, <1>6 DEF BeginSave, Go, data, user, ConvTyped
  <2>2. /\ saving'[r].stamp = clock + 1
        /\ \A q \in Chats \ {r} : saving'[q] = saving[q] /\ history'[q] = history[q]
    BY <1>0, <1>6 DEF BeginSave, ConvTyped
  <2>3. \A x \in stored[conv[r]] : x.stamp < clock + 1
    <3>1. conv[r] \in ConvIds /\ clock \in Nat /\ \A x \in stored[conv[r]] : x.stamp \in Nat
      BY <1>0 DEF ConvTyped, Messages
    <3> QED BY <1>0, <3>1 DEF Stamped
  <2>4. Waits(r)'
    BY <2>1, <2>2, <2>3 DEF Waits
  <2> QED BY <1>0, <2>1, <2>2, <2>4, SteadyStep
<1>7. ASSUME NEW r \in Chats, SaveAtOnce(r) \/ BulkIndex(r) PROVE Steady'
  <2>1. /\ at[r] = "index" /\ at'[r] \in {"reply", "done", "count"} /\ \A q \in Chats \ {r} : at'[q] = at[q]
        /\ UNCHANGED <<steady, conv, deleting, history>>
        /\ \A q \in Chats \ {r} : saving'[q] = saving[q]
    BY <1>0, <1>7, SavedPlaces DEF SaveAtOnce, BulkIndex, Failing, Go, Over, user, chat, ConvTyped
  <2>2. \A d \in ConvIds \ {conv[r]} : stored'[d] = stored[d] /\ listed'[d] = listed[d]
    <3>1. Insert(r) \/ stored' = stored
      BY <1>7 DEF SaveAtOnce, BulkIndex
    <3>2. \A d \in ConvIds \ {conv[r]} : listed'[d] = listed[d]
      BY <1>0, <1>7 DEF SaveAtOnce, BulkIndex, ConvTyped
    <3> QED BY <1>0, <2>1, <3>1, <3>2, InsertIs
  <2>3. Waits(r)'
    BY <2>1 DEF Waits
  <2> QED BY <1>0, <2>1, <2>2, <2>3, SteadyStep
<1>8. ASSUME NEW r \in Chats, CountMessages(r) \/ WriteCount(r) PROVE Steady'
  <2>1. /\ at[r] \in {"count", "write"} /\ at'[r] \in {"reply", "done", "write"}
        /\ \A q \in Chats \ {r} : at'[q] = at[q]
        /\ UNCHANGED <<steady, conv, deleting, history, stored>>
        /\ \A q \in Chats \ {r} : saving'[q] = saving[q]
    BY <1>0, <1>8, SavedPlaces DEF CountMessages, WriteCount, Failing, Go, Over, user, data, ConvTyped
  <2>2. \A d \in ConvIds \ {conv[r]} : listed'[d] = listed[d]
    BY <1>0, <1>8 DEF CountMessages, WriteCount, data, ConvTyped
  <2>3. Waits(r)'
    BY <2>1 DEF Waits
  <2> QED BY <1>0, <2>1, <2>2, <2>3, SteadyStep
<1>9. ASSUME NEW C \in SUBSET ConvIds, Delete(C) PROVE Steady'
  <2>1. /\ steady' = steady \ C /\ deleting' = C /\ UNCHANGED <<conv, at, saving, history>>
        /\ \A d \in ConvIds \ C : listed'[d] = listed[d] /\ stored'[d] = stored[d]
    BY <1>9 DEF Delete, DeleteAsked, Without, chat
  <2>2. steady' \cap deleting' = {}
    BY <2>1
  <2> QED BY <1>0, <2>1, <2>2, SteadyDelete
<1>10. ASSUME NEW C \in SUBSET ConvIds, DeleteAtOnce(C) PROVE Steady'
  <2>1. /\ steady' = steady \ C /\ deleting' = {} /\ UNCHANGED <<conv, at, saving, history>>
        /\ \A d \in ConvIds \ C : listed'[d] = listed[d] /\ stored'[d] = stored[d]
    BY <1>10 DEF DeleteAtOnce, DeleteAsked, Without, chat
  <2>2. steady' \cap deleting' = {}
    BY <2>1
  <2> QED BY <1>0, <2>1, <2>2, SteadyDelete
<1>11. CASE DeleteMessages
  <2>1. /\ steady' = steady \ deleting /\ deleting' = {} /\ UNCHANGED <<conv, at, saving, history>>
        /\ \A d \in ConvIds \ deleting : listed'[d] = listed[d] /\ stored'[d] = stored[d]
    BY <1>11 DEF DeleteMessages, Without, chat, Steady
  <2>2. steady' \cap deleting' = {}
    BY <2>1
  <2> QED BY <1>0, <2>1, <2>2, SteadyDelete
<1>12. CASE UNCHANGED convVars
  BY <1>12 DEF convVars, data, chat, user, Steady
<1> QED BY <1>1, <1>2, <1>3, <1>4, <1>5, <1>6, <1>7, <1>8, <1>9, <1>10, <1>11, <1>12, ConvSteps

LEMMA FedKept ==
  ASSUME ConvTyped, Fed, [ConvNext]_convVars
  PROVE  Fed'
<1>1. ASSUME NEW r \in Chats, StartNew(r) \/ EnsureCreates(r) \/ NoReply(r) PROVE Fed'
  BY <1>1 DEF StartNew, EnsureCreates, NoReply, Go, chat, ConvTyped, Fed, Early
<1>2. ASSUME NEW r \in Chats, NEW c \in FixedIds, StartFixed(r, c) PROVE Fed'
  BY <1>2 DEF StartFixed, Go, ConvTyped, Fed, Early
<1>3. ASSUME NEW r \in Chats, LoadHistory(r) PROVE Fed'
  BY <1>3 DEF LoadHistory, Go, ConvTyped, Fed, Early
<1>4. ASSUME NEW r \in Chats, TrimHistory(r) PROVE Fed'
  <2>1. /\ at'[r] = "ask" /\ \A q \in Chats \ {r} : at'[q] = at[q] /\ given'[q] = given[q]
        /\ history' = history
    BY <1>4 DEF TrimHistory, Go, ConvTyped
  <2> QED BY <2>1 DEF Fed, Early
<1>5. ASSUME NEW r \in Chats, NEW role \in {"user", "assistant"}, BeginSave(r, role) PROVE Fed'
  <2>1. /\ at'[r] = "index" /\ \A q \in Chats \ {r} : at'[q] = at[q] /\ given'[q] = given[q]
        /\ \A q \in Chats \ {r} : history'[q] = history[q]
    BY <1>5 DEF BeginSave, Go, ConvTyped
  <2> QED BY <2>1 DEF Fed, Early
<1>6. ASSUME NEW r \in Chats, SaveAtOnce(r) \/ BulkIndex(r) \/ CountMessages(r) \/ WriteCount(r) PROVE Fed'
  <2>1. /\ at'[r] \in {"reply", "done", "write", "count"} /\ \A q \in Chats \ {r} : at'[q] = at[q]
        /\ UNCHANGED <<given, history>>
    BY <1>6, SavedPlaces DEF SaveAtOnce, BulkIndex, CountMessages, WriteCount, Failing, Go, Over, chat, ConvTyped
  <2> QED BY <2>1 DEF Fed, Early
<1>7. ASSUME NEW C \in SUBSET ConvIds, Delete(C) \/ DeleteAtOnce(C) PROVE Fed'
  BY <1>7 DEF Delete, DeleteAtOnce, DeleteAsked, chat, Fed
<1>8. CASE DeleteMessages \/ UNCHANGED convVars
  BY <1>8 DEF DeleteMessages, convVars, chat, Fed
<1> QED BY <1>1, <1>2, <1>3, <1>4, <1>5, <1>6, <1>7, <1>8, ConvSteps

(* What the cache has stays true when a steady conversation is left alone  *)
(* or gets a newer message.                                                *)
Undisturbed(c) ==
  \/ stored'[c] = stored[c]
  \/ \E m \in Messages : /\ m \notin stored[c] /\ \A x \in stored[c] : x.stamp < m.stamp
                         /\ stored'[c] = stored[c] \cup {m}

LEMMA CachedQuietly ==
  ASSUME ConvTyped, Cached, summaries' = summaries, steady' \subseteq steady,
         \A q \in Chats : at'[q] = "new" => at[q] = "new",
         \A k \in DOMAIN summaries : k[1] \in steady' => Undisturbed(k[1])
  PROVE  Cached'
<1> SUFFICES ASSUME NEW k \in DOMAIN summaries
             PROVE  /\ k[1] \in Chats => at'[k[1]] # "new"
                    /\ k[1] \in steady' => Len(summaries[k]) = k[2] /\ First(summaries[k], stored'[k[1]])
                    /\ k[1] \in ConvIds
                    /\ k = <<k[1], k[2]>>
  BY DEF Cached
<1>1. /\ k[1] \in Chats => at[k[1]] # "new"
      /\ k[1] \in steady => Len(summaries[k]) = k[2] /\ First(summaries[k], stored[k[1]])
      /\ k[1] \in ConvIds
      /\ k = <<k[1], k[2]>>
  BY DEF Cached
<1> DEFINE c == k[1]
           s == summaries[k]
<1>2. stored[c] \in SUBSET Messages /\ IsFiniteSet(stored[c])
  BY <1>1 DEF ConvTyped
<1>3. ASSUME c \in steady' PROVE First(s, stored'[c])
  <2>1. First(s, stored[c]) /\ Undisturbed(c)
    BY <1>1, <1>3
  <2> HIDE DEF c, s
  <2>2. CASE stored'[c] = stored[c]
    BY <2>1, <2>2
  <2>3. ASSUME NEW m \in Messages, m \notin stored[c], \A x \in stored[c] : x.stamp < m.stamp,
               stored'[c] = stored[c] \cup {m}
        PROVE  First(s, stored'[c])
    <3>1. First(s, stored[c] \cup {m})
      BY <1>2, <2>1, <2>3, FirstStays
    <3> QED BY <2>3, <3>1
  <2> QED BY <2>1, <2>2, <2>3 DEF Undisturbed
<1> QED BY <1>1, <1>3

LEMMA CachedKept ==
  ASSUME ConvCounts, Steady, Cached, Fed, [ConvNext]_convVars
  PROVE  Cached'
<1>0. ConvTyped /\ Stamped /\ Chatting /\ Counted /\ Chats \cap FixedIds = {}
  BY ConversationsAssumption DEF ConvCounts
<1>1. ASSUME NEW r \in Chats, StartNew(r) PROVE Cached'
  <2>1. /\ at[r] = "new" /\ at'[r] \in {"ask", "done"} /\ \A q \in Chats \ {r} : at'[q] = at[q]
        /\ UNCHANGED <<steady, summaries>> /\ r \in ConvIds
    BY <1>0, <1>1 DEF StartNew, Go, chat, ConvTyped, ConvIds
  <2>2. \A d \in ConvIds \ {r} : stored'[d] = stored[d]
    BY <1>0, <1>1, <2>1, CreateIs DEF StartNew, MayFail, data, Created
  <2>3. \A k \in DOMAIN summaries : k[1] # r /\ k[1] \in ConvIds
    BY <2>1 DEF Cached
  <2> QED BY <1>0, <2>1, <2>2, <2>3, CachedQuietly DEF Undisturbed
<1>2. ASSUME NEW r \in Chats, NEW c \in FixedIds, StartFixed(r, c) PROVE Cached'
  <2>1. /\ at'[r] \in {"ensure", "load"} /\ \A q \in Chats \ {r} : at'[q] = at[q]
        /\ UNCHANGED <<stored, summaries>> /\ steady' \subseteq steady
    BY <1>0, <1>2 DEF StartFixed, MayFail, Go, data, ConvTyped
  <2>2. \A q \in Chats : at'[q] = "new" => at[q] = "new"
    BY <2>1
  <2> QED BY <1>0, <2>1, <2>2, CachedQuietly DEF Undisturbed
<1>3. ASSUME NEW r \in Chats, EnsureCreates(r) PROVE Cached'
  <2>1. /\ at[r] = "ensure" /\ at'[r] = "load" /\ \A q \in Chats \ {r} : at'[q] = at[q]
        /\ UNCHANGED <<steady, summaries>> /\ conv[r] \in ConvIds
    BY <1>0, <1>3 DEF EnsureCreates, Go, chat, ConvTyped
  <2>2. \A d \in ConvIds : d \in steady => stored'[d] = stored[d]
    <3>1. CASE MayFail
      BY <3>1 DEF MayFail, data
    <3>2. CASE Create(conv[r])
      <4>1. Created(conv[r])
        BY <1>0, <2>1, <3>2, CreateIs
      <4>2. conv[r] \in steady /\ backend = "mem" => stored[conv[r]] = {}
        BY <1>0, <2>1 DEF Steady, Counted
      <4> QED BY <4>1, <4>2 DEF Created
    <3> QED BY <1>3, <3>1, <3>2 DEF EnsureCreates
  <2>3. \A q \in Chats : at'[q] = "new" => at[q] = "new"
    BY <2>1
  <2>4. \A k \in DOMAIN summaries : k[1] \in ConvIds
    BY DEF Cached
  <2> QED BY <1>0, <2>1, <2>2, <2>3, <2>4, CachedQuietly DEF Undisturbed
<1>4. ASSUME NEW r \in Chats, LoadHistory(r) \/ NoReply(r) \/ CountMessages(r) \/ WriteCount(r) PROVE Cached'
  <2>1. /\ at'[r] \in {"trim", "done", "write", "reply"} /\ \A q \in Chats \ {r} : at'[q] = at[q]
        /\ UNCHANGED <<steady, summaries, stored>>
    BY <1>0, <1>4, SavedPlaces DEF LoadHistory, NoReply, CountMessages, WriteCount, Failing, Over, Go,
         data, user, chat, ConvTyped
  <2>3. \A q \in Chats : at'[q] = "new" => at[q] = "new"
    BY <2>1
  <2> QED BY <1>0, <2>1, <2>3, CachedQuietly DEF Undisturbed
<1>5. ASSUME NEW r \in Chats, TrimHistory(r) PROVE Cached'
  <2> DEFINE h == history[r]
             n == IF Len(h) > Budget THEN Len(h) - Budget ELSE 0
             dropped == SubSeq(h, 1, n)
             c == conv[r]
             key == CacheKey(c, dropped)
  <2>1. /\ at[r] = "trim" /\ at'[r] = "ask" /\ \A q \in Chats \ {r} : at'[q] = at[q]
        /\ UNCHANGED <<steady, stored>> /\ c \in ConvIds
    BY <1>0, <1>5 DEF TrimHistory, Go, data, ConvTyped
  <2>2. \/ summaries' = summaries
        \/ /\ n # 0 /\ key \notin DOMAIN summaries
           /\ summaries' = [k \in DOMAIN summaries \cup {key} |-> IF k = key THEN dropped ELSE summaries[k]]
    <3>1. \E t \in IF n = 0 THEN {<<<<>>, summaries>>} ELSE Summarize(key, dropped) : summaries' = t[2]
      BY <1>5 DEF TrimHistory
    <3> HIDE DEF n, key, dropped
    <3> QED BY <3>1 DEF Summarize
  <2>3. CASE summaries' = summaries
    <3>1. \A q \in Chats : at'[q] = "new" => at[q] = "new"
      BY <2>1
    <3> QED BY <1>0, <2>1, <2>3, <3>1, CachedQuietly DEF Undisturbed
  <2>4. CASE /\ n # 0 /\ key \notin DOMAIN summaries
             /\ summaries' = [k \in DOMAIN summaries \cup {key} |-> IF k = key THEN dropped ELSE summaries[k]]
    <3>1. c \in Chats => c = r
      BY <1>0 DEF Chatting
    <3>2. ASSUME c \in steady PROVE Len(dropped) = Len(dropped) /\ First(dropped, stored[c])
      <4>1. h \in {<<>>, Oldest(stored[c], LoadLimit)}
        BY <2>1, <3>2 DEF Steady
      <4>2. Budget \in Nat /\ LoadLimit \in Nat
        BY ConversationsAssumption
      <4>3. h # <<>>
        BY <2>4, <4>2, EmptySeq
      <4>4. h = Oldest(stored[c], LoadLimit) /\ IsFiniteSet(stored[c])
        BY <1>0, <2>1, <4>1, <4>3 DEF ConvTyped
      <4>5. Len(h) \in Nat
        <5>1. Len(Oldest(stored[c], LoadLimit)) \in Nat
          BY <4>4, <4>2, FS_CardinalityType DEF Oldest
        <5> QED BY <4>4, <5>1
      <4>6. n \in Nat /\ n <= Len(h)
        BY <4>2, <4>5
      <4> HIDE DEF n, h
      <4>7. First(SubSeq(Oldest(stored[c], LoadLimit), 1, n), stored[c])
        BY <4>2, <4>4, <4>6, OldestIs
      <4> QED BY <4>4, <4>7
    <3>3. key[1] = c /\ key[2] = Len(dropped) /\ key = <<key[1], key[2]>>
      BY DEF CacheKey
    <3> HIDE DEF dropped, key, c
    <3>4. DOMAIN summaries' = DOMAIN summaries \cup {key} /\ summaries'[key] = dropped
          /\ \A k \in DOMAIN summaries : summaries'[k] = summaries[k]
      BY <2>4
    <3>5. ASSUME NEW k \in DOMAIN summaries'
          PROVE  /\ k[1] \in Chats => at'[k[1]] # "new"
                 /\ k[1] \in steady' => Len(summaries'[k]) = k[2] /\ First(summaries'[k], stored'[k[1]])
                 /\ k[1] \in ConvIds
                 /\ k = <<k[1], k[2]>>
      <4>1. CASE k = key
        BY <2>1, <3>1, <3>2, <3>3, <3>4, <4>1
      <4>2. CASE k \in DOMAIN summaries
        <5>1. /\ k[1] \in Chats => at[k[1]] # "new"
              /\ k[1] \in steady => Len(summaries[k]) = k[2] /\ First(summaries[k], stored[k[1]])
              /\ k[1] \in ConvIds
              /\ k = <<k[1], k[2]>>
          BY <4>2 DEF Cached
        <5>2. k[1] \in Chats => at'[k[1]] # "new"
          BY <2>1, <5>1
        <5> QED BY <2>1, <3>4, <4>2, <5>1, <5>2
      <4> QED BY <3>4, <4>1, <4>2
    <3> QED BY <3>5 DEF Cached
  <2> QED BY <2>2, <2>3, <2>4
<1>6. ASSUME NEW r \in Chats, NEW role \in {"user", "assistant"}, BeginSave(r, role) PROVE Cached'
  <2>1. /\ at'[r] = "index" /\ \A q \in Chats \ {r} : at'[q] = at[q]
        /\ UNCHANGED <<steady, summaries, stored>>
    BY <1>0, <1>6 DEF BeginSave, Go, data, user, ConvTyped
  <2>3. \A q \in Chats : at'[q] = "new" => at[q] = "new"
    BY <2>1
  <2> QED BY <1>0, <2>1, <2>3, CachedQuietly DEF Undisturbed
<1>7. ASSUME NEW r \in Chats, SaveAtOnce(r) \/ BulkIndex(r) PROVE Cached'
  <2>1. /\ at[r] = "index" /\ at'[r] \in {"reply", "done", "count"} /\ \A q \in Chats \ {r} : at'[q] = at[q]
        /\ UNCHANGED <<steady, summaries>>
    BY <1>0, <1>7, SavedPlaces DEF SaveAtOnce, BulkIndex, Failing, Go, Over, user, chat, ConvTyped
  <2>2. \A d \in ConvIds : d \in steady => Undisturbed(d)
    <3>1. CASE stored' = stored
      BY <3>1 DEF Undisturbed
    <3>2. CASE Insert(r)
      <4>1. /\ stored'[conv[r]] = stored[conv[r]] \cup {Message(r)}
            /\ Message(r) \notin stored[conv[r]] /\ Message(r).stamp = saving[r].stamp
            /\ \A d \in ConvIds \ {conv[r]} : stored'[d] = stored[d]
        BY <1>0, <2>1, <3>2, InsertIs
      <4>2. conv[r] \in steady => \A x \in stored[conv[r]] : x.stamp < Message(r).stamp
        BY <2>1, <4>1 DEF Steady
      <4>3. Message(r) \in Messages
        BY <1>0, <2>1 DEF Message, Messages, Stamped, ConvTyped, Savings
      <4> QED BY <4>1, <4>2, <4>3 DEF Undisturbed
    <3> QED BY <1>7, <3>1, <3>2 DEF SaveAtOnce, BulkIndex
  <2>3. \A q \in Chats : at'[q] = "new" => at[q] = "new"
    BY <2>1
  <2>4. \A k \in DOMAIN summaries : k[1] \in ConvIds
    BY DEF Cached
  <2> QED BY <1>0, <2>1, <2>2, <2>3, <2>4, CachedQuietly
<1>8. ASSUME NEW C \in SUBSET ConvIds, Delete(C) \/ DeleteAtOnce(C) PROVE Cached'
  <2>1. /\ steady' = steady \ C /\ UNCHANGED <<at, summaries>>
        /\ \A d \in ConvIds \ C : stored'[d] = stored[d]
    BY <1>8 DEF Delete, DeleteAtOnce, DeleteAsked, Without, chat
  <2>2. \A k \in DOMAIN summaries : k[1] \in ConvIds
    BY DEF Cached
  <2> QED BY <1>0, <2>1, <2>2, CachedQuietly DEF Undisturbed
<1>9. CASE DeleteMessages
  <2>1. /\ steady' = steady /\ UNCHANGED <<at, summaries>>
        /\ \A d \in ConvIds \ deleting : stored'[d] = stored[d]
    BY <1>9 DEF DeleteMessages, Without, chat
  <2>2. \A k \in DOMAIN summaries : k[1] \in ConvIds
    BY DEF Cached
  <2>3. \A d \in steady : d \notin deleting
    BY DEF Steady
  <2> QED BY <1>0, <2>1, <2>2, <2>3, CachedQuietly DEF Undisturbed
<1>10. CASE UNCHANGED convVars
  BY <1>0, <1>10, CachedQuietly DEF convVars, data, chat, Undisturbed
<1> QED BY <1>1, <1>2, <1>3, <1>4, <1>5, <1>6, <1>7, <1>8, <1>9, <1>10, ConvSteps

(* The summary of one request fits.                                        *)
Fits(r) == conv[r] \in steady /\ given[r].summed # <<>> =>
             given[r].summed \o given[r].kept = history[r]

LEMMA FitKept ==
  ASSUME ConvCounts, Steady, Cached, Fed, SummariesFit, [ConvNext]_convVars
  PROVE  SummariesFit'
<1>0. ConvTyped /\ Nothing.summed = <<>>
  BY DEF ConvCounts, Nothing
<1> SUFFICES ASSUME NEW q \in Chats PROVE Fits(q)'
  BY DEF SummariesFit, Fits
<1>a. Fits(q)
  BY DEF SummariesFit, Fits
<1> DEFINE Same == UNCHANGED <<given[q], history[q], conv[q]>> /\ steady' \subseteq steady
<1>b. ASSUME Same PROVE Fits(q)'
  BY <1>a, <1>b DEF Fits
<1>c. ASSUME given'[q] = Nothing PROVE Fits(q)'
  BY <1>0, <1>c DEF Fits
<1>1. ASSUME NEW r \in Chats, StartNew(r) \/ EnsureCreates(r) \/ NoReply(r) \/ SaveAtOnce(r)
                              \/ BulkIndex(r) \/ CountMessages(r) \/ WriteCount(r)
      PROVE  Fits(q)'
  <2>1. Same
    BY <1>1 DEF StartNew, EnsureCreates, NoReply, SaveAtOnce, BulkIndex, CountMessages, WriteCount,
                Over, chat
  <2> QED BY <1>b, <2>1
<1>2. ASSUME NEW r \in Chats, NEW c \in FixedIds, StartFixed(r, c) PROVE Fits(q)'
  <2>1. CASE q = r
    BY <1>2, <1>c, <2>1 DEF StartFixed, Go, Fed, Early
  <2>2. CASE q # r
    <3>1. Same
      BY <1>0, <1>2, <2>2 DEF StartFixed, ConvTyped
    <3> QED BY <1>b, <3>1
  <2> QED BY <2>1, <2>2
<1>3. ASSUME NEW r \in Chats, LoadHistory(r) PROVE Fits(q)'
  <2>1. CASE q = r
    BY <1>3, <1>c, <2>1 DEF LoadHistory, Go, Fed, Early
  <2>2. CASE q # r
    <3>1. Same
      BY <1>0, <1>3, <2>2 DEF LoadHistory, ConvTyped
    <3> QED BY <1>b, <3>1
  <2> QED BY <2>1, <2>2
<1>4. ASSUME NEW r \in Chats, NEW role \in {"user", "assistant"}, BeginSave(r, role) PROVE Fits(q)'
  <2>1. CASE q = r
    <3>1. given'[q] = Nothing
      BY <1>0, <1>4, <2>1 DEF BeginSave, ConvTyped
    <3> QED BY <1>c, <3>1
  <2>2. CASE q # r
    <3>1. Same
      BY <1>0, <1>4, <2>2 DEF BeginSave, ConvTyped
    <3> QED BY <1>b, <3>1
  <2> QED BY <2>1, <2>2
<1>5. ASSUME NEW r \in Chats, TrimHistory(r) PROVE Fits(q)'
  <2> DEFINE h == history[r]
             n == IF Len(h) > Budget THEN Len(h) - Budget ELSE 0
             dropped == SubSeq(h, 1, n)
             kept == SubSeq(h, n + 1, Len(h))
             c == conv[r]
             key == CacheKey(c, dropped)
  <2>1. /\ at[r] = "trim" /\ UNCHANGED <<conv, steady, history>> /\ c \in ConvIds
        /\ \A p \in Chats \ {r} : given'[p] = given[p]
    BY <1>0, <1>5 DEF TrimHistory, Go, ConvTyped
  <2>2. CASE q # r
    <3>1. Same
      BY <2>1, <2>2
    <3> QED BY <1>b, <3>1
  <2>3. CASE q = r
    <3>1. PICK t \in IF n = 0 THEN {<<<<>>, summaries>>} ELSE Summarize(key, dropped) :
            given' = [given EXCEPT ![r] = [summed |-> t[1], kept |-> kept]]
      BY <1>5 DEF TrimHistory
    <3>2. \/ t[1] = <<>>
          \/ n # 0 /\ t[1] = dropped
          \/ n # 0 /\ key \in DOMAIN summaries /\ t[1] = summaries[key]
      <4>1. t \in IF n = 0 THEN {<<<<>>, summaries>>} ELSE Summarize(key, dropped)
        BY <3>1
      <4> HIDE DEF n, key, dropped
      <4> QED BY <4>1 DEF Summarize
    <3>3. given'[r].summed = t[1] /\ given'[r].kept = kept
      BY <1>0, <3>1 DEF ConvTyped
    <3>4. ASSUME c \in steady, n # 0, t[1] # <<>> PROVE t[1] \o kept = h
      <4>1. h \in {<<>>, Oldest(stored[c], LoadLimit)}
        BY <2>1, <3>4 DEF Steady
      <4>2. Budget \in Nat /\ LoadLimit \in Nat
        BY ConversationsAssumption
      <4>3. h # <<>>
        BY <3>4, <4>2, EmptySeq
      <4>4. h = Oldest(stored[c], LoadLimit) /\ IsFiniteSet(stored[c])
        BY <1>0, <2>1, <4>1, <4>3 DEF ConvTyped
      <4>5. Len(h) \in Nat
        <5>1. Len(Oldest(stored[c], LoadLimit)) \in Nat
          BY <4>4, <4>2, FS_CardinalityType DEF Oldest
        <5> QED BY <4>4, <5>1
      <4>6. n \in Nat /\ n <= Len(h)
        BY <4>2, <4>5
      <4> HIDE DEF n, h
      <4>7. /\ First(dropped, stored[c]) /\ Len(dropped) = n /\ dropped \o kept = h
        BY <4>2, <4>4, <4>6, OldestIs
      <4>8. key \in DOMAIN summaries => Len(summaries[key]) = n /\ First(summaries[key], stored[c])
        <5>1. key[1] = c /\ key[2] = Len(dropped)
          BY DEF CacheKey
        <5> HIDE DEF key, dropped, c
        <5> QED BY <3>4, <4>7, <5>1 DEF Cached
      <4> HIDE DEF key, dropped, c, kept
      <4>9. t[1] = dropped
        <5>1. CASE key \in DOMAIN summaries /\ t[1] = summaries[key]
          BY <4>7, <4>8, <5>1, FirstIsOne
        <5> QED BY <3>2, <3>4, <5>1
      <4> QED BY <4>7, <4>9
    <3> QED BY <2>1, <2>3, <3>2, <3>3, <3>4 DEF Fits
  <2> QED BY <2>2, <2>3
<1>6. ASSUME NEW C \in SUBSET ConvIds, Delete(C) \/ DeleteAtOnce(C) PROVE Fits(q)'
  <2>1. Same
    BY <1>6 DEF Delete, DeleteAtOnce, DeleteAsked, chat
  <2> QED BY <1>b, <2>1
<1>7. CASE DeleteMessages \/ UNCHANGED convVars
  <2>1. Same
    BY <1>7 DEF DeleteMessages, convVars, chat
  <2> QED BY <1>b, <2>1
<1> QED BY <1>1, <1>2, <1>3, <1>4, <1>5, <1>6, <1>7, ConvSteps

(* A summary stands for exactly the messages that were dropped, in every   *)
(* conversation that was neither deleted nor used twice at once.           *)
THEOREM SummariesAreRight == ConvSpec => []SummariesFit
<1>1. ConvInit => ConvInv
  <2> SUFFICES ASSUME ConvInit PROVE Steady /\ Cached /\ Fed /\ SummariesFit
    BY ConvCountsInit DEF ConvInv
  <2>1. Steady
    BY DEF ConvInit, Steady
  <2>2. Cached /\ Fed
    BY DEF ConvInit, Cached, Fed
  <2>3. SummariesFit
    BY DEF ConvInit, SummariesFit, Nothing
  <2> QED BY <2>1, <2>2, <2>3
<1>2. ConvInv /\ [ConvNext]_convVars => ConvInv'
  BY ConvTypedKept, StampedKept, ChattingKept, CountedKept, AloneKept, SteadyKept, CachedKept,
     FedKept, FitKept DEF ConvInv, ConvCounts
<1>3. ConvInv => SummariesFit
  BY DEF ConvInv
<1> QED BY <1>1, <1>2, <1>3, PTL DEF ConvSpec

-----------------------------------------------------------------------------
(* The stores side by side: a step of one is a stutter of the others.      *)
LEMMA EachStore ==
  MCSpec => /\ ConvSpec /\ MemorySpec /\ PromptsSpec /\ DocSpec
            /\ RetrievalSpec /\ PricesSpec /\ ListSpec /\ ApprovalSpec
<1> DEFINE Vars == <<part, convVars, memoryVars, promptVars, docVars, retrievalVars,
                     pricesVars, listVars, approvalVars>>
<1>1. MCInit => /\ ConvInit /\ MemoryInit /\ PromptsInit /\ DocInit
                /\ RetrievalInit /\ PricesInit /\ ListInit /\ ApprovalInit
  BY DEF MCInit
<1>2. [MCNext]_Vars => [ConvNext]_convVars
  BY DEF MCNext
<1>3. [MCNext]_Vars => [MemoryNext]_memoryVars
  BY DEF MCNext
<1>4. [MCNext]_Vars => [PromptsNext]_promptVars
  BY DEF MCNext
<1>5. [MCNext]_Vars => [DocNext]_docVars
  BY DEF MCNext
<1>6. [MCNext]_Vars => [RetrievalNext]_retrievalVars
  BY DEF MCNext
<1>7. [MCNext]_Vars => [PricesNext]_pricesVars
  BY DEF MCNext
<1>8. [MCNext]_Vars => [ListNext]_listVars
  BY DEF MCNext
<1>9. [MCNext]_Vars => [ApprovalNext]_approvalVars
  BY DEF MCNext
<1> QED BY <1>1, <1>2, <1>3, <1>4, <1>5, <1>6, <1>7, <1>8, <1>9, PTL
       DEF MCSpec, ConvSpec, MemorySpec, PromptsSpec, DocSpec,
           RetrievalSpec, PricesSpec, ListSpec, ApprovalSpec

(* Every variable of every store has its type, for any constants of each.  *)
THEOREM StoresTyped == MCSpec => []TypesHold
<1>1. MCSpec => /\ []ConvTypeOK /\ []MemoryTypeOK /\ []PromptsTypeOK /\ []DocTypeOK
                /\ []RetrievalTypeOK /\ []PricesTypeOK /\ []ListTypeOK /\ []ApprovalTypeOK
  BY EachStore, ConversationsTyped, MemoryTyped, PromptsTypeCorrect, DocumentsTyped,
     RetrievalTypeCorrect, PricesTypeCorrect, ListTypeCorrect, ApprovalsTyped, PTL
<1>2. ConvTypeOK /\ MemoryTypeOK /\ PromptsTypeOK /\ DocTypeOK
      /\ RetrievalTypeOK /\ PricesTypeOK /\ ListTypeOK /\ ApprovalTypeOK => TypesHold
  BY DEF TypesHold
<1> QED BY <1>1, <1>2, PTL

(* What TLC checks of each store on its instance, for any constants.       *)
THEOREM StoresSafe ==
  MCSpec => /\ [](SummariesFit /\ NothingForgotten /\ PromptIsRight /\ ChunksFollowTheList)
            /\ [](RerankKeepsTheBest /\ QuotesAreFresh /\ ListIsWhole /\ ApprovalsHold)
            /\ CountsAreRight /\ HistoryGrows /\ PendingStays /\ RefinesDecideOnce
<1>1. MCSpec => /\ []SummariesFit /\ CountsAreRight
                /\ []NothingForgotten /\ []PromptIsRight /\ []RerankKeepsTheBest
  BY EachStore, SummariesAreRight, CountsRight, MemoryKept, PromptRight, BestKept
<1>2. MCSpec => []ChunksFollowTheList /\ []QuotesAreFresh /\ []ListIsWhole /\ HistoryGrows
  BY EachStore, DocumentsWhole, QuotesFresh, ListWhole, HistoryKept
<1>3. MCSpec => []ApprovalsHold /\ PendingStays /\ RefinesDecideOnce
  BY EachStore, DecisionsHold, PendingNeverLeaves, PromiseIsKept
<1> QED BY <1>1, <1>2, <1>3, PTL

=============================================================================
