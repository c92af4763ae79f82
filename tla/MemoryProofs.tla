---------------------------- MODULE MemoryProofs ----------------------------
(* Proofs about the long-term memory, for any turns and keywords, about    *)
(* the semantic cache, for any requests, questions and scores, about the   *)
(* retrieval chain, for any chunks and relevance, and about the memories   *)
(* in the prompt, for any lengths and confidences.                         *)
EXTENDS Memory, SemanticCache, Retrieval, Prompts, SequenceLemmas, SequenceTheorems, FiniteSetTheorems,
        TLAPS

Notes == [status : {"active", "superseded"}, keywords : KeywordLists, replaces : Nat]

(* n is a memory that has taken the place of m.                            *)
TakesPlace(n, m) ==
  /\ n \in DOMAIN memories /\ memories[n].replaces = m
  /\ Finds(memories[n].keywords, memories[m].keywords)

(* A conflict is a memory that a keyword of the one in hand finds; when    *)
(* only the mark is missing, the new memory is there already.              *)
ConflictFound(t) ==
  extractor[t] \in {"supersede", "mark"} =>
    /\ conflict[t] \in DOMAIN memories
    /\ Finds(item[t], memories[conflict[t]].keywords)
    /\ extractor[t] = "mark" => \E n \in DOMAIN memories : TakesPlace(n, conflict[t])

(* What each goroutine has in hand.                                        *)
HandTyped ==
  /\ extractor \in [Turns -> {"new", "item", "index", "supersede", "mark"}]
  /\ items \in [Turns -> 0..MaxItems] /\ item \in [Turns -> KeywordLists \cup {{}}]
  /\ conflict \in [Turns -> 0..Len(memories)]
  /\ \A t \in Turns : extractor[t] \in {"index", "supersede"} => item[t] # {}
  /\ \A t \in Turns : extractor[t] = "index" => conflict[t] = 0
  /\ \A t \in Turns : extractor[t] = "mark" => memStore = "es"

(* What is written.                                                        *)
MemoriesTyped ==
  /\ memStore \in {"es", "mysql"}
  /\ memories \in Seq(Notes)
  /\ \A m \in DOMAIN memories : memories[m].replaces < m /\ memories[m].keywords # {}

MemoryInv ==
  /\ MemoriesTyped /\ HandTyped
  /\ \A t \in Turns : ConflictFound(t)
  /\ NothingForgotten

(* No memory is taken back or changed but for its status.                  *)
Grows ==
  /\ memStore' = memStore
  /\ Len(memories) <= Len(memories')
  /\ \A m \in DOMAIN memories :
       /\ memories'[m].keywords = memories[m].keywords
       /\ memories'[m].replaces = memories[m].replaces

-----------------------------------------------------------------------------
LEMMA InitMemoryInv == MemoryInit => MemoryInv
  BY MemoryAssumption
  DEF MemoryInit, MemoryInv, MemoriesTyped, HandTyped, ConflictFound, NothingForgotten, Notes

(* A memory that is added stands behind all others, which keep their place.*)
LEMMA Added ==
  ASSUME memories \in Seq(Notes), NEW e \in Notes, memories' = Append(memories, e), UNCHANGED memStore
  PROVE  /\ memories' \in Seq(Notes) /\ Len(memories') = Len(memories) + 1
         /\ DOMAIN memories' = DOMAIN memories \cup {Len(memories) + 1}
         /\ \A m \in DOMAIN memories : memories'[m] = memories[m]
         /\ memories'[Len(memories) + 1] = e
         /\ Grows
  BY DEF Grows

(* A mark changes the status of one memory.                                *)
LEMMA Marked ==
  ASSUME NEW s \in Seq(Notes), NEW c \in DOMAIN s
  PROVE  /\ Superseded(s, c) \in Seq(Notes) /\ Len(Superseded(s, c)) = Len(s)
         /\ DOMAIN Superseded(s, c) = DOMAIN s
         /\ Superseded(s, c)[c].status = "superseded"
         /\ \A m \in DOMAIN s :
              /\ m # c => Superseded(s, c)[m] = s[m]
              /\ Superseded(s, c)[m].keywords = s[m].keywords
              /\ Superseded(s, c)[m].replaces = s[m].replaces
<1>1. s \in [1..Len(s) -> Notes] /\ DOMAIN s = 1..Len(s) /\ Len(s) \in Nat
  OBVIOUS
<1>2. [s[c] EXCEPT !.status = "superseded"] \in Notes
  BY <1>1 DEF Notes
<1>3. Superseded(s, c) = [s EXCEPT ![c] = [s[c] EXCEPT !.status = "superseded"]]
  BY DEF Superseded
<1>4. Superseded(s, c) \in [1..Len(s) -> Notes]
  BY <1>1, <1>2, <1>3
<1>5. Superseded(s, c) \in Seq(Notes) /\ Len(Superseded(s, c)) = Len(s)
  BY <1>1, <1>4
<1>6. s[c] \in Notes
  BY <1>1
<1>7. DOMAIN Superseded(s, c) = DOMAIN s /\ \A m \in DOMAIN s : m # c => Superseded(s, c)[m] = s[m]
  BY <1>1, <1>3
<1>8. Superseded(s, c)[c] = [s[c] EXCEPT !.status = "superseded"]
  BY <1>1, <1>3
<1>9. /\ Superseded(s, c)[c].status = "superseded"
      /\ Superseded(s, c)[c].keywords = s[c].keywords
      /\ Superseded(s, c)[c].replaces = s[c].replaces
  BY <1>6, <1>8 DEF Notes
<1> QED BY <1>5, <1>7, <1>9

(* What a goroutine has found stays true while others write.               *)
LEMMA FoundStill ==
  ASSUME MemoryInv, Grows, memories' \in Seq(Notes), NEW t \in Turns,
         ConflictFound(t), UNCHANGED <<extractor[t], item[t], conflict[t]>>
  PROVE  ConflictFound(t)'
<1>1. DOMAIN memories = 1..Len(memories) /\ DOMAIN memories' = 1..Len(memories')
      /\ Len(memories) \in Nat /\ Len(memories') \in Nat
  BY DEF MemoryInv, MemoriesTyped
<1>2. DOMAIN memories \subseteq DOMAIN memories'
  BY <1>1 DEF Grows
<1>3. \A n, m \in DOMAIN memories : TakesPlace(n, m) => TakesPlace(n, m)'
  BY <1>2 DEF Grows, TakesPlace, Finds
<1> QED BY <1>2, <1>3 DEF ConflictFound, Grows, Finds

-----------------------------------------------------------------------------
(* What the three ways to write keep, one lemma each.                      *)
LEMMA AppendKeeps ==
  ASSUME MemoryInv, NEW e \in Notes, e.status = "active", e.keywords # {},
         e.replaces <= Len(memories), memStore = "mysql" => e.replaces = 0,
         memories' = Append(memories, e), UNCHANGED memStore
  PROVE  MemoriesTyped' /\ NothingForgotten' /\ Grows
<1>0. PICK new \in Nat : new = Len(memories) + 1
  BY DEF MemoryInv, MemoriesTyped
<1>1. /\ memories' \in Seq(Notes) /\ DOMAIN memories' = DOMAIN memories \cup {new}
      /\ \A m \in DOMAIN memories : memories'[m] = memories[m]
      /\ memories'[new] = e /\ Grows
  BY <1>0, Added DEF MemoryInv, MemoriesTyped
<1>2. DOMAIN memories = 1..Len(memories) /\ Len(memories) \in Nat
  BY DEF MemoryInv, MemoriesTyped
<1>3. MemoriesTyped'
  BY <1>0, <1>1, <1>2 DEF MemoryInv, MemoriesTyped, Notes
<1>4. Active(new)' /\ Replacements(new)' = {}
  BY <1>0, <1>1, <1>2, <1>3 DEF Active, Replacements, MemoriesTyped, Notes
<1>5. ASSUME NEW m \in DOMAIN memories
      PROVE  /\ Active(m)' <=> Active(m)
             /\ Replacements(m) \subseteq Replacements(m)'
             /\ memStore = "mysql" => Replacements(m)' = Replacements(m)
  BY <1>0, <1>1, <1>2 DEF Active, Replacements
<1>6. NothingForgotten'
  <2> SUFFICES ASSUME NEW m \in DOMAIN memories
               PROVE  /\ ~Active(m)' => \E n \in Replacements(m)' :
                            Finds(memories'[n].keywords, memories'[m].keywords)
                      /\ memStore = "mysql" /\ Replacements(m)' # {} => ~Active(m)'
    BY <1>1, <1>4 DEF NothingForgotten, Finds
  <2>1. memStore = "mysql" /\ Replacements(m)' # {} => ~Active(m)'
    BY <1>5 DEF MemoryInv, NothingForgotten
  <2>2. ASSUME ~Active(m)'
        PROVE  \E n \in Replacements(m)' : Finds(memories'[n].keywords, memories'[m].keywords)
    <3>1. PICK n \in Replacements(m) : Finds(memories[n].keywords, memories[m].keywords)
      BY <1>5, <2>2 DEF MemoryInv, NothingForgotten
    <3> QED BY <1>1, <1>5, <3>1 DEF Replacements
  <2> QED BY <2>1, <2>2
<1> QED BY <1>1, <1>3, <1>6

LEMMA MarkKeeps ==
  ASSUME MemoryInv, NEW c \in DOMAIN memories, \E n \in DOMAIN memories : TakesPlace(n, c),
         memories' = Superseded(memories, c), UNCHANGED memStore
  PROVE  MemoriesTyped' /\ NothingForgotten' /\ Grows
<1>0. Len(memories) \in Nat /\ memories \in Seq(Notes)
  BY DEF MemoryInv, MemoriesTyped
<1>1. /\ memories' \in Seq(Notes) /\ DOMAIN memories' = DOMAIN memories
      /\ memories'[c].status = "superseded" /\ Grows
      /\ \A m \in DOMAIN memories : /\ m # c => memories'[m] = memories[m]
                                    /\ memories'[m].keywords = memories[m].keywords
                                    /\ memories'[m].replaces = memories[m].replaces
  <2>1. /\ Superseded(memories, c) \in Seq(Notes)
        /\ Len(Superseded(memories, c)) = Len(memories)
        /\ DOMAIN Superseded(memories, c) = DOMAIN memories
        /\ Superseded(memories, c)[c].status = "superseded"
        /\ \A m \in DOMAIN memories :
              /\ m # c => Superseded(memories, c)[m] = memories[m]
              /\ Superseded(memories, c)[m].keywords = memories[m].keywords
              /\ Superseded(memories, c)[m].replaces = memories[m].replaces
    BY <1>0, Marked
  <2> QED BY <1>0, <2>1 DEF Grows
<1>2. MemoriesTyped'
  BY <1>1 DEF MemoryInv, MemoriesTyped
<1>3. \A m \in DOMAIN memories : Replacements(m)' = Replacements(m)
  BY <1>1 DEF Replacements
<1>4. NothingForgotten'
  BY <1>1, <1>3 DEF MemoryInv, NothingForgotten, Active, Replacements, TakesPlace, Finds
<1> QED BY <1>1, <1>2, <1>4

LEMMA ReplaceKeeps ==
  ASSUME MemoryInv, NEW c \in DOMAIN memories, NEW e \in Notes, e.status = "active",
         e.replaces = c, Finds(e.keywords, memories[c].keywords),
         memories' = Append(Superseded(memories, c), e), UNCHANGED memStore
  PROVE  MemoriesTyped' /\ NothingForgotten' /\ Grows
<1> DEFINE mid == Superseded(memories, c)
<1>0. PICK new \in Nat : new = Len(memories) + 1
  BY DEF MemoryInv, MemoriesTyped
<1>1. /\ mid \in Seq(Notes) /\ Len(mid) = Len(memories) /\ mid[c].status = "superseded"
      /\ \A m \in DOMAIN memories : /\ m # c => mid[m] = memories[m]
                                    /\ mid[m].keywords = memories[m].keywords
                                    /\ mid[m].replaces = memories[m].replaces
  BY Marked DEF MemoryInv, MemoriesTyped
<1> HIDE DEF mid
<1>2. DOMAIN memories = 1..Len(memories) /\ Len(memories) \in Nat
  BY DEF MemoryInv, MemoriesTyped
<1>3. /\ memories' \in Seq(Notes) /\ DOMAIN memories' = DOMAIN memories \cup {new}
      /\ memories'[new] = e /\ \A m \in DOMAIN memories : memories'[m] = mid[m]
      /\ Len(memories') = Len(memories) + 1
  BY <1>0, <1>1, <1>2 DEF mid
<1>4. Grows
  BY <1>1, <1>2, <1>3 DEF Grows
<1>5. MemoriesTyped'
  <2>0. e.keywords # {}
    BY DEF Finds
  <2>1. memories'[new].replaces < new /\ memories'[new].keywords # {}
    BY <1>0, <1>2, <1>3, <2>0
  <2>2. \A m \in DOMAIN memories : memories'[m].replaces < m /\ memories'[m].keywords # {}
    <3>1. \A m \in DOMAIN memories : memories[m].replaces < m /\ memories[m].keywords # {}
      BY DEF MemoryInv, MemoriesTyped
    <3> QED BY <1>1, <1>3, <3>1
  <2> QED BY <1>3, <2>1, <2>2 DEF MemoryInv, MemoriesTyped
<1>6. Active(new)' /\ Replacements(new)' = {}
  BY <1>0, <1>2, <1>3, <1>5 DEF Active, Replacements, MemoriesTyped, Notes
<1>7. ~Active(c)' /\ new \in Replacements(c)'
  BY <1>1, <1>3 DEF Active, Replacements
<1>8. ASSUME NEW m \in DOMAIN memories, m # c
      PROVE  (Active(m)' <=> Active(m)) /\ Replacements(m)' = Replacements(m)
  BY <1>0, <1>1, <1>2, <1>3, <1>8 DEF Active, Replacements
<1>9. ASSUME NEW m \in DOMAIN memories, m # c, ~Active(m)'
      PROVE  \E n \in Replacements(m)' : Finds(memories'[n].keywords, memories'[m].keywords)
  <2>1. PICK n \in Replacements(m) : Finds(memories[n].keywords, memories[m].keywords)
    BY <1>8, <1>9 DEF MemoryInv, NothingForgotten
  <2> QED BY <1>1, <1>3, <1>8, <1>9, <2>1 DEF Replacements
<1>10. NothingForgotten'
  <2> SUFFICES ASSUME NEW m \in DOMAIN memories \cup {new}
               PROVE  /\ ~Active(m)' => \E n \in Replacements(m)' :
                            Finds(memories'[n].keywords, memories'[m].keywords)
                      /\ memStore = "mysql" /\ Replacements(m)' # {} => ~Active(m)'
    BY <1>3 DEF NothingForgotten, Finds
  <2>1. CASE m = new
    BY <1>6, <2>1
  <2>2. CASE m = c
    <3>1. Finds(memories'[new].keywords, memories'[c].keywords)
      BY <1>1, <1>3
    <3> QED BY <1>7, <2>2, <3>1
  <2>3. CASE m \in DOMAIN memories /\ m # c
    BY <1>8, <1>9, <2>3 DEF MemoryInv, NothingForgotten
  <2> QED BY <2>1, <2>2, <2>3
<1> QED BY <1>4, <1>5, <1>10

(* A step that only moves a goroutine.                                     *)
LEMMA UnwrittenKeeps ==
  ASSUME MemoryInv, UNCHANGED <<memStore, memories>>
  PROVE  MemoriesTyped' /\ NothingForgotten' /\ Grows
  BY DEF MemoryInv, MemoriesTyped, NothingForgotten, Active, Replacements, Grows, Finds

-----------------------------------------------------------------------------
(* A goroutine that moves alone, where what is written and what it has in  *)
(* hand are as they should be.                                             *)
LEMMA MoveKeeps ==
  ASSUME MemoryInv, NEW t \in Turns, HandTyped', MemoriesTyped', NothingForgotten', Grows,
         ConflictFound(t)',
         \A u \in Turns \ {t} : UNCHANGED <<extractor[u], item[u], conflict[u]>>
  PROVE  MemoryInv'
<1>1. ASSUME NEW u \in Turns \ {t}
      PROVE  ConflictFound(u)'
  <2>1. memories' \in Seq(Notes)
    BY DEF MemoriesTyped
  <2>2. ConflictFound(u) /\ UNCHANGED <<extractor[u], item[u], conflict[u]>>
    BY DEF MemoryInv
  <2> QED BY <2>1, <2>2, FoundStill
<1> QED BY <1>1 DEF MemoryInv

LEMMA ExtractKeeps ==
  ASSUME MemoryInv, NEW t \in Turns, Extract(t)
  PROVE  MemoryInv'
<1>1. HandTyped'
  BY DEF Extract, Step, MemoryInv, HandTyped
<1>2. MemoriesTyped' /\ NothingForgotten' /\ Grows
  BY UnwrittenKeeps DEF Extract
<1>3. ConflictFound(t)'
  BY DEF Extract, Step, ConflictFound, MemoryInv, HandTyped
<1> QED BY <1>1, <1>2, <1>3, MoveKeeps DEF Extract, Step, MemoryInv, HandTyped

LEMMA FindConflictKeeps ==
  ASSUME MemoryInv, NEW t \in Turns, FindConflict(t)
  PROVE  MemoryInv'
<1>1. PICK ks \in KeywordLists, supersedes \in BOOLEAN :
        \E m \in {0} \cup UNION {FirstHits(k) : k \in ks} :
          /\ item' = [item EXCEPT ![t] = ks]
          /\ IF m # 0 /\ supersedes
             THEN Step(t, "item", "supersede") /\ conflict' = [conflict EXCEPT ![t] = m]
             ELSE Step(t, "item", "index") /\ conflict' = [conflict EXCEPT ![t] = 0]
  BY DEF FindConflict
<1>2. PICK m \in {0} \cup UNION {FirstHits(k) : k \in ks} :
        /\ item' = [item EXCEPT ![t] = ks]
        /\ IF m # 0 /\ supersedes
           THEN Step(t, "item", "supersede") /\ conflict' = [conflict EXCEPT ![t] = m]
           ELSE Step(t, "item", "index") /\ conflict' = [conflict EXCEPT ![t] = 0]
  BY <1>1
<1>3. m = 0 \/ (m \in DOMAIN memories /\ Finds(ks, memories[m].keywords))
  BY DEF FirstHits, Hits, Finds
<1>4. m \in 0..Len(memories)
  BY <1>3 DEF MemoryInv, MemoriesTyped
<1>5. items' \in [Turns -> 0..MaxItems] /\ UNCHANGED <<memStore, memories>>
  BY MemoryAssumption DEF FindConflict, MemoryInv, HandTyped
<1>6. HandTyped'
  <2>1. item' \in [Turns -> KeywordLists \cup {{}}] /\ item'[t] = ks /\ ks # {}
    BY <1>2, MemoryAssumption DEF MemoryInv, HandTyped
  <2>2. /\ extractor' \in [Turns -> {"new", "item", "index", "supersede", "mark"}]
        /\ conflict' \in [Turns -> 0..Len(memories)]
        /\ extractor'[t] = "supersede" \/ (extractor'[t] = "index" /\ conflict'[t] = 0)
    <3>1. CASE m # 0 /\ supersedes
      <4>1. Step(t, "item", "supersede") /\ conflict' = [conflict EXCEPT ![t] = m]
        BY <1>2, <3>1
      <4> QED BY <1>4, <4>1 DEF Step, MemoryInv, HandTyped
    <3>2. CASE ~(m # 0 /\ supersedes)
      <4>1. Step(t, "item", "index") /\ conflict' = [conflict EXCEPT ![t] = 0]
        BY <1>2, <3>2
      <4>2. 0 \in 0..Len(memories)
        BY DEF MemoryInv, MemoriesTyped
      <4> QED BY <4>1, <4>2 DEF Step, MemoryInv, HandTyped
    <3> QED BY <3>1, <3>2
  <2>3. \A u \in Turns \ {t} : UNCHANGED <<extractor[u], item[u], conflict[u]>>
    BY <1>2 DEF Step, MemoryInv, HandTyped
  <2> QED BY <1>5, <2>1, <2>2, <2>3 DEF MemoryInv, HandTyped
<1>7. MemoriesTyped' /\ NothingForgotten' /\ Grows
  BY <1>5, UnwrittenKeeps
<1>8. ConflictFound(t)'
  BY <1>2, <1>3, <1>5 DEF Step, ConflictFound, MemoryInv, HandTyped, Finds
<1> QED BY <1>2, <1>6, <1>7, <1>8, MoveKeeps DEF Step, MemoryInv, HandTyped

(* The new memory is a memory.                                             *)
LEMMA NewIsNote ==
  ASSUME MemoryInv, NEW t \in Turns, item[t] # {}
  PROVE  /\ New(t) \in Notes /\ New(t).status = "active"
         /\ New(t).keywords = item[t] /\ New(t).replaces = conflict[t]
  BY DEF MemoryInv, MemoriesTyped, HandTyped, New, Notes

LEMMA IndexKeeps ==
  ASSUME MemoryInv, NEW t \in Turns, IndexMemory(t)
  PROVE  MemoryInv'
<1>1. item[t] # {} /\ conflict[t] = 0 /\ Len(memories) \in Nat
  BY DEF IndexMemory, Step, MemoryInv, MemoriesTyped, HandTyped
<1>2. MemoriesTyped' /\ NothingForgotten' /\ Grows
  BY <1>1, NewIsNote, AppendKeeps, UnwrittenKeeps DEF IndexMemory
<1>3. Len(memories') \in Nat /\ Len(memories) <= Len(memories')
  BY <1>2 DEF MemoriesTyped, Grows
<1>4. HandTyped'
  BY <1>1, <1>3 DEF IndexMemory, Step, MemoryInv, HandTyped
<1>5. ConflictFound(t)'
  BY DEF IndexMemory, Step, ConflictFound, MemoryInv, HandTyped
<1> QED BY <1>2, <1>4, <1>5, MoveKeeps DEF IndexMemory, Step, MemoryInv, HandTyped

(* Supersede of MySQL: both writes or none.                                *)
LEMMA SupersedeKeeps ==
  ASSUME MemoryInv, NEW t \in Turns, Supersede(t)
  PROVE  MemoryInv'
<1>1. /\ conflict[t] \in DOMAIN memories /\ item[t] # {}
      /\ Finds(item[t], memories[conflict[t]].keywords)
  BY DEF Supersede, Step, MemoryInv, HandTyped, ConflictFound
<1>2. MemoriesTyped' /\ NothingForgotten' /\ Grows
  <2>1. CASE UNCHANGED memories
    BY <2>1, UnwrittenKeeps DEF Supersede
  <2>2. CASE memories' = Append(Superseded(memories, conflict[t]), New(t))
    <3>1. /\ New(t) \in Notes /\ New(t).status = "active" /\ New(t).replaces = conflict[t]
          /\ Finds(New(t).keywords, memories[conflict[t]].keywords)
      BY <1>1, NewIsNote
    <3> QED BY <1>1, <2>2, <3>1, ReplaceKeeps DEF Supersede
  <2> QED BY <2>1, <2>2 DEF Supersede
<1>3. Len(memories) \in Nat /\ Len(memories') \in Nat /\ Len(memories) <= Len(memories')
  BY <1>2 DEF MemoryInv, MemoriesTyped, Grows
<1>4. HandTyped'
  BY <1>3 DEF Supersede, Step, MemoryInv, HandTyped
<1>5. ConflictFound(t)'
  BY DEF Supersede, Step, ConflictFound, MemoryInv, HandTyped
<1> QED BY <1>2, <1>4, <1>5, MoveKeeps DEF Supersede, Step, MemoryInv, HandTyped

(* Supersede of Elasticsearch, first write: what it adds is the memory     *)
(* that the mark will point from.                                          *)
LEMMA WriteNewKeeps ==
  ASSUME MemoryInv, NEW t \in Turns, WriteNew(t)
  PROVE  MemoryInv'
<1>1. /\ conflict[t] \in DOMAIN memories /\ item[t] # {}
      /\ Finds(item[t], memories[conflict[t]].keywords)
  BY DEF WriteNew, Step, MemoryInv, HandTyped, ConflictFound
<1>2. DOMAIN memories = 1..Len(memories) /\ Len(memories) \in Nat /\ memories \in Seq(Notes)
  BY DEF MemoryInv, MemoriesTyped
<1>3. MemoriesTyped' /\ NothingForgotten' /\ Grows
  <2>1. CASE UNCHANGED memories
    BY <2>1, UnwrittenKeeps DEF WriteNew
  <2>2. CASE memories' = Append(memories, New(t))
    <3>1. New(t).replaces <= Len(memories) /\ New(t).keywords # {} /\ memStore # "mysql"
      BY <1>1, <1>2, NewIsNote DEF WriteNew
    <3>2. New(t) \in Notes /\ New(t).status = "active" /\ UNCHANGED memStore
      BY <1>1, NewIsNote DEF WriteNew
    <3> QED BY <2>2, <3>1, <3>2, AppendKeeps
  <2> QED BY <2>1, <2>2 DEF WriteNew
<1>4. Len(memories) \in Nat /\ Len(memories') \in Nat /\ Len(memories) <= Len(memories')
  BY <1>3 DEF MemoryInv, MemoriesTyped, Grows
<1>5. HandTyped'
  <2>1. /\ extractor[t] = "supersede" /\ items' = items /\ UNCHANGED <<item, conflict, memStore>>
        /\ \/ extractor' = [extractor EXCEPT ![t] = "mark"]
           \/ extractor' = [extractor EXCEPT ![t] = "item"]
    BY DEF WriteNew, Step
  <2>2. memStore = "es"
    BY DEF WriteNew
  <2>3. conflict \in [Turns -> 0..Len(memories')]
    BY <1>4 DEF MemoryInv, HandTyped
  <2> QED BY <2>1, <2>2, <2>3 DEF MemoryInv, HandTyped
<1>6. UNCHANGED <<item, conflict, memStore>>
  BY DEF WriteNew
<1>7. CASE Step(t, "supersede", "item")
  <2>1. ConflictFound(t)'
    BY <1>7 DEF Step, ConflictFound, MemoryInv, HandTyped
  <2> QED BY <1>3, <1>5, <1>6, <1>7, <2>1, MoveKeeps DEF Step, MemoryInv, HandTyped
<1>8. CASE Step(t, "supersede", "mark") /\ memories' = Append(memories, New(t))
  <2>1. PICK new \in Nat : new = Len(memories) + 1
    BY <1>2
  <2>2. /\ DOMAIN memories' = DOMAIN memories \cup {new} /\ memories'[new] = New(t)
        /\ \A m \in DOMAIN memories : memories'[m] = memories[m]
    BY <1>2, <1>8, <2>1, NewIsNote, Added
  <2>3. /\ new \in DOMAIN memories' /\ memories'[new].replaces = conflict[t]
        /\ Finds(memories'[new].keywords, memories'[conflict[t]].keywords)
    BY <1>1, <2>2, NewIsNote
  <2>4. ConflictFound(t)'
    <3>1. TakesPlace(new, conflict[t])'
      BY <1>6, <2>3 DEF TakesPlace, Finds
    <3> QED BY <1>1, <1>6, <2>2, <2>3, <3>1 DEF ConflictFound, Finds
  <2> QED BY <1>3, <1>5, <1>6, <1>8, <2>4, MoveKeeps DEF Step, MemoryInv, HandTyped
<1> QED BY <1>7, <1>8 DEF WriteNew

(* Second write: the mark on a memory whose place is taken.                *)
LEMMA MarkOldKeeps ==
  ASSUME MemoryInv, NEW t \in Turns, MarkOld(t)
  PROVE  MemoryInv'
<1>1. /\ conflict[t] \in DOMAIN memories
      /\ \E n \in DOMAIN memories : TakesPlace(n, conflict[t])
  BY DEF MarkOld, Step, MemoryInv, ConflictFound
<1>2. MemoriesTyped' /\ NothingForgotten' /\ Grows
  <2>1. CASE UNCHANGED memories
    BY <2>1, UnwrittenKeeps DEF MarkOld
  <2>2. CASE memories' = Superseded(memories, conflict[t])
    BY <1>1, <2>2, MarkKeeps DEF MarkOld
  <2> QED BY <2>1, <2>2 DEF MarkOld
<1>3. Len(memories) \in Nat /\ Len(memories') \in Nat /\ Len(memories) <= Len(memories')
  BY <1>2 DEF MemoryInv, MemoriesTyped, Grows
<1>4. HandTyped'
  BY <1>3 DEF MarkOld, Step, MemoryInv, HandTyped
<1>5. ConflictFound(t)'
  BY DEF MarkOld, Step, ConflictFound, MemoryInv, HandTyped
<1> QED BY <1>2, <1>4, <1>5, MoveKeeps DEF MarkOld, Step, MemoryInv, HandTyped

(* A stop leaves what is written and empties all hands.                    *)
LEMMA ProcessStopsKeeps ==
  ASSUME MemoryInv, ProcessStops
  PROVE  MemoryInv'
<1>1. MemoriesTyped' /\ NothingForgotten'
  BY UnwrittenKeeps DEF ProcessStops
<1>2. Len(memories) \in Nat /\ MaxItems \in Nat
  BY MemoryAssumption DEF MemoryInv, MemoriesTyped
<1>3. HandTyped' /\ \A t \in Turns : ConflictFound(t)'
  BY <1>2 DEF ProcessStops, MemoryInv, HandTyped, ConflictFound
<1> QED BY <1>1, <1>3 DEF MemoryInv

(* MemoryInv stands through every step.                                   *)
LEMMA MemoryInvStep == MemoryInv /\ [MemoryNext]_memoryVars => MemoryInv'
<1> SUFFICES ASSUME MemoryInv, [MemoryNext]_memoryVars
             PROVE  MemoryInv'
  OBVIOUS
<1>1. CASE UNCHANGED memoryVars
  <2>1. MemoriesTyped' /\ NothingForgotten'
    BY <1>1, UnwrittenKeeps DEF memoryVars
  <2>2. HandTyped'
    BY <1>1 DEF memoryVars, MemoryInv, HandTyped
  <2>3. \A t \in Turns : ConflictFound(t)'
    BY <1>1 DEF memoryVars, MemoryInv, ConflictFound, TakesPlace, Finds
  <2> QED BY <2>1, <2>2, <2>3 DEF MemoryInv
<1>2. ASSUME NEW t \in Turns, Extract(t) \/ FindConflict(t) \/ IndexMemory(t)
      PROVE  MemoryInv'
  BY <1>2, ExtractKeeps, FindConflictKeeps, IndexKeeps
<1>3. ASSUME NEW t \in Turns, Supersede(t) \/ WriteNew(t) \/ MarkOld(t)
      PROVE  MemoryInv'
  BY <1>3, SupersedeKeeps, WriteNewKeeps, MarkOldKeeps
<1>4. CASE ProcessStops
  BY <1>4, ProcessStopsKeeps
<1> QED BY <1>1, <1>2, <1>3, <1>4 DEF MemoryNext

LEMMA MemoryInvAlways == MemorySpec => []MemoryInv
  BY InitMemoryInv, MemoryInvStep, PTL DEF MemorySpec

-----------------------------------------------------------------------------
(* The variables of the memory keep their types.                           *)
THEOREM MemoryTyped == MemorySpec => []MemoryTypeOK
<1>1. MemoryInv => MemoryTypeOK
  <2> SUFFICES ASSUME MemoryInv PROVE MemoryTypeOK
    OBVIOUS
  <2>1. ASSUME NEW m \in DOMAIN memories
        PROVE  /\ memories[m].status \in {"active", "superseded"}
               /\ memories[m].keywords \in KeywordLists
               /\ memories[m].replaces \in 0..(m - 1)
    <3>1. memories[m] \in Notes /\ m \in Nat
      BY DEF MemoryInv, MemoriesTyped
    <3>2. memories[m].replaces < m /\ memories[m].keywords # {}
      BY DEF MemoryInv, MemoriesTyped
    <3>3. memories[m].replaces \in 0..(m - 1)
      BY <3>1, <3>2 DEF Notes
    <3> QED BY <3>1, <3>2, <3>3 DEF Notes
  <2> QED BY <2>1 DEF MemoryInv, MemoriesTyped, HandTyped, MemoryTypeOK
<1> QED BY <1>1, MemoryInvAlways, PTL

(* No memory leaves the prompt but for one that has taken its place and    *)
(* shares a keyword with it, whatever calls fail and wherever the process  *)
(* stops; in MySQL the two never count side by side (Supersede, both       *)
(* stores).                                                                *)
THEOREM MemoryKept == MemorySpec => []NothingForgotten
<1>1. MemoryInv => NothingForgotten
  BY DEF MemoryInv
<1> QED BY <1>1, MemoryInvAlways, PTL

-----------------------------------------------------------------------------
(* The semantic cache and the chat requests.                               *)

SemTyped ==
  /\ now \in 0..MaxTime
  /\ entries = [k \in DOMAIN entries |-> entries[k]]
  /\ hits \in Nat /\ misses \in Nat
  /\ pc \in [Requests -> Labels]
  /\ query \in [Requests -> Queries \cup {None}]
  /\ vec \in [Requests -> Queries \cup {NoVector, None}]
  /\ answer \in [Requests -> Requests \cup {Degraded, None}]
  /\ dialogue = [r \in Requests |-> dialogue[r]] /\ lost \subseteq Requests
  /\ storedAt \in [Requests -> 0..MaxTime \cup {None}]

(* The list and the map agree.                                             *)
Listing ==
  /\ order \in Seq(Queries) /\ IsInjective(order) /\ Len(order) <= Capacity
  /\ Range(order) = DOMAIN entries

(* What each request holds between its steps.                              *)
Holding ==
  \A r \in Requests :
    /\ pc[r] # "ask" => query[r] \in Queries
    /\ pc[r] \in {"lookup", "store"} => query[r] \notin Realtime /\ vec[r] \in {query[r], NoVector}
    /\ pc[r] \in {"put", "store"} => answer[r] = r

(* An entry was put by a run of the chain for its own query.               *)
Genuine ==
  \A k \in DOMAIN entries :
    LET maker == entries[k].answer IN
    /\ maker \in Requests /\ query[maker] = k /\ k \notin Realtime
    /\ pc[maker] \in {"save", "done"}
    /\ entries[k].embed \in {k, NoVector}
    /\ storedAt[maker] \in 0..MaxTime /\ entries[k].expireAt = storedAt[maker] + AnswerTTL

Looked == {r \in Requests : pc[r] \notin {"ask", "get", "lookup"}}
Counting == IsFiniteSet(Looked) /\ hits + misses = Cardinality(Looked)

(* What a conversation has of its request so far.                          *)
Telling ==
  \A r \in Requests \ lost :
    dialogue[r] = CASE pc[r] = "ask"  -> <<>>
                    [] pc[r] = "done" -> <<"question", answer[r]>>
                    [] OTHER          -> <<"question">>

SemInv == SemTyped /\ Listing /\ Holding /\ Genuine /\ Counting /\ Telling

-----------------------------------------------------------------------------
(* The list of the queries, as its operations leave it.                    *)
Lists(s, E) ==
  /\ s \in Seq(Queries) /\ IsInjective(s) /\ Len(s) <= Capacity
  /\ Range(s) = E

LEMMA DroppingIs ==
  ASSUME NEW s \in Seq(Queries), IsInjective(s), NEW keys
  PROVE  /\ Dropping(s, keys) \in Seq(Queries) /\ IsInjective(Dropping(s, keys))
         /\ Len(Dropping(s, keys)) <= Len(s) /\ Len(Dropping(s, keys)) \in Nat
         /\ Len(s) \in Nat
         /\ Range(Dropping(s, keys)) = Range(s) \ keys
<1> DEFINE S == Queries \ keys
           F == Filter(s, S)
<1>1. /\ Range(F) = Range(s) \cap S /\ IsInjective(F)
      /\ F \in Seq(Queries) /\ Len(F) <= Len(s)
  BY FilterRange
<1>2. Range(s) \subseteq Queries
  BY LenProperties, ElementOfSeq DEF Range
<1>3. Len(F) \in Nat /\ Len(s) \in Nat
  BY <1>1, LenProperties
<1> HIDE DEF F
<1> QED BY <1>1, <1>2, <1>3 DEF F, Dropping

(* A query goes to the front of the list, which may have it already.       *)
LEMMA MoveToFrontIs ==
  ASSUME NEW s \in Seq(Queries), IsInjective(s), NEW q \in Queries
  PROVE  /\ MoveToFront(q, s) \in Seq(Queries) /\ IsInjective(MoveToFront(q, s))
         /\ Range(MoveToFront(q, s)) = Range(s) \cup {q}
         /\ Len(MoveToFront(q, s)) <= Len(s) + 1
         /\ q \in Range(s) => Len(MoveToFront(q, s)) = Len(s)
<1> DEFINE rest == Dropping(s, {q})
           t == <<q>> \o rest
<1>1. /\ rest \in Seq(Queries) /\ IsInjective(rest) /\ Range(rest) = Range(s) \ {q}
      /\ Len(rest) \in Nat /\ Len(s) \in Nat /\ Len(rest) <= Len(s)
  BY DroppingIs
<1> HIDE DEF rest
<1>2. /\ t \in Seq(Queries) /\ Len(t) = Len(rest) + 1
      /\ Range(t) = Range(rest) \cup {q} /\ IsInjective(t)
  BY <1>1, RangeOfFront
<1> HIDE DEF t
<1>3. Range(t) = Range(s) \cup {q} /\ Len(t) <= Len(s) + 1
  BY <1>1, <1>2
<1>4. ASSUME q \in Range(s) PROVE Len(t) = Len(s)
  <2>1. Range(t) = Range(s)
    BY <1>3, <1>4
  <2>2. Cardinality(Range(t)) = Len(t)
    BY <1>2, LenOfInjective
  <2>3. Cardinality(Range(s)) = Len(s)
    BY LenOfInjective
  <2> QED BY <2>1, <2>2, <2>3
<1> QED BY <1>2, <1>3, <1>4 DEF t, rest, MoveToFront

(* After MakeRoom one more query fits.                                     *)
LEMMA MakeRoomIs ==
  ASSUME NEW s \in Seq(Queries), IsInjective(s)
  PROVE  /\ MakeRoom(s) \in Seq(Queries) /\ IsInjective(MakeRoom(s))
         /\ Range(MakeRoom(s)) \subseteq Range(s)
         /\ Len(MakeRoom(s)) + 1 <= Capacity
<1>1. Len(s) \in Nat /\ Capacity \in Nat \ {0} /\ Capacity - 1 \in Nat
  BY LenProperties, SemanticCacheAssumption
<1>2. CASE Len(s) >= Capacity
  <2> DEFINE k == Capacity - 1
             t == SubSeq(s, 1, k)
  <2>1. k \in Nat /\ k <= Len(s) /\ k + 1 = Capacity
    BY <1>1, <1>2
  <2> HIDE DEF k
  <2>2. t \in Seq(Queries) /\ Len(t) = k /\ Range(t) \subseteq Range(s) /\ IsInjective(t)
    BY <2>1, FirstOnes
  <2>3. MakeRoom(s) = t
    BY <1>2 DEF MakeRoom, k
  <2> HIDE DEF t
  <2> QED BY <1>1, <2>1, <2>2, <2>3
<1>3. CASE ~(Len(s) >= Capacity)
  BY <1>1, <1>3 DEF MakeRoom
<1> QED BY <1>2, <1>3

LEMMA LiveOrderIs ==
  ASSUME Listing
  PROVE  Lists(LiveOrder, Live) /\ Live \subseteq DOMAIN entries /\ Live \subseteq Queries
<1>1. order \in Seq(Queries) /\ IsInjective(order) /\ Range(order) = DOMAIN entries /\ Len(order) <= Capacity
  BY DEF Listing
<1>2. Live \subseteq DOMAIN entries
  BY DEF Live
<1> DEFINE dead == DOMAIN entries \ Live
           t == Dropping(order, dead)
<1>3. /\ t \in Seq(Queries) /\ IsInjective(t)
      /\ Len(t) <= Len(order) /\ Len(t) \in Nat /\ Len(order) \in Nat
      /\ Range(t) = Range(order) \ dead
  BY <1>1, DroppingIs
<1>4. Range(order) \subseteq Queries
  BY <1>1, LenProperties, ElementOfSeq DEF Range
<1> HIDE DEF t
<1>5. Capacity \in Nat
  BY SemanticCacheAssumption
<1>6. Range(t) = Live /\ Live \subseteq Queries
  <2> HIDE DEF Live
  <2> QED BY <1>1, <1>2, <1>3, <1>4
<1>7. Len(t) <= Capacity
  <2> DEFINE a == Len(t)
             b == Len(order)
  <2>1. a \in Nat /\ b \in Nat /\ a <= b /\ b <= Capacity
    BY <1>1, <1>3
  <2> HIDE DEF a, b
  <2>2. a <= Capacity
    BY <1>5, <2>1
  <2> QED BY <2>2 DEF a
<1>8. LiveOrder = t
  BY DEF t, LiveOrder
<1> HIDE DEF Live
<1> QED BY <1>2, <1>3, <1>6, <1>7, <1>8 DEF Lists

-----------------------------------------------------------------------------
(* What the two steps under the lock leave of the map and of the list.     *)
Swept == /\ DOMAIN entries' = Live
         /\ \A k \in Live : entries'[k] = entries[k]
         /\ entries' = [k \in Live |-> entries'[k]]

LEMMA Sweeps ==
  ASSUME Listing, entries' = Restrict(entries, Live)
  PROVE  Swept
<1>1. Live \subseteq DOMAIN entries
  BY DEF Live
<1>2. entries' = [k \in Live |-> entries[k]]
  BY DEF Restrict
<1> HIDE DEF Live
<1> QED BY <1>2 DEF Swept

LEMMA HitKeepsListing ==
  ASSUME Listing, NEW r \in Requests, Hit(r)
  PROVE  Swept /\ Listing'
<1>1. PICK k \in Matches(vec[r]) : order' = MoveToFront(k, LiveOrder)
  BY DEF Hit
<1>2. k \in Live
  BY DEF Matches
<1>3. Swept
  BY Sweeps DEF Hit
<1>4. Lists(LiveOrder, Live) /\ k \in Queries
  BY <1>2, LiveOrderIs
<1>5. Lists(MoveToFront(k, LiveOrder), Live)
  <2> DEFINE s == LiveOrder
  <2>1. s \in Seq(Queries) /\ IsInjective(s) /\ Len(s) <= Capacity /\ Range(s) = Live
    BY <1>4 DEF Lists
  <2> HIDE DEF s
  <2>2. /\ MoveToFront(k, s) \in Seq(Queries) /\ IsInjective(MoveToFront(k, s))
        /\ Range(MoveToFront(k, s)) = Range(s) \cup {k}
        /\ k \in Range(s) => Len(MoveToFront(k, s)) = Len(s)
    BY <1>4, <2>1, MoveToFrontIs
  <2>3. Lists(MoveToFront(k, s), Live)
    BY <1>2, <2>1, <2>2 DEF Lists
  <2> QED BY <2>3 DEF s
<1>6. Lists(order', Live)
  BY <1>1, <1>5
<1> HIDE DEF Live
<1> QED BY <1>3, <1>6 DEF Swept, Lists, Listing

LEMMA NoHitKeepsListing ==
  ASSUME Listing, NEW r \in Requests, NoHit(r)
  PROVE  Swept /\ Listing'
<1>1. Swept
  BY Sweeps DEF NoHit
<1>2. Lists(order', Live)
  BY LiveOrderIs DEF NoHit
<1> HIDE DEF Live
<1> QED BY <1>1, <1>2 DEF Swept, Lists, Listing

(* The step of Put under the lock.                                         *)
Stored(r) ==
  /\ query[r] \in DOMAIN entries' /\ entries'[query[r]] = EntryOf(r)
  /\ \A k \in DOMAIN entries' \ {query[r]} : k \in DOMAIN entries /\ entries'[k] = entries[k]
  /\ entries' = [k \in DOMAIN entries' |-> entries'[k]]

LEMMA StoreKeepsListing ==
  ASSUME Listing, NEW r \in Requests, Store(r), query[r] \in Queries
  PROVE  Stored(r) /\ Listing'
<1> DEFINE q == query[r]
           kept == IF q \in Live THEN LiveOrder ELSE MakeRoom(LiveOrder)
           E == Range(kept) \cup {q}
<1>1. /\ order' = MoveToFront(q, kept)
      /\ entries' = [k \in E |-> IF k = q THEN EntryOf(r) ELSE entries[k]]
  BY DEF Store
<1>2. Lists(LiveOrder, Live) /\ Live \subseteq DOMAIN entries
  BY LiveOrderIs
<1>3. /\ kept \in Seq(Queries) /\ IsInjective(kept) /\ Range(kept) \subseteq Live
      /\ \/ Len(kept) <= Capacity /\ q \in Range(kept)
         \/ Len(kept) + 1 <= Capacity
  <2> DEFINE s == LiveOrder
  <2>1. s \in Seq(Queries) /\ IsInjective(s) /\ Len(s) <= Capacity /\ Range(s) = Live
    BY <1>2 DEF Lists
  <2>2. CASE q \in Live
    <3>1. kept = s
      BY <2>2
    <3> HIDE DEF kept, s, q
    <3> QED BY <2>1, <2>2, <3>1
  <2>3. CASE q \notin Live
    <3>1. kept = MakeRoom(s)
      BY <2>3
    <3> HIDE DEF kept, s, q
    <3>2. /\ MakeRoom(s) \in Seq(Queries) /\ IsInjective(MakeRoom(s))
          /\ Range(MakeRoom(s)) \subseteq Range(s)
          /\ Len(MakeRoom(s)) + 1 <= Capacity
      BY <2>1, MakeRoomIs
    <3> QED BY <2>1, <3>1, <3>2
  <2> QED BY <2>2, <2>3
<1>4. q \in Queries
  OBVIOUS
<1> HIDE DEF kept, q
<1>5. Lists(order', E)
  <2>1. /\ MoveToFront(q, kept) \in Seq(Queries) /\ IsInjective(MoveToFront(q, kept))
        /\ Range(MoveToFront(q, kept)) = Range(kept) \cup {q}
        /\ Len(MoveToFront(q, kept)) <= Len(kept) + 1
        /\ q \in Range(kept) => Len(MoveToFront(q, kept)) = Len(kept)
    BY <1>3, <1>4, MoveToFrontIs
  <2>2. Len(kept) \in Nat /\ Len(MoveToFront(q, kept)) \in Nat /\ Capacity \in Nat
    BY <1>3, <2>1, LenProperties, SemanticCacheAssumption
  <2>3. Len(MoveToFront(q, kept)) <= Capacity
    BY <1>3, <2>1, <2>2
  <2> QED BY <1>1, <2>1, <2>3 DEF Lists
<1>6. /\ DOMAIN entries' = E /\ entries'[q] = EntryOf(r)
      /\ \A k \in E \ {q} : entries'[k] = entries[k] /\ k \in DOMAIN entries
      /\ entries' = [k \in E |-> entries'[k]]
  <2> HIDE DEF Live
  <2>1. \A k \in E \ {q} : k \in DOMAIN entries
    BY <1>2, <1>3
  <2> DEFINE new == EntryOf(r)
  <2> HIDE DEF new
  <2>2. entries' = [k \in E |-> IF k = q THEN new ELSE entries[k]]
    BY <1>1 DEF new
  <2>3. q \in E
    OBVIOUS
  <2> HIDE DEF E
  <2> QED BY <2>1, <2>2, <2>3 DEF new
<1> HIDE DEF E
<1>7. Listing'
  BY <1>5, <1>6 DEF Lists, Listing
<1>8. Stored(r)
  <2> DEFINE new == EntryOf(r)
             heap == entries'
  <2>1. /\ DOMAIN heap = E /\ heap[q] = new
        /\ \A k \in E \ {q} : heap[k] = entries[k] /\ k \in DOMAIN entries
        /\ heap = [k \in E |-> heap[k]]
    BY <1>6
  <2>2. q \in E
    BY DEF E
  <2> HIDE DEF new, heap
  <2>3. /\ q \in DOMAIN heap /\ heap[q] = new
        /\ \A k \in DOMAIN heap \ {q} : k \in DOMAIN entries /\ heap[k] = entries[k]
        /\ heap = [k \in DOMAIN heap |-> heap[k]]
    <3>1. DOMAIN heap = E
      BY <2>1
    <3>2. heap = [k \in DOMAIN heap |-> heap[k]]
      BY <2>1
    <3>3. q \in DOMAIN heap /\ heap[q] = new
      BY <2>1, <2>2
    <3>4. \A k \in DOMAIN heap \ {q} : k \in DOMAIN entries /\ heap[k] = entries[k]
      BY <2>1, <3>1
    <3> QED BY <3>1, <3>2, <3>3, <3>4
  <2> QED BY <2>3 DEF Stored, q, heap, new
<1> QED BY <1>7, <1>8

LEMMA RestingKeepsListing ==
  ASSUME Listing, UNCHANGED cache
  PROVE  Listing'
BY DEF Listing, cache

LEMMA ListingKept ==
  ASSUME SemInv, [SemanticNext]_semanticVars
  PROVE  Listing'
<1>1. Listing /\ Holding
  BY DEF SemInv
<1> SUFFICES ASSUME ~UNCHANGED cache PROVE Listing'
  BY <1>1, RestingKeepsListing
<1>2. ASSUME NEW r \in Requests, Hit(r) PROVE Listing'
  BY <1>1, <1>2, HitKeepsListing
<1>3. ASSUME NEW r \in Requests, NoHit(r) PROVE Listing'
  BY <1>1, <1>3, NoHitKeepsListing
<1>4. ASSUME NEW r \in Requests, Store(r) PROVE Listing'
  <2>1. pc[r] = "store"
    BY <1>4 DEF Store
  <2>2. query[r] \in Queries
    BY <1>1, <2>1 DEF Holding
  <2> QED BY <1>1, <1>4, <2>2, StoreKeepsListing
<1>5. ~UNCHANGED semanticVars
  BY DEF semanticVars, cache
<1>6. ASSUME NEW r \in Requests, Chat(r) PROVE Hit(r) \/ NoHit(r) \/ Store(r)
  BY <1>6 DEF Chat, Get, Put, GetSkips, GetEmbeds, ChainAnswers, ChainFails, PutSkips, PutEmbeds, SaveAnswer
<1>7. ASSUME NEW r \in Requests, NEW q \in Queries, Ask(r, q) PROVE FALSE
  BY <1>7 DEF Ask
<1>8. ASSUME Tick PROVE FALSE
  BY <1>8 DEF Tick
<1> QED BY <1>2, <1>3, <1>4, <1>5, <1>6, <1>7, <1>8 DEF SemanticNext

(* Every entry is one that was there, or the one its own request has just  *)
(* put.                                                                    *)
EntriesFrom ==
  \A k \in DOMAIN entries' :
    \/ k \in DOMAIN entries /\ entries'[k] = entries[k]
    \/ \E r \in Requests :
         /\ pc[r] = "store" /\ pc' = [pc EXCEPT ![r] = "save"] /\ query[r] = k
         /\ entries'[k] = EntryOf(r)

LEMMA EntriesComeFrom ==
  ASSUME SemInv, [SemanticNext]_semanticVars
  PROVE  EntriesFrom /\ entries' = [k \in DOMAIN entries' |-> entries'[k]]
<1>1. Listing /\ Holding /\ entries = [k \in DOMAIN entries |-> entries[k]]
  BY DEF SemInv, SemTyped
<1>2. ASSUME UNCHANGED entries PROVE EntriesFrom /\ entries' = [k \in DOMAIN entries' |-> entries'[k]]
  BY <1>1, <1>2 DEF EntriesFrom
<1>3. ASSUME Swept PROVE EntriesFrom /\ entries' = [k \in DOMAIN entries' |-> entries'[k]]
  BY <1>3 DEF Swept, Live, EntriesFrom
<1>4. ASSUME NEW r \in Requests, Store(r)
      PROVE  EntriesFrom /\ entries' = [k \in DOMAIN entries' |-> entries'[k]]
  <2>1. pc[r] = "store" /\ pc' = [pc EXCEPT ![r] = "save"]
    BY <1>4 DEF Store, Goto
  <2>2. query[r] \in Queries
    BY <1>1, <2>1 DEF Holding
  <2>3. Stored(r)
    BY <1>1, <1>4, <2>2, StoreKeepsListing
  <2>4. entries' = [k \in DOMAIN entries' |-> entries'[k]]
    BY <2>3 DEF Stored
  <2>5. ASSUME NEW k \in DOMAIN entries', k # query[r]
        PROVE  k \in DOMAIN entries /\ entries'[k] = entries[k]
    BY <2>3, <2>5 DEF Stored
  <2>6. entries'[query[r]] = EntryOf(r)
    BY <2>3 DEF Stored
  <2> QED BY <2>1, <2>4, <2>5, <2>6 DEF EntriesFrom
<1>5. ASSUME NEW r \in Requests, Hit(r) \/ NoHit(r) PROVE Swept
  <2>1. CASE Hit(r)
    BY <1>1, <2>1, HitKeepsListing
  <2>2. CASE NoHit(r)
    BY <1>1, <2>2, NoHitKeepsListing
  <2> QED BY <1>5, <2>1, <2>2
<1>6. ASSUME NEW r \in Requests, Chat(r) PROVE UNCHANGED entries \/ Hit(r) \/ NoHit(r) \/ Store(r)
  BY <1>6 DEF Chat, Get, Put, GetSkips, GetEmbeds, ChainAnswers, ChainFails, PutSkips, PutEmbeds, SaveAnswer, cache
<1>7. ASSUME NEW r \in Requests, NEW q \in Queries, Ask(r, q) PROVE UNCHANGED entries
  BY <1>7 DEF Ask, cache
<1>8. ASSUME Tick PROVE UNCHANGED entries
  BY <1>8 DEF Tick, cache
<1>9. ASSUME UNCHANGED semanticVars PROVE UNCHANGED entries
  BY <1>9 DEF semanticVars, cache
<1> QED BY <1>2, <1>3, <1>4, <1>5, <1>6, <1>7, <1>8, <1>9 DEF SemanticNext

-----------------------------------------------------------------------------
(* What a step of one request leaves alone of the others.                  *)
OnlyOne(r) ==
  \A s \in Requests \ {r} :
    /\ pc'[s] = pc[s] /\ query'[s] = query[s] /\ vec'[s] = vec[s]
    /\ answer'[s] = answer[s] /\ dialogue'[s] = dialogue[s] /\ storedAt'[s] = storedAt[s]
    /\ (s \in lost' <=> s \in lost)

(* What the step of r leaves of r: where it goes, what it asks, holds,     *)
(* answers and has saved.                                                  *)
Steps(r) ==
  \/ /\ pc[r] = "ask" /\ pc'[r] = "get"
     /\ query'[r] \in Queries /\ vec'[r] = vec[r]
     /\ answer'[r] = answer[r] /\ storedAt'[r] = storedAt[r] /\ UNCHANGED counts
     /\ \/ r \in lost'
        \/ /\ dialogue'[r] = Append(dialogue[r], "question")
           /\ UNCHANGED lost
  \/ /\ pc[r] \in {"get", "put"} /\ pc'[r] = (IF pc[r] = "get" THEN "lookup" ELSE "store")
     /\ query[r] \notin Realtime /\ vec'[r] \in {query[r], NoVector}
     /\ UNCHANGED <<query, answer, saved, storedAt, counts>>
  \/ /\ pc[r] \in {"get", "lookup"} /\ pc'[r] = "invoke"
     /\ misses' = misses + 1 /\ UNCHANGED hits
     /\ vec'[r] \in {vec[r], None}
     /\ UNCHANGED <<query, answer, saved, storedAt>>
  \/ /\ pc[r] = "lookup" /\ pc'[r] = "save"
     /\ hits' = hits + 1 /\ UNCHANGED misses
     /\ \E k \in Matches(vec[r]) : answer'[r] = entries[k].answer
     /\ vec'[r] = None
     /\ UNCHANGED <<query, saved, storedAt>>
  \/ /\ pc[r] = "invoke" /\ UNCHANGED <<query, vec, saved, storedAt, counts>>
     /\ \/ pc'[r] = "put" /\ answer'[r] = r
        \/ pc'[r] = "save" /\ answer'[r] = Degraded
  \/ /\ pc[r] \in {"put", "store"} /\ pc'[r] = "save" /\ UNCHANGED <<query, answer, saved, counts>>
     /\ vec'[r] \in {vec[r], None}
     /\ storedAt'[r] = (IF pc[r] = "put" THEN storedAt[r] ELSE now)
  \/ /\ pc[r] = "save" /\ pc'[r] = "done" /\ UNCHANGED <<query, vec, answer, storedAt, counts>>
     /\ \/ r \in lost'
        \/ /\ dialogue'[r] = Append(dialogue[r], answer[r])
           /\ UNCHANGED lost

(* What the operations keep of the shape of the variables.                 *)
Shape ==
  /\ pc \in [Requests -> Labels]
  /\ query = [r \in Requests |-> query[r]] /\ vec = [r \in Requests |-> vec[r]]
  /\ answer = [r \in Requests |-> answer[r]] /\ storedAt = [r \in Requests |-> storedAt[r]]
  /\ dialogue = [r \in Requests |-> dialogue[r]]

(* Every step is the clock's, or of one request.                           *)
LEMMA StepsOf ==
  ASSUME SemInv, SemanticNext, ~Tick
  PROVE  /\ Shape' /\ now' = now
         /\ lost' \subseteq Requests
         /\ \E r \in Requests : OnlyOne(r) /\ Steps(r)
<1>1. Shape /\ lost \subseteq Requests
  BY DEF SemInv, SemTyped, Shape
<1>2. ASSUME NEW r \in Requests, NEW q \in Queries, Ask(r, q)
      PROVE  /\ Shape' /\ now' = now /\ OnlyOne(r) /\ Steps(r)
             /\ lost' \subseteq Requests
  <2>1. CASE dialogue' = [dialogue EXCEPT ![r] = Append(@, "question")] /\ UNCHANGED lost
    BY <1>1, <1>2, <2>1 DEF Ask, Goto, Shape, OnlyOne, Steps, Labels, counts
  <2>2. CASE lost' = lost \cup {r} /\ UNCHANGED dialogue
    BY <1>1, <1>2, <2>2 DEF Ask, Goto, Shape, OnlyOne, Steps, Labels, counts
  <2> QED BY <1>2, <2>1, <2>2 DEF Ask, SaveMessage
<1>3. ASSUME NEW r \in Requests, Chat(r)
      PROVE  /\ Shape' /\ now' = now /\ OnlyOne(r) /\ Steps(r)
             /\ lost' \subseteq Requests
  <2>1. CASE GetSkips(r)
    BY <1>1, <2>1 DEF GetSkips, Goto, Miss, Shape, OnlyOne, Steps, Labels, counts, saved
  <2>2. CASE GetEmbeds(r) \/ PutEmbeds(r)
    <3>1. PICK v \in {query[r], NoVector} : vec' = [vec EXCEPT ![r] = v]
      BY <2>2 DEF GetEmbeds, PutEmbeds, Embed
    <3>2. CASE GetEmbeds(r)
      BY <1>1, <3>1, <3>2 DEF GetEmbeds, Goto, Shape, OnlyOne, Steps, Labels, counts, saved
    <3>3. CASE PutEmbeds(r)
      BY <1>1, <3>1, <3>3 DEF PutEmbeds, Goto, Shape, OnlyOne, Steps, Labels, counts, saved
    <3> QED BY <2>2, <3>2, <3>3
  <2>3. CASE Hit(r)
    <3>1. PICK k \in Matches(vec[r]) : answer' = [answer EXCEPT ![r] = entries[k].answer]
      BY <2>3 DEF Hit
    <3> DEFINE a == entries[k].answer
    <3>2. answer'[r] = a /\ answer' = [answer EXCEPT ![r] = a]
      BY <1>1, <3>1 DEF Shape
    <3>3. \E j \in Matches(vec[r]) : answer'[r] = entries[j].answer
      BY <3>2
    <3> HIDE DEF a
    <3>4. Steps(r)
      BY <1>1, <2>3, <3>3 DEF Hit, Goto, Shape, Steps, Labels, saved
    <3> QED BY <1>1, <2>3, <3>2, <3>4 DEF Hit, Goto, Shape, OnlyOne, Labels, saved
  <2>4. CASE NoHit(r)
    BY <1>1, <2>4 DEF NoHit, Goto, Miss, Shape, OnlyOne, Steps, Labels, saved
  <2>5. CASE ChainAnswers(r)
    BY <1>1, <2>5 DEF ChainAnswers, Goto, Shape, OnlyOne, Steps, Labels, counts, saved
  <2>6. CASE ChainFails(r)
    BY <1>1, <2>6 DEF ChainFails, AfterNotice, Goto, Shape, OnlyOne, Steps, Labels, counts, saved
  <2>7. CASE PutSkips(r)
    BY <1>1, <2>7 DEF PutSkips, Goto, Shape, OnlyOne, Steps, Labels, counts, saved
  <2>8. CASE Store(r)
    BY <1>1, <2>8 DEF Store, Goto, Shape, OnlyOne, Steps, Labels, counts, saved
  <2>9. CASE SaveAnswer(r)
    <3> DEFINE a == answer[r]
    <3>1. \/ dialogue' = [dialogue EXCEPT ![r] = Append(@, a)] /\ UNCHANGED lost
          \/ lost' = lost \cup {r} /\ UNCHANGED dialogue
      BY <2>9 DEF SaveAnswer, SaveMessage
    <3>2. /\ pc[r] = "save" /\ pc' = [pc EXCEPT ![r] = "done"]
          /\ UNCHANGED <<now, hits, misses, query, vec, answer, storedAt>>
      BY <2>9 DEF SaveAnswer, Goto, counts
    <3>3. CASE dialogue' = [dialogue EXCEPT ![r] = Append(@, a)] /\ UNCHANGED lost
      BY <1>1, <3>2, <3>3 DEF Shape, OnlyOne, Steps, Labels, counts
    <3>4. CASE lost' = lost \cup {r} /\ UNCHANGED dialogue
      BY <1>1, <3>2, <3>4 DEF Shape, OnlyOne, Steps, Labels, counts
    <3> QED BY <3>1, <3>3, <3>4
  <2> QED BY <1>3, <2>1, <2>2, <2>3, <2>4, <2>5, <2>6, <2>7, <2>8, <2>9 DEF Chat, Get, Put
<1> QED BY <1>2, <1>3 DEF SemanticNext

(* What the clock's step leaves.                                           *)
LEMMA TickKeeps ==
  ASSUME SemInv, Tick \/ UNCHANGED semanticVars
  PROVE  /\ UNCHANGED <<entries, order, hits, misses, pc, query, vec, answer, dialogue, lost, storedAt>>
         /\ now' \in 0..MaxTime
<1>1. now \in 0..MaxTime /\ MaxTime \in Nat
  BY SemanticCacheAssumption DEF SemInv, SemTyped
<1>2. CASE Tick
  BY <1>1, <1>2 DEF Tick, cache, counts, saved
<1>3. CASE UNCHANGED semanticVars
  BY <1>1, <1>3 DEF semanticVars, cache, counts, saved
<1> QED BY <1>2, <1>3

-----------------------------------------------------------------------------
LEMMA TypedKept ==
  ASSUME SemInv, [SemanticNext]_semanticVars
  PROVE  SemTyped'
<1>1. SemTyped /\ Holding /\ Genuine /\ Shape
  BY DEF SemInv, SemTyped, Shape
<1>2. entries' = [k \in DOMAIN entries' |-> entries'[k]]
  BY EntriesComeFrom
<1>3. CASE Tick \/ UNCHANGED semanticVars
  <2>1. /\ UNCHANGED <<entries, order, hits, misses, pc, query, vec, answer, dialogue, lost, storedAt>>
        /\ now' \in 0..MaxTime
    BY <1>3, TickKeeps
  <2> QED BY <1>1, <2>1 DEF SemTyped
<1>4. CASE SemanticNext /\ ~Tick
  <2>1. Shape' /\ now' = now /\ lost' \subseteq Requests
    BY <1>4, StepsOf
  <2>2. PICK r \in Requests : OnlyOne(r) /\ Steps(r)
    BY <1>4, StepsOf
  <2>3. /\ hits' \in Nat /\ misses' \in Nat
    BY <1>1, <2>2 DEF Steps, SemTyped, counts
  <2>4. query'[r] \in Queries \cup {None}
    BY <1>1, <2>2 DEF Steps, SemTyped
  <2>5. vec'[r] \in Queries \cup {NoVector, None}
    BY <1>1, <2>2 DEF Steps, SemTyped
  <2>6. answer'[r] \in Requests \cup {Degraded, None}
    <3>1. \A k \in Matches(vec[r]) : entries[k].answer \in Requests
      BY <1>1 DEF Genuine, Matches, Live
    <3> QED BY <1>1, <2>2, <3>1 DEF Steps, SemTyped
  <2>7. storedAt'[r] \in 0..MaxTime \cup {None}
    BY <1>1, <2>2 DEF Steps, SemTyped
  <2>9. /\ query' \in [Requests -> Queries \cup {None}]
        /\ vec' \in [Requests -> Queries \cup {NoVector, None}]
        /\ answer' \in [Requests -> Requests \cup {Degraded, None}]
        /\ storedAt' \in [Requests -> 0..MaxTime \cup {None}]
    BY <1>1, <2>1, <2>2, <2>4, <2>5, <2>6, <2>7 DEF SemTyped, Shape, OnlyOne
  <2> QED BY <1>1, <1>2, <2>1, <2>3, <2>9 DEF SemTyped, Shape
<1> QED BY <1>3, <1>4

LEMMA HoldingKept ==
  ASSUME SemInv, [SemanticNext]_semanticVars
  PROVE  Holding'
<1>1. Holding
  BY DEF SemInv
<1>2. CASE Tick \/ UNCHANGED semanticVars
  <2>1. UNCHANGED <<pc, query, vec, answer>>
    BY <1>2, TickKeeps
  <2> QED BY <1>1, <2>1 DEF Holding
<1>3. CASE SemanticNext /\ ~Tick
  <2>1. PICK r \in Requests : OnlyOne(r) /\ Steps(r)
    BY <1>3, StepsOf
  <2>2. ASSUME NEW s \in Requests
        PROVE  /\ pc'[s] # "ask" => query'[s] \in Queries
               /\ pc'[s] \in {"lookup", "store"} => query'[s] \notin Realtime /\ vec'[s] \in {query'[s], NoVector}
               /\ pc'[s] \in {"put", "store"} => answer'[s] = s
    <3>1. CASE s # r
      BY <1>1, <2>1, <3>1 DEF Holding, OnlyOne
    <3>2. CASE s = r
      BY <1>1, <2>1, <3>2 DEF Holding, Steps
    <3> QED BY <3>1, <3>2
  <2> QED BY <2>2 DEF Holding
<1> QED BY <1>2, <1>3

LEMMA TellingKept ==
  ASSUME SemInv, [SemanticNext]_semanticVars
  PROVE  Telling'
<1>1. Telling /\ SemTyped
  BY DEF SemInv
<1>2. CASE Tick \/ UNCHANGED semanticVars
  <2>1. UNCHANGED <<pc, answer, dialogue, lost>>
    BY <1>2, TickKeeps
  <2> QED BY <1>1, <2>1 DEF Telling
<1>3. CASE SemanticNext /\ ~Tick
  <2>1. PICK r \in Requests : OnlyOne(r) /\ Steps(r)
    BY <1>3, StepsOf
  <2> DEFINE first == <<"question">>
             Said(p, a) == CASE p = "ask"  -> <<>>
                             [] p = "done" -> <<"question", a>>
                             [] OTHER      -> first
  <2>2. Append(<<>>, "question") = first /\ \A a : Append(first, a) = <<"question", a>>
    BY FirstTwo DEF first
  <2>3. /\ Said("ask", answer[r]) = <<>>
        /\ \A a : Said("done", a) = Append(first, a)
        /\ \A p \in Labels \ {"ask", "done"} : \A a : Said(p, a) = first
    BY <2>2
  <2>4. \A s \in Requests \ lost : dialogue[s] = Said(pc[s], answer[s])
    BY <1>1 DEF Telling
  <2>5. pc \in [Requests -> Labels]
    BY <1>1 DEF SemTyped
  <2>6. SUFFICES \A s \in Requests \ lost' : dialogue'[s] = Said(pc'[s], answer'[s])
    BY DEF Telling
  <2> HIDE DEF Said, first
  <2>7. ASSUME NEW s \in Requests, s \notin lost', s # r
        PROVE  dialogue'[s] = Said(pc'[s], answer'[s])
    BY <2>1, <2>4, <2>7 DEF OnlyOne
  <2>8. ASSUME r \notin lost' PROVE dialogue'[r] = Said(pc'[r], answer'[r])
    <3>1. r \notin lost
      BY <2>1, <2>8 DEF Steps, saved
    <3>2. dialogue[r] = Said(pc[r], answer[r])
      BY <2>4, <3>1
    <3>3. CASE pc[r] = "ask"
      <4>1. dialogue'[r] = Append(dialogue[r], "question") /\ pc'[r] = "get"
        BY <2>1, <2>8, <3>3 DEF Steps
      <4>2. dialogue[r] = <<>> /\ "get" \in Labels \ {"ask", "done"}
        BY <2>3, <3>2, <3>3 DEF Labels
      <4>3. Said("get", answer'[r]) = first
        BY <2>3, <4>2
      <4> QED BY <2>2, <4>1, <4>2, <4>3
    <3>4. CASE pc[r] = "save"
      <4>1. dialogue'[r] = Append(dialogue[r], answer[r]) /\ pc'[r] = "done" /\ answer' = answer
        BY <2>1, <2>8, <3>4 DEF Steps
      <4>2. dialogue[r] = first
        BY <2>3, <3>2, <3>4 DEF Labels
      <4>3. Said("done", answer[r]) = Append(first, answer[r])
        BY <2>3
      <4> QED BY <4>1, <4>2, <4>3
    <3>5. CASE pc[r] \notin {"ask", "save"}
      <4>1. dialogue'[r] = dialogue[r]
        BY <2>1, <3>5 DEF Steps, saved
      <4>2. pc[r] \in Labels \ {"ask", "done"} /\ pc'[r] \in Labels \ {"ask", "done"}
        BY <2>1, <2>5, <3>5 DEF Steps, Labels
      <4> QED BY <2>3, <3>2, <4>1, <4>2
    <3> QED BY <3>3, <3>4, <3>5
  <2> QED BY <2>7, <2>8
<1> QED BY <1>2, <1>3

(* A request that has put its answer has done with it.                     *)
LEMMA GenuineKept ==
  ASSUME SemInv, [SemanticNext]_semanticVars
  PROVE  Genuine'
<1>1. Genuine /\ Holding /\ now \in 0..MaxTime /\ EntriesFrom
  BY EntriesComeFrom DEF SemInv, SemTyped
<1>2. CASE Tick \/ UNCHANGED semanticVars
  <2>1. UNCHANGED <<entries, pc, query, storedAt>>
    BY <1>2, TickKeeps
  <2> QED BY <1>1, <2>1 DEF Genuine
<1>3. CASE SemanticNext /\ ~Tick
  <2>1. PICK r \in Requests : OnlyOne(r) /\ Steps(r)
    BY <1>3, StepsOf
  <2> DEFINE Sound(k, e, q, p, st) ==
        /\ e.answer \in Requests /\ q[e.answer] = k /\ k \notin Realtime
        /\ p[e.answer] \in {"save", "done"}
        /\ e.embed \in {k, NoVector}
        /\ st[e.answer] \in 0..MaxTime /\ e.expireAt = st[e.answer] + AnswerTTL
  <2>2. \A k \in DOMAIN entries : Sound(k, entries[k], query, pc, storedAt)
    BY <1>1 DEF Genuine
  <2>3. SUFFICES ASSUME NEW k \in DOMAIN entries' PROVE Sound(k, entries'[k], query', pc', storedAt')
    BY DEF Genuine
  <2>4. CASE k \in DOMAIN entries /\ entries'[k] = entries[k]
    <3> DEFINE e == entries[k]
    <3>1. Sound(k, e, query, pc, storedAt)
      BY <2>2, <2>4
    <3> HIDE DEF e
    <3>2. query'[e.answer] = query[e.answer] /\ storedAt'[e.answer] = storedAt[e.answer]
          /\ pc'[e.answer] \in {"save", "done"}
      <4>1. CASE e.answer # r
        BY <2>1, <3>1, <4>1 DEF OnlyOne
      <4>2. CASE e.answer = r
        BY <2>1, <3>1, <4>2 DEF Steps
      <4> QED BY <4>1, <4>2
    <3>3. Sound(k, e, query', pc', storedAt')
      BY <3>1, <3>2
    <3> QED BY <2>4, <3>3 DEF e
  <2>5. CASE \E s \in Requests :
               /\ pc[s] = "store" /\ pc' = [pc EXCEPT ![s] = "save"] /\ query[s] = k
               /\ entries'[k] = EntryOf(s)
    <3>1. PICK s \in Requests :
             /\ pc[s] = "store" /\ pc' = [pc EXCEPT ![s] = "save"] /\ query[s] = k
             /\ entries'[k] = EntryOf(s)
      BY <2>5
    <3>2. pc'[s] = "save"
      BY <3>1 DEF SemInv, SemTyped
    <3>3. s = r
      BY <2>1, <3>1, <3>2 DEF OnlyOne
    <3>4. storedAt'[s] = now /\ query'[s] = k
      BY <2>1, <3>1, <3>2, <3>3 DEF Steps
    <3>5. k \notin Realtime /\ vec[s] \in {k, NoVector} /\ answer[s] = s
      BY <1>1, <3>1 DEF Holding
    <3>6. /\ EntryOf(s).answer = s /\ EntryOf(s).embed = vec[s]
          /\ EntryOf(s).expireAt = now + AnswerTTL
      BY <3>5 DEF EntryOf
    <3> DEFINE e == EntryOf(s)
    <3> HIDE DEF e
    <3>7. Sound(k, e, query', pc', storedAt')
      BY <1>1, <3>2, <3>4, <3>5, <3>6 DEF e
    <3> QED BY <3>1, <3>7 DEF e
  <2> QED BY <1>1, <2>4, <2>5 DEF EntriesFrom
<1> QED BY <1>2, <1>3

LEMMA CountingKept ==
  ASSUME SemInv, [SemanticNext]_semanticVars
  PROVE  Counting'
<1>1. /\ IsFiniteSet(Looked) /\ hits + misses = Cardinality(Looked)
      /\ hits \in Nat /\ misses \in Nat /\ pc \in [Requests -> Labels]
  BY DEF SemInv, SemTyped, Counting
<1>2. CASE Tick \/ UNCHANGED semanticVars
  <2>1. UNCHANGED <<hits, misses, pc>>
    BY <1>2, TickKeeps
  <2>2. Looked' = Looked
    BY <2>1 DEF Looked
  <2> QED BY <1>1, <2>1, <2>2 DEF Counting
<1>3. CASE SemanticNext /\ ~Tick
  <2>1. PICK r \in Requests : OnlyOne(r) /\ Steps(r)
    BY <1>3, StepsOf
  <2> DEFINE Early == {"ask", "get", "lookup"}
  <2>2. CASE pc[r] \in Early /\ pc'[r] \notin Early
    <3>1. r \notin Looked /\ Looked' = Looked \cup {r}
      BY <2>1, <2>2 DEF Looked, OnlyOne
    <3>2. hits' + misses' = hits + misses + 1
      BY <1>1, <2>1, <2>2 DEF Steps, counts
    <3>3. IsFiniteSet(Looked') /\ Cardinality(Looked') = Cardinality(Looked) + 1
      BY <1>1, <3>1, FS_AddElement
    <3> QED BY <1>1, <3>2, <3>3 DEF Counting
  <2>3. CASE ~(pc[r] \in Early /\ pc'[r] \notin Early)
    <3>1. pc[r] \in Early <=> pc'[r] \in Early
      BY <2>1, <2>3 DEF Steps
    <3>2. Looked' = Looked
      BY <2>1, <3>1 DEF Looked, OnlyOne
    <3>3. hits' = hits /\ misses' = misses
      BY <2>1, <2>3 DEF Steps, counts
    <3> QED BY <1>1, <3>2, <3>3 DEF Counting
  <2> QED BY <2>2, <2>3
<1> QED BY <1>2, <1>3

LEMMA InitSemantic ==
  ASSUME SemanticInit
  PROVE  SemInv
<1>1. MaxTime \in Nat /\ Capacity \in Nat
  BY SemanticCacheAssumption
<1>2. DOMAIN entries = {} /\ entries = [k \in DOMAIN entries |-> entries[k]]
  BY DEF SemanticInit
<1>3. SemTyped
  BY <1>1, <1>2 DEF SemanticInit, SemTyped, Labels
<1>4. Listing
  <2>1. order \in Seq(Queries) /\ Len(order) = 0 /\ DOMAIN order = {}
    BY DEF SemanticInit
  <2> QED BY <1>1, <1>2, <2>1 DEF Listing, IsInjective, Range
<1>5. Holding
  BY DEF SemanticInit, Holding
<1>6. Genuine
  BY <1>2 DEF Genuine
<1>7. Counting
  <2>1. Looked = {}
    BY DEF SemanticInit, Looked
  <2>2. IsFiniteSet({}) /\ Cardinality({}) = 0
    BY FS_EmptySet
  <2> QED BY <2>1, <2>2 DEF SemanticInit, Counting
<1>8. Telling
  <2> SUFFICES ASSUME NEW r \in Requests
               PROVE  pc[r] = "ask" /\ dialogue[r] = << >>
    BY DEF Telling
  <2> QED BY DEF SemanticInit
<1> QED BY <1>3, <1>4, <1>5, <1>6, <1>7, <1>8 DEF SemInv

LEMMA SemInvKept ==
  ASSUME SemInv, [SemanticNext]_semanticVars
  PROVE  SemInv'
BY TypedKept, ListingKept, HoldingKept, GenuineKept, CountingKept, TellingKept DEF SemInv

(* The inductive invariant holds.                                          *)
THEOREM SemanticCorrect == SemanticSpec => []SemInv
<1>1. SemInv /\ [SemanticNext]_semanticVars => SemInv'
  BY SemInvKept
<1> QED BY InitSemantic, <1>1, PTL DEF SemanticSpec

(* The map of the cache and its list hold the same queries, each once and  *)
(* within the capacity, the counters add up to the lookups, and a finished *)
(* request has its question and the answer its caller got.                 *)
THEOREM ChatSound == SemanticSpec => []ChatIsSound
<1>1. SemInv => ChatIsSound
  <2> SUFFICES ASSUME SemInv PROVE ChatIsSound
    OBVIOUS
  <2>1. SemanticTypeOK
    BY DEF SemInv, SemTyped, Listing, Counting, Looked, SemanticTypeOK
  <2>2. HistoryComplete
    <3> SUFFICES ASSUME NEW r \in Requests, pc[r] = "done", r \notin lost
                 PROVE  dialogue[r] = <<"question", answer[r]>>
      BY DEF HistoryComplete
    <3> QED BY DEF SemInv, Telling
  <2> QED BY <2>1, <2>2 DEF ChatIsSound
<1> QED BY SemanticCorrect, <1>1, PTL

(* A hit answers with what a run of the chain made for a question that     *)
(* scores above the threshold, and that was put no longer than the TTL     *)
(* ago.                                                                    *)
THEOREM HitsSound == SemanticSpec => HitsAreSound
<1> DEFINE SoundHit ==
      \A r \in Requests :
        pc[r] = "lookup" /\ pc'[r] = "save" =>
          LET maker == answer'[r]
          IN  /\ maker \in Requests
              /\ storedAt[maker] # None /\ now <= storedAt[maker] + AnswerTTL
              /\ Score[query[r], query[maker]] >= Threshold
              /\ {query[r], query[maker]} \cap Realtime = {}
<1>1. ASSUME SemInv, [SemanticNext]_semanticVars
      PROVE  SoundHit
  <2> SUFFICES ASSUME NEW r \in Requests, pc[r] = "lookup", pc'[r] = "save"
               PROVE  LET maker == answer'[r]
                      IN  /\ maker \in Requests
                          /\ storedAt[maker] # None /\ now <= storedAt[maker] + AnswerTTL
                          /\ Score[query[r], query[maker]] >= Threshold
                          /\ {query[r], query[maker]} \cap Realtime = {}
    OBVIOUS
  <2>1. SemanticNext /\ ~Tick
    BY <1>1, TickKeeps
  <2>2. PICK s \in Requests : OnlyOne(s) /\ Steps(s)
    BY <1>1, <2>1, StepsOf
  <2>3. s = r
    BY <2>2 DEF OnlyOne
  <2>4. PICK k \in Matches(vec[r]) : answer'[r] = entries[k].answer
    BY <2>2, <2>3 DEF Steps
  <2>5. query[r] \in Queries /\ query[r] \notin Realtime /\ vec[r] \in {query[r], NoVector}
    BY <1>1 DEF SemInv, Holding
  <2>6. /\ k \in DOMAIN entries /\ now <= entries[k].expireAt
        /\ Similarity(vec[r], k) >= Threshold
    BY <2>4 DEF Matches, Live
  <2> DEFINE maker == entries[k].answer
  <2>7. /\ maker \in Requests /\ query[maker] = k /\ k \notin Realtime
        /\ entries[k].embed \in {k, NoVector}
        /\ storedAt[maker] \in 0..MaxTime /\ entries[k].expireAt = storedAt[maker] + AnswerTTL
    BY <1>1, <2>6 DEF SemInv, Genuine
  <2>8. Threshold \in Nat \ {0} /\ None \notin 0..MaxTime
    BY SemanticCacheAssumption
  <2>9. Score[query[r], k] >= Threshold
    <3>1. NoVector \notin {vec[r], entries[k].embed}
      <4> SUFFICES ASSUME NoVector \in {vec[r], entries[k].embed} PROVE FALSE
        OBVIOUS
      <4>1. Similarity(vec[r], k) = 0
        BY DEF Similarity
      <4>2. 0 >= Threshold
        BY <2>6, <4>1
      <4> QED BY <2>8, <4>2
    <3>2. vec[r] = query[r] /\ entries[k].embed = k
      BY <2>5, <2>7, <3>1
    <3>3. Similarity(vec[r], k) = Score[vec[r], entries[k].embed]
      BY <3>1 DEF Similarity
    <3>4. Score[vec[r], entries[k].embed] = Score[query[r], k]
      BY <3>2
    <3> QED BY <2>6, <3>3, <3>4
  <2> QED BY <2>4, <2>5, <2>6, <2>7, <2>8, <2>9
<1> QED BY SemanticCorrect, <1>1, PTL DEF SemanticSpec, HitsAreSound

-----------------------------------------------------------------------------
(* The retrieval chain.                                                    *)

Chunks == Children \cup Parents

RetrievalTyped ==
  /\ retriever \in {"mysql", "knn", "hybrid", "stub"}
  /\ caller \in {"retrieve", "score", "answer", "failed"}
  /\ candidates \in Seq(Chunks) /\ IsInjective(candidates) /\ Len(candidates) <= CandidateTopK
  /\ started \in 0..Len(candidates)
  /\ worker \in [1..Len(candidates) -> 0..Ended]
  /\ scores \in [1..Len(candidates) -> Nat]
  /\ failed \subseteq 1..started

(* A slot holds the score of its own candidate once that was reported, and *)
(* 0 before, and for good if it was not.                                   *)
Scored ==
  \A i \in 1..Len(candidates) :
    /\ worker[i] = Ended /\ i \notin failed => scores[i] = Relevance[candidates[i]]
    /\ worker[i] # Ended => scores[i] = 0 /\ i \notin failed
    /\ i \in failed => scores[i] = 0
    /\ worker[i] = Ended => i <= started

(* The order p puts the best scores first.                                 *)
Best(p) ==
  /\ \A i, j \in 1..TopK : i < j => scores[p[i]] >= scores[p[j]]
  /\ \A k \in DOMAIN candidates \ {p[i] : i \in 1..TopK} : scores[k] <= scores[p[TopK]]

(* The prompt has all candidates, or the best when all goroutines ended.   *)
Answered ==
  caller = "answer" =>
    /\ Running = {}
    /\ \/ prompt = candidates
       \/ \E p \in [1..TopK -> 1..Len(candidates)] :
            Best(p) /\ prompt = [i \in 1..TopK |-> candidates[p[i]]]

NoneYet == caller = "retrieve" => Len(candidates) = 0

RetrievalInv == RetrievalTyped /\ Scored /\ Answered /\ NoneYet

-----------------------------------------------------------------------------
LEMMA SearchedChunks ==
  ASSUME retriever \in {"mysql", "knn", "hybrid", "stub"}
  PROVE  Searched \subseteq Chunks
BY DEF Searched, MySqlSearched, Chunks

(* SetToSeq lists a finite set, each element once.                         *)
LEMMA ListsOnce ==
  ASSUME NEW S, IsFiniteSet(S)
  PROVE  /\ Cardinality(S) \in Nat
         /\ SetToSeq(S) \in [1..Cardinality(S) -> S] /\ IsInjective(SetToSeq(S))
<1>1. Cardinality(S) \in Nat /\ ExistsBijection(1..Cardinality(S), S)
  BY FS_CardinalityType
<1>2. \E f \in [1..Cardinality(S) -> S] : IsInjective(f)
  BY <1>1 DEF ExistsBijection, Bijection, Injection
<1> QED BY <1>1, <1>2 DEF SetToSeq

LEMMA RetrieveKeeps ==
  ASSUME RetrievalInv, Retrieve
  PROVE  RetrievalInv'
<1>1. PICK S \in SUBSET Searched :
        /\ Cardinality(S) <= CandidateTopK
        /\ candidates' = SetToSeq(S)
        /\ worker' = [i \in DOMAIN SetToSeq(S) |-> 0] /\ scores' = [i \in DOMAIN SetToSeq(S) |-> 0]
        /\ IF NoReranking(SetToSeq(S)) THEN caller' = "answer" /\ prompt' = SetToSeq(S)
                                       ELSE caller' = "score" /\ UNCHANGED prompt
  BY DEF Retrieve
<1>2. caller = "retrieve" /\ UNCHANGED <<retriever, started, failed, cancelled>>
  BY DEF Retrieve
<1> DEFINE s == SetToSeq(S)
           n == Cardinality(S)
<1>3. S \subseteq Chunks
  BY SearchedChunks DEF RetrievalInv, RetrievalTyped
<1>4. IsFiniteSet(S)
  <2>1. IsFiniteSet(Chunks)
    BY RetrievalAssumption, FS_Union DEF Chunks
  <2> QED BY <1>3, <2>1, FS_Subset
<1>5. n \in Nat /\ s \in [1..n -> Chunks] /\ IsInjective(s)
  BY <1>3, <1>4, ListsOnce
<1>6. /\ n <= CandidateTopK /\ candidates' = s
      /\ worker' = [i \in DOMAIN s |-> 0] /\ scores' = [i \in DOMAIN s |-> 0]
      /\ \/ caller' = "answer" /\ prompt' = s
         \/ caller' = "score"
  BY <1>1
<1> HIDE DEF s, n
<1>7. s \in Seq(Chunks) /\ Len(s) = n /\ DOMAIN s = 1..n
  BY <1>5, SeqDef
<1>8. started = 0 /\ failed = {}
  BY <1>2 DEF RetrievalInv, RetrievalTyped, NoneYet
<1>9. RetrievalTyped'
  BY <1>2, <1>5, <1>6, <1>7, <1>8 DEF RetrievalInv, RetrievalTyped, Ended, MaxRetries
<1>10. Scored'
  BY <1>2, <1>6, <1>7, <1>8 DEF Scored, Ended, MaxRetries
<1>11. Answered' /\ NoneYet'
  BY <1>2, <1>6, <1>8 DEF Answered, NoneYet, Running
<1> QED BY <1>9, <1>10, <1>11 DEF RetrievalInv

LEMMA StartWorkerKeeps ==
  ASSUME RetrievalInv, StartWorker
  PROVE  RetrievalInv'
<1>1. /\ caller = "score" /\ started < Len(candidates) /\ started' = started + 1
      /\ UNCHANGED <<retriever, caller, candidates, worker, scores, failed, cancelled, prompt>>
  BY DEF StartWorker
<1>2. RetrievalTyped
  BY DEF RetrievalInv
<1>3. Len(candidates) \in Nat
  BY <1>2, LenProperties DEF RetrievalTyped
<1>4. started' \in 0..Len(candidates) /\ 1..started \subseteq 1..started'
  BY <1>1, <1>2, <1>3 DEF RetrievalTyped
<1>5. RetrievalTyped'
  BY <1>1, <1>2, <1>4 DEF RetrievalTyped
<1>6. Scored'
  BY <1>1, <1>2, <1>3 DEF RetrievalInv, RetrievalTyped, Scored
<1>7. Answered' /\ NoneYet'
  BY <1>1 DEF Answered, NoneYet
<1> QED BY <1>5, <1>6, <1>7 DEF RetrievalInv

LEMMA ScoreDocKeeps ==
  ASSUME RetrievalInv, NEW i \in Running, ScoreDoc(i)
  PROVE  RetrievalInv'
<1> DEFINE r == Relevance[candidates[i]]
<1>1. /\ \/ scores' = [scores EXCEPT ![i] = r] /\ worker' = [worker EXCEPT ![i] = Ended] /\ UNCHANGED failed
         \/ worker[i] < MaxRetries /\ worker' = [worker EXCEPT ![i] = @ + 1] /\ UNCHANGED <<scores, failed>>
         \/ scores' = [scores EXCEPT ![i] = 0] /\ worker' = [worker EXCEPT ![i] = Ended] /\ failed' = failed \cup {i}
      /\ UNCHANGED <<retriever, caller, candidates, started, cancelled, prompt>>
  BY DEF ScoreDoc, Record
<1>2. RetrievalTyped /\ Scored
  BY DEF RetrievalInv
<1>3. Len(candidates) \in Nat
  BY <1>2, LenProperties DEF RetrievalTyped
<1>4. i \in 1..started /\ i \in 1..Len(candidates) /\ worker[i] # Ended /\ worker[i] \in 0..Ended
  BY <1>2, <1>3 DEF Running, RetrievalTyped
<1>5. r \in Nat
  <2>1. candidates[i] \in Chunks
    BY <1>2, <1>4, ElementOfSeq DEF RetrievalTyped
  <2> QED BY <2>1, RetrievalAssumption DEF Chunks
<1>6. r = Relevance[candidates[i]]
  OBVIOUS
<1> HIDE DEF r
<1>7. caller # "answer"
  BY <1>4 DEF RetrievalInv, Answered
<1>8. Answered' /\ NoneYet'
  BY <1>1, <1>7 DEF RetrievalInv, Answered, NoneYet
<1> DEFINE N == 1..Len(candidates)
<1>9. /\ worker \in [N -> 0..2] /\ scores \in [N -> Nat] /\ i \in N /\ i <= started
      /\ \A k \in N :
           /\ worker[k] = 2 /\ k \notin failed => scores[k] = Relevance[candidates[k]]
           /\ worker[k] # 2 => scores[k] = 0 /\ k \notin failed
           /\ k \in failed => scores[k] = 0
           /\ worker[k] = 2 => k <= started
  BY <1>2, <1>4 DEF RetrievalTyped, Scored, Ended, MaxRetries
<1> HIDE DEF N
<1>10. /\ worker' \in [N -> 0..2] /\ scores' \in [N -> Nat] /\ failed' \subseteq failed \cup {i}
       /\ \A k \in N :
            /\ worker'[k] = 2 /\ k \notin failed' => scores'[k] = Relevance[candidates[k]]
            /\ worker'[k] # 2 => scores'[k] = 0 /\ k \notin failed'
            /\ k \in failed' => scores'[k] = 0
            /\ worker'[k] = 2 => k <= started
  <2>1. CASE scores' = [scores EXCEPT ![i] = r] /\ worker' = [worker EXCEPT ![i] = 2] /\ UNCHANGED failed
    BY <1>4, <1>5, <1>6, <1>9, <2>1 DEF Ended, MaxRetries
  <2>2. CASE /\ worker[i] < 1 /\ worker' = [worker EXCEPT ![i] = worker[i] + 1]
             /\ UNCHANGED <<scores, failed>>
    <3>1. worker[i] \in 0..2
      BY <1>9
    <3>2. worker[i] = 0
      BY <2>2, <3>1
    <3>3. worker' = [worker EXCEPT ![i] = 1]
      BY <2>2, <3>2
    <3> QED BY <1>9, <2>2, <3>2, <3>3
  <2>3. CASE /\ scores' = [scores EXCEPT ![i] = 0] /\ worker' = [worker EXCEPT ![i] = 2]
             /\ failed' = failed \cup {i}
    BY <1>9, <2>3
  <2> QED BY <1>1, <2>1, <2>2, <2>3 DEF Ended, MaxRetries
<1>11. RetrievalTyped'
  BY <1>1, <1>2, <1>4, <1>10 DEF RetrievalTyped, Ended, MaxRetries, N
<1>12. Scored'
  BY <1>1, <1>10 DEF Scored, Ended, MaxRetries, N
<1> QED BY <1>8, <1>11, <1>12 DEF RetrievalInv

LEMMA CollectKeeps ==
  ASSUME RetrievalInv, Collect
  PROVE  RetrievalInv'
<1>1. PICK p \in [1..TopK -> DOMAIN candidates] :
        Best(p) /\ prompt' = [i \in 1..TopK |-> candidates[p[i]]]
  BY DEF Collect, Best
<1>2. /\ Running = {} /\ caller' = "answer"
      /\ UNCHANGED <<retriever, candidates, started, worker, scores, failed, cancelled>>
  BY DEF Collect
<1>3. RetrievalTyped /\ Scored
  BY DEF RetrievalInv
<1>4. p \in [1..TopK -> 1..Len(candidates)]
  BY <1>1, <1>3, LenProperties DEF RetrievalTyped
<1>5. Running' = {}
  BY <1>2 DEF Running
<1>6. Best(p)'
  BY <1>1, <1>2 DEF Best
<1>7. Answered'
  BY <1>1, <1>2, <1>4, <1>5, <1>6 DEF Answered, Best
<1>8. RetrievalTyped' /\ Scored' /\ NoneYet'
  BY <1>2, <1>3 DEF RetrievalTyped, Scored, NoneYet
<1> QED BY <1>7, <1>8 DEF RetrievalInv

LEMMA RetrievalStepKeeps ==
  ASSUME RetrievalInv, [RetrievalNext]_retrievalVars
  PROVE  RetrievalInv'
<1>1. ASSUME UNCHANGED <<retriever, candidates, started, worker, scores, failed, prompt>>,
             caller' \in {caller, "failed"}
      PROVE  RetrievalInv'
  <2>1. RetrievalTyped' /\ Scored'
    BY <1>1 DEF RetrievalInv, RetrievalTyped, Scored
  <2>2. Answered' /\ NoneYet'
    BY <1>1 DEF RetrievalInv, Answered, NoneYet, Running, Best
  <2> QED BY <2>1, <2>2 DEF RetrievalInv
<1>2. CASE Retrieve \/ StartWorker \/ Collect \/ \E i \in Running : ScoreDoc(i)
  BY <1>2, RetrieveKeeps, StartWorkerKeeps, CollectKeeps, ScoreDocKeeps
<1>3. CASE RetrieveFails \/ Cancel
  BY <1>1, <1>3 DEF RetrieveFails, Cancel
<1>4. CASE UNCHANGED retrievalVars
  BY <1>1, <1>4 DEF retrievalVars
<1> QED BY <1>2, <1>3, <1>4 DEF RetrievalNext, RetrievalStep

LEMMA RetrievalStart == RetrievalInit => RetrievalInv
<1> SUFFICES ASSUME RetrievalInit PROVE RetrievalInv
  OBVIOUS
<1> DEFINE none == << >>
<1>1. none \in Seq(Chunks) /\ Len(none) = 0 /\ DOMAIN none = {} /\ none \in [{} -> Nat]
  BY EmptySeq
<1>2. /\ candidates = none /\ worker = none /\ scores = none /\ started = 0 /\ failed = {}
      /\ caller = "retrieve" /\ retriever \in {"mysql", "knn", "hybrid", "stub"}
  BY DEF RetrievalInit
<1>3. 1..0 = {} /\ none \in [{} -> 0..Ended]
  OBVIOUS
<1> HIDE DEF none
<1>4. RetrievalTyped
  BY <1>1, <1>2, <1>3, RetrievalAssumption DEF RetrievalTyped, IsInjective
<1>5. Scored /\ Answered /\ NoneYet
  BY <1>1, <1>2, <1>3 DEF Scored, Answered, NoneYet
<1> QED BY <1>4, <1>5 DEF RetrievalInv

(* RetrievalInv is an inductive invariant: each goroutine writes the score *)
(* of its own candidate, and the prompt waits for all of them.             *)
THEOREM RetrievalCorrect == RetrievalSpec => []RetrievalInv
BY RetrievalStart, RetrievalStepKeeps, PTL DEF RetrievalSpec

(* Of the order p, a candidate that is not in it scores no better than any *)
(* that is.                                                                *)
LEMMA BestScoresFirst ==
  ASSUME NEW p \in [1..TopK -> 1..Len(candidates)], Best(p),
         scores \in [1..Len(candidates) -> Nat], DOMAIN candidates = 1..Len(candidates),
         NEW n \in 1..TopK, NEW k \in DOMAIN candidates, \A i \in 1..TopK : p[i] # k
  PROVE  scores[k] <= scores[p[n]]
<1>1. TopK \in Nat \ {0} /\ TopK \in 1..TopK
  BY RetrievalAssumption
<1>2. scores[k] <= scores[p[TopK]]
  BY DEF Best
<1>3. n < TopK => scores[p[n]] >= scores[p[TopK]]
  BY <1>1 DEF Best
<1>4. p[n] \in 1..Len(candidates) /\ p[TopK] \in 1..Len(candidates)
  BY <1>1
<1>5. scores[k] \in Nat /\ scores[p[n]] \in Nat /\ scores[p[TopK]] \in Nat
  BY <1>4
<1>6. n < TopK \/ n = TopK
  BY <1>1
<1> QED BY <1>2, <1>3, <1>5, <1>6

(* RerankKeepsTheBest, for any chunks, relevance, limits and concurrency   *)
(* of the reranker: goroutines that end in any order, fail and try again   *)
(* leave the best candidates in the prompt.                                *)
THEOREM BestKept == RetrievalSpec => []RerankKeepsTheBest
<1>1. RetrievalInv => RerankKeepsTheBest
  <2> SUFFICES ASSUME RetrievalInv, caller = "answer",
                      NEW i \in Chosen, NEW j \in DOMAIN candidates \ Chosen,
                      j \in 1..started \ failed, Relevance[candidates[j]] > 0
               PROVE  i \in 1..started \ failed /\ Relevance[candidates[i]] >= Relevance[candidates[j]]
    BY DEF RerankKeepsTheBest
  <2>1. RetrievalTyped /\ Scored /\ Running = {}
    BY DEF RetrievalInv, Answered
  <2>2. Len(candidates) \in Nat /\ DOMAIN candidates = 1..Len(candidates)
    BY <2>1, LenProperties DEF RetrievalTyped
  <2>3. \A k \in DOMAIN candidates : Relevance[candidates[k]] \in Nat
    <3> SUFFICES ASSUME NEW k \in 1..Len(candidates) PROVE Relevance[candidates[k]] \in Nat
      BY <2>2
    <3>1. candidates[k] \in Chunks
      BY <2>1, ElementOfSeq DEF RetrievalTyped
    <3> QED BY <3>1, RetrievalAssumption DEF Chunks
  <2>4. prompt # candidates
    BY DEF Chosen
  <2>5. PICK p \in [1..TopK -> 1..Len(candidates)] :
          Best(p) /\ prompt = [n \in 1..TopK |-> candidates[p[n]]]
    BY <2>4 DEF RetrievalInv, Answered
  <2>6. PICK n \in 1..TopK : candidates[p[n]] = candidates[i]
    BY <2>5 DEF Chosen
  <2>7. p[n] = i /\ i \in DOMAIN candidates
    BY <2>1, <2>2, <2>5, <2>6 DEF Chosen, RetrievalTyped, IsInjective
  <2>8. \A m \in 1..TopK : p[m] # j
    BY <2>2, <2>5 DEF Chosen
  <2>9. scores[j] <= scores[i]
    BY <2>1, <2>2, <2>5, <2>7, <2>8, BestScoresFirst DEF RetrievalTyped
  <2>10. scores[j] = Relevance[candidates[j]]
    BY <2>1, <2>2 DEF Scored, Running
  <2>11. scores[i] >= 1
    BY <2>1, <2>2, <2>3, <2>7, <2>9, <2>10 DEF RetrievalTyped
  <2>12. worker[i] = Ended /\ i \notin failed
    BY <2>2, <2>1, <2>7, <2>11 DEF Scored
  <2>13. scores[i] = Relevance[candidates[i]] /\ i <= started
    BY <2>2, <2>1, <2>7, <2>12 DEF Scored
  <2>14. i \in 1..started
    BY <2>1, <2>2, <2>7, <2>13 DEF RetrievalTyped
  <2> QED BY <2>3, <2>7, <2>9, <2>10, <2>12, <2>13, <2>14
<1> QED BY <1>1, RetrievalCorrect, PTL

(* The scores, the goroutines and the candidates belong together, and no   *)
(* candidate is listed twice.                                              *)
THEOREM RetrievalTypeCorrect == RetrievalSpec => []RetrievalTypeOK
<1>1. RetrievalInv => RetrievalTypeOK
  BY LenProperties DEF RetrievalInv, RetrievalTyped, RetrievalTypeOK
<1> QED BY <1>1, RetrievalCorrect, PTL

-----------------------------------------------------------------------------
(* The memories in the prompt.                                             *)

(* Every memory that was stored as the user's portrait is a preference.    *)
NoteTyped(m) ==
  /\ m.layer \in {"L1", "L2", "L3"} /\ m.kind \in {"preference", "fact"} /\ m.length \in Nat
  /\ m = [layer |-> m.layer, confidence |-> m.confidence, kind |-> m.kind, active |-> m.active,
          length |-> m.length, until |-> m.until, at |-> m.at]
  /\ m.layer = "L1" => m.kind = "preference"

PromptsInv ==
  /\ window \in 0 .. MaxWindows /\ noteStore \in {"mysql", "es"}
  /\ \E S : notes \in Seq(S)
  /\ Len(notes) <= MaxNotes
  /\ \A i \in 1..Len(notes) : NoteTyped(notes[i])

-----------------------------------------------------------------------------
LEMMA StoreNoteKeeps ==
  ASSUME PromptsInv, StoreNote
  PROVE  PromptsInv'
<1>1. PICK em \in Extractions :
        /\ ValidMemory(em)
        /\ notes' = Append(notes, [layer |-> ResolveLayer(Demoted(em)),
                                   confidence |-> ResolveConfidence(Demoted(em)),
                                   kind |-> em.kind, active |-> TRUE, length |-> em.length,
                                   until |-> IF em.due < 0 THEN -1 ELSE window + em.due, at |-> window])
  BY DEF StoreNote
<1> DEFINE d == Demoted(em)
           m == [layer |-> ResolveLayer(d), confidence |-> ResolveConfidence(d),
                 kind |-> em.kind, active |-> TRUE, length |-> em.length,
                 until |-> IF em.due < 0 THEN -1 ELSE window + em.due, at |-> window]
<1>2. /\ em.kind \in {"preference", "fact"} /\ em.layer \in {"", "L1", "L2", "L3"}
      /\ em.length \in Nat
  BY PromptsAssumption DEF Extractions
<1>3. /\ ResolveLayer(d) \in {"L1", "L2", "L3"}
      /\ ResolveLayer(d) = "L1" => em.kind = "preference"
  <2>1. CASE ResolveLayer(em) = "L1" /\ em.kind # "preference"
    <3>1. d.layer = "L3"
      BY <2>1 DEF Demoted, Extractions
    <3> QED BY <3>1 DEF ResolveLayer
  <2>2. CASE ~(ResolveLayer(em) = "L1" /\ em.kind # "preference")
    <3>1. d = em
      BY <2>2 DEF Demoted
    <3> HIDE DEF d
    <3> QED BY <1>2, <2>2, <3>1 DEF ResolveLayer
  <2> QED BY <2>1, <2>2
<1> HIDE DEF d
<1>4. NoteTyped(m)
  BY <1>2, <1>3 DEF NoteTyped
<1>5. notes' = Append(notes, m)
  BY <1>1 DEF d
<1> HIDE DEF m
<1>6. PICK S : notes \in Seq(S)
  BY DEF PromptsInv
<1>7. notes \in Seq(S \cup {m})
  BY <1>6, SeqMonotonic
<1>8. /\ notes' \in Seq(S \cup {m}) /\ Len(notes') = Len(notes) + 1 /\ Len(notes) \in Nat
      /\ notes'[Len(notes) + 1] = m /\ \A i \in 1..Len(notes) : notes'[i] = notes[i]
  BY <1>5, <1>7, AppendProperties, LenProperties
<1>9. Len(notes) < MaxNotes /\ UNCHANGED <<window, noteStore>>
  BY DEF StoreNote
<1>10. \A i \in 1..Len(notes') : NoteTyped(notes'[i])
  BY <1>4, <1>8 DEF PromptsInv
<1>11. \A i \in 1..Len(notes') : NoteTyped(notes[i])'
  BY <1>10 DEF NoteTyped
<1>12. Len(notes') <= MaxNotes
  BY <1>8, <1>9, PromptsAssumption
<1> QED BY <1>8, <1>9, <1>11, <1>12 DEF PromptsInv

LEMMA SupersedeNoteKeeps ==
  ASSUME PromptsInv, SupersedeNote
  PROVE  PromptsInv'
<1>1. PICK i \in DOMAIN notes : notes' = [notes EXCEPT ![i].active = FALSE]
  BY DEF SupersedeNote
<1>2. UNCHANGED <<window, noteStore>>
  BY DEF SupersedeNote
<1> DEFINE m == [notes[i] EXCEPT !.active = FALSE]
<1>3. PICK S : notes \in Seq(S)
  BY DEF PromptsInv
<1>4. i \in 1..Len(notes) /\ Len(notes) \in Nat /\ DOMAIN notes = 1..Len(notes)
  BY <1>3, LenProperties
<1>5. NoteTyped(notes[i])
  BY <1>4 DEF PromptsInv
<1>6. NoteTyped(m)
  <2> DEFINE n == notes[i]
  <2>1. NoteTyped(n) /\ m = [n EXCEPT !.active = FALSE]
    BY <1>5
  <2> HIDE DEF n, m
  <2>2. m = [layer |-> n.layer, confidence |-> n.confidence, kind |-> n.kind, active |-> FALSE,
             length |-> n.length, until |-> n.until, at |-> n.at]
    BY <2>1 DEF NoteTyped
  <2>3. /\ n.layer \in {"L1", "L2", "L3"} /\ n.kind \in {"preference", "fact"} /\ n.length \in Nat
        /\ n.layer = "L1" => n.kind = "preference"
    BY <2>1 DEF NoteTyped
  <2> QED BY <2>2, <2>3 DEF NoteTyped
<1>7. notes' = [notes EXCEPT ![i] = m]
  BY <1>1
<1> HIDE DEF m
<1>8. notes \in Seq(S \cup {m})
  BY <1>3, SeqMonotonic
<1>9. notes' \in Seq(S \cup {m}) /\ Len(notes') = Len(notes)
  BY <1>4, <1>7, <1>8, ExceptSeq
<1>10. \A j \in 1..Len(notes') : NoteTyped(notes'[j])
  BY <1>4, <1>6, <1>7, <1>9 DEF PromptsInv
<1>11. \A j \in 1..Len(notes') : NoteTyped(notes[j])'
  BY <1>10 DEF NoteTyped
<1> QED BY <1>2, <1>9, <1>11 DEF PromptsInv

LEMMA PromptsStepKeeps ==
  ASSUME PromptsInv, [PromptsNext]_promptVars
  PROVE  PromptsInv'
<1>1. CASE NextWindow
  <2>1. window' \in 0 .. MaxWindows
    BY <1>1, PromptsAssumption DEF PromptsInv, NextWindow
  <2> QED BY <1>1, <2>1 DEF PromptsInv, NextWindow, NoteTyped
<1>2. CASE UNCHANGED promptVars
  BY <1>2 DEF promptVars, PromptsInv, NoteTyped
<1> QED BY <1>1, <1>2, StoreNoteKeeps, SupersedeNoteKeeps DEF PromptsNext

LEMMA PromptsStart == PromptsInit => PromptsInv
<1> SUFFICES ASSUME PromptsInit PROVE PromptsInv
  OBVIOUS
<1> DEFINE none == << >>
<1>1. none \in Seq({}) /\ Len(none) = 0 /\ 1..0 = {}
  BY EmptySeq
<1>2. notes = none /\ window = 0 /\ noteStore \in {"mysql", "es"}
  BY DEF PromptsInit
<1> HIDE DEF none
<1> QED BY <1>1, <1>2, PromptsAssumption DEF PromptsInv

(* PromptsInv is an inductive invariant: validateExtracted demotes what is *)
(* not the user's own before the layer is stored.                          *)
THEOREM PromptsCorrect == PromptsSpec => []PromptsInv
BY PromptsStart, PromptsStepKeeps, PTL DEF PromptsSpec

(* What a memory is when it is found: of some length, and in the portrait  *)
(* of the user only when it is a preference.                               *)
LEMMA FoundTyped ==
  ASSUME PromptsInv, NEW i \in DOMAIN notes
  PROVE  /\ Found(i).length \in Nat
         /\ Found(i).layer = "L1" => Found(i).kind = "preference"
<1> DEFINE m == notes[i]
           l == Loaded(m)
<1>1. PICK S : notes \in Seq(S)
  BY DEF PromptsInv
<1>2. i \in 1..Len(notes)
  BY <1>1, LenProperties
<1>3. NoteTyped(m)
  BY <1>2 DEF PromptsInv
<1> HIDE DEF m
<1>4. /\ l.kind = m.kind /\ l.length = m.length /\ (l.layer = "" \/ l.layer = m.layer)
      /\ l = [layer |-> l.layer, confidence |-> l.confidence, kind |-> l.kind, active |-> l.active,
              length |-> l.length, until |-> l.until, at |-> l.at]
  <2>1. CASE noteStore = "es"
    <3>1. l = [m EXCEPT !.layer = "", !.confidence = 0, !.until = -1]
      BY <2>1 DEF Loaded
    <3>2. l = [layer |-> "", confidence |-> 0, kind |-> m.kind, active |-> m.active,
               length |-> m.length, until |-> -1, at |-> m.at]
      BY <1>3, <3>1 DEF NoteTyped
    <3> HIDE DEF l
    <3> QED BY <3>2
  <2>2. CASE noteStore # "es"
    <3>1. l = m
      BY <2>2 DEF Loaded
    <3> QED BY <1>3, <3>1 DEF NoteTyped
  <2> QED BY <2>1, <2>2
<1>5. /\ m.length \in Nat /\ m.layer \in {"L1", "L2", "L3"}
      /\ m.layer = "L1" => m.kind = "preference"
  BY <1>3 DEF NoteTyped
<1> DEFINE f == Classed(l)
<1>6. f = Found(i)
  BY DEF Found, m
<1> HIDE DEF l
<1>7. CASE l.layer # ""
  <2>1. f = l
    BY <1>7 DEF Classed
  <2> QED BY <1>4, <1>5, <1>6, <1>7, <2>1
<1>8. CASE l.layer = ""
  <2> DEFINE c == IF l.kind = "preference" /\ l.confidence >= 90 THEN "L1" ELSE "L2"
  <2>1. f = [l EXCEPT !.layer = c]
    BY <1>8 DEF Classed
  <2>2. c = "L1" => l.kind = "preference"
    OBVIOUS
  <2> HIDE DEF c, f
  <2>3. f = [layer |-> c, confidence |-> l.confidence, kind |-> l.kind, active |-> l.active,
             length |-> l.length, until |-> l.until, at |-> l.at]
    BY <1>4, <2>1
  <2>4. f.layer = c /\ f.kind = l.kind /\ f.length = l.length
    BY <2>3
  <2>5. f.length \in Nat /\ (f.layer = "L1" => f.kind = "preference")
    BY <1>4, <1>5, <2>2, <2>4
  <2> QED BY <1>6, <2>5
<1> QED BY <1>7, <1>8

(* An order of what is relevant is a sequence of memories, whose lines     *)
(* take room.                                                              *)
LEMMA OrderTyped ==
  ASSUME PromptsInv, NEW r \in Orders
  PROVE  /\ Len(r) \in Nat /\ DOMAIN r = 1..Len(r) /\ r \in Seq(Relevant)
         /\ \A i \in 1..Len(r) : r[i] \in DOMAIN notes /\ Size(r[i]) \in Nat
         /\ \A i, j \in 1..Len(r) : i < j => ~Before(Found(r[j]), Found(r[i]))
<1> DEFINE c == Cardinality(Relevant)
<1>1. PICK S : notes \in Seq(S)
  BY DEF PromptsInv
<1>2. Len(notes) \in Nat /\ DOMAIN notes = 1..Len(notes)
  BY <1>1, LenProperties
<1>3. IsFiniteSet(1..Len(notes)) /\ Relevant \subseteq 1..Len(notes)
  BY <1>2, FS_Interval DEF Relevant
<1>4. c \in Nat
  BY <1>3, FS_Subset, FS_CardinalityType
<1> HIDE DEF c
<1>5. r \in [1..c -> Relevant] /\ \A i, j \in DOMAIN r : i < j => ~Before(Found(r[j]), Found(r[i]))
  BY DEF Orders, Injection, c
<1>6. r \in Seq(Relevant) /\ Len(r) = c /\ DOMAIN r = 1..c
  BY <1>4, <1>5
<1>7. \A i \in 1..c : r[i] \in DOMAIN notes
  BY <1>5 DEF Relevant
<1>8. \A k \in DOMAIN notes : Size(k) \in Nat
  <2> SUFFICES ASSUME NEW k \in DOMAIN notes PROVE Size(k) \in Nat
    OBVIOUS
  <2>1. Found(k).length \in Nat
    BY FoundTyped
  <2> QED BY <2>1 DEF Size
<1> QED BY <1>4, <1>5, <1>6, <1>7, <1>8

(* The room that is used, line by line; it never exceeds what there is.    *)
LEMMA UsedIs ==
  ASSUME NEW r, Len(r) \in Nat
  PROVE  /\ Used(r)[0] = 0
         /\ \A i \in 1..Len(r) : Used(r)[i] = Take(Used(r)[i - 1], Size(r[i]))
<1> DEFINE n == Len(r)
           U == Used(r)
           Next(u, i) == Take(u, Size(r[i]))
<1>1. n \in Nat
  OBVIOUS
<1> HIDE DEF n, U, Next
<1>2. \E g : g = [i \in 0..n |-> IF i = 0 THEN 0 ELSE Next(g[i - 1], i)]
  <2> DEFINE Nth(g, i) == IF i = 0 THEN 0 ELSE Next(g[i - 1], i)
             Has(k) == \E g : g = [i \in 0..k |-> Nth(g, i)]
             N == {k \in Nat : Has(k)}
  <2>1. 0 \in N
    <3>1. [i \in 0..0 |-> 0] = [i \in 0..0 |-> Nth([j \in 0..0 |-> 0], i)]
      OBVIOUS
    <3> QED BY <3>1
  <2>2. ASSUME NEW k \in N PROVE k + 1 \in N
    <3>1. PICK g : g = [i \in 0..k |-> Nth(g, i)]
      OBVIOUS
    <3> DEFINE h == [i \in 0..(k + 1) |-> IF i = k + 1 THEN Next(g[k], k + 1) ELSE g[i]]
    <3>2. \A i \in 0..(k + 1) : h[i] = Nth(h, i)
      <4> SUFFICES ASSUME NEW i \in 0..(k + 1) PROVE h[i] = Nth(h, i)
        OBVIOUS
      <4>1. ASSUME NEW j \in 0..k PROVE h[j] = g[j] /\ g[j] = Nth(g, j)
        <5>1. j \in 0..(k + 1) /\ j # k + 1
          OBVIOUS
        <5>2. h[j] = g[j]
          BY <5>1
        <5> HIDE DEF Nth, h
        <5>3. g[j] = Nth(g, j)
          BY <3>1
        <5> QED BY <5>2, <5>3
      <4>2. h[k + 1] = Next(g[k], k + 1)
        OBVIOUS
      <4>3. k \in Nat
        OBVIOUS
      <4> HIDE DEF h
      <4>4. CASE i = k + 1
        <5>0. k \in 0..k /\ k + 1 # 0 /\ k + 1 - 1 = k
          BY <4>3
        <5>1. i # 0 /\ i - 1 = k /\ h[k] = g[k]
          BY <4>1, <4>4, <5>0
        <5> QED BY <4>2, <4>4, <5>1
      <4>5. CASE i \in 1..k
        <5>1. i # 0 /\ h[i - 1] = g[i - 1] /\ h[i] = g[i] /\ g[i] = Nth(g, i)
          BY <4>1, <4>3, <4>5
        <5> QED BY <5>1
      <4>6. CASE i = 0
        BY <4>1, <4>3, <4>6
      <4> QED BY <4>3, <4>4, <4>5, <4>6
    <3>3. h = [i \in 0..(k + 1) |-> Nth(h, i)]
      BY <3>2
    <3> HIDE DEF h
    <3>4. Has(k + 1)
      <4> HIDE DEF Nth
      <4> QED BY <3>3
    <3>5. k + 1 \in Nat
      OBVIOUS
    <3> QED BY <3>4, <3>5
  <2>3. N = Nat
    BY <2>1, <2>2, AllNumbers
  <2> QED BY <1>1, <2>3
<1>3. U = [i \in 0..n |-> IF i = 0 THEN 0 ELSE Next(U[i - 1], i)]
  <2>1. Used(r) = CHOOSE g : g = [i \in 0..n |-> IF i = 0 THEN 0 ELSE Next(g[i - 1], i)]
    BY DEF Used, Next, n
  <2> QED BY <1>2, <2>1 DEF U
<1>4. U[0] = 0
  BY <1>1, <1>3
<1>5. \A i \in 1..n : U[i] = Next(U[i - 1], i)
  BY <1>1, <1>3
<1> QED BY <1>4, <1>5 DEF U, Next, n

Line(r, K) == [n \in 1 .. Len(r) |-> IF n \in K THEN Size(r[n]) ELSE 0]

LEMMA LineTyped ==
  ASSUME PromptsInv, NEW r \in Orders, NEW K
  PROVE  /\ Line(r, K) \in Seq(Nat) /\ Line(r, K) \in Seq(Int) /\ Len(Line(r, K)) = Len(r)
         /\ \A i \in 1..Len(r) : Line(r, K)[i] = IF i \in K THEN Size(r[i]) ELSE 0
         /\ Weight(r, K) = SumUp(Line(r, K))
<1>1. Len(r) \in Nat /\ \A i \in 1..Len(r) : Size(r[i]) \in Nat
  BY OrderTyped
<1>2. Line(r, K) \in Seq(Nat) /\ Len(Line(r, K)) = Len(r)
  BY <1>1 DEF Line
<1>3. Line(r, K) \in Seq(Int)
  BY <1>2, SeqMonotonic
<1> QED BY <1>2, <1>3 DEF Line, Weight

(* The room that is used after each line is that of the lines kept so far. *)
LEMMA UsedIsKept ==
  ASSUME PromptsInv, NEW r \in Orders, NEW n \in 0..Len(r)
  PROVE  /\ Used(r)[n] = Sofar(Line(r, Kept(r)))[n]
         /\ Used(r)[n] \in 0..PromptRoom
<1> DEFINE U == Used(r)
           l == Line(r, Kept(r))
           L == Sofar(l)
           N == {k \in Nat : k <= Len(r) => U[k] = L[k] /\ U[k] \in 0..PromptRoom}
<1>1. /\ Len(r) \in Nat /\ DOMAIN r = 1..Len(r)
      /\ \A i \in 1..Len(r) : Size(r[i]) \in Nat
  BY OrderTyped
<1>2. U[0] = 0 /\ \A i \in 1..Len(r) : U[i] = Take(U[i - 1], Size(r[i]))
  BY <1>1, UsedIs
<1>3. /\ l \in Seq(Int) /\ Len(l) = Len(r)
      /\ \A i \in 1..Len(r) : l[i] = IF i \in Kept(r) THEN Size(r[i]) ELSE 0
  BY LineTyped
<1>4. L[0] = 0 /\ \A i \in 1..Len(r) : L[i] = L[i - 1] + l[i]
  BY <1>3, SofarIs
<1>5. \A i \in 1..Len(r) : i \in Kept(r) <=> U[i - 1] + Size(r[i]) <= PromptRoom
  BY <1>1 DEF Kept, HasRoom
<1>6. PromptRoom \in Nat
  BY PromptsAssumption
<1> HIDE DEF U, l, L
<1>7. 0 \in N
  BY <1>2, <1>4, <1>6
<1>8. ASSUME NEW k \in N PROVE k + 1 \in N
  <2> SUFFICES ASSUME k + 1 <= Len(r) PROVE U[k + 1] = L[k + 1] /\ U[k + 1] \in 0..PromptRoom
    OBVIOUS
  <2> DEFINE z == Size(r[k + 1])
             u == U[k]
  <2>1. k \in Nat /\ k + 1 \in 1..Len(r) /\ k + 1 - 1 = k
    BY <1>1
  <2>2. u = L[k] /\ u \in 0..PromptRoom /\ z \in Nat
    BY <1>1, <2>1
  <2>3. U[k + 1] = Take(u, z) /\ L[k + 1] = u + l[k + 1]
    BY <1>2, <1>4, <2>1, <2>2
  <2>4. l[k + 1] = (IF k + 1 \in Kept(r) THEN z ELSE 0) /\ (k + 1 \in Kept(r) <=> u + z <= PromptRoom)
    BY <1>3, <1>5, <2>1
  <2> HIDE DEF u, z
  <2> QED BY <1>6, <2>2, <2>3, <2>4 DEF Take, HasRoom
<1>9. N = Nat
  BY <1>7, <1>8, AllNumbers
<1>10. U[n] = L[n] /\ U[n] \in 0..PromptRoom
  BY <1>1, <1>9
<1> QED BY <1>10 DEF U, L, l

-----------------------------------------------------------------------------
LEMMA FilledByRank == PromptsInv => PromptIsFilledByRank
<1> SUFFICES ASSUME PromptsInv, NEW r \in Orders
             PROVE  /\ Weight(r, Kept(r)) <= PromptRoom
                    /\ \A i \in DOMAIN r \ Kept(r) :
                         Weight(r, {k \in Kept(r) : ~Before(Found(r[i]), Found(r[k]))})
                           + Size(r[i]) > PromptRoom
  BY DEF PromptIsFilledByRank
<1>1. /\ Len(r) \in Nat /\ DOMAIN r = 1..Len(r)
      /\ \A i \in 1..Len(r) : Size(r[i]) \in Nat
      /\ \A i, j \in 1..Len(r) : i < j => ~Before(Found(r[j]), Found(r[i]))
  BY OrderTyped
<1>2. PromptRoom \in Nat
  BY PromptsAssumption
<1>3. Weight(r, Kept(r)) <= PromptRoom
  <2> DEFINE l == Line(r, Kept(r))
  <2>1. Len(l) = Len(r) /\ Weight(r, Kept(r)) = SumUp(l)
    BY LineTyped
  <2>2. Used(r)[Len(r)] = Sofar(l)[Len(r)] /\ Used(r)[Len(r)] \in 0..PromptRoom
    BY <1>1, UsedIsKept
  <2> HIDE DEF l
  <2>3. Weight(r, Kept(r)) = Used(r)[Len(r)]
    BY <2>1, <2>2 DEF SumUp
  <2> QED BY <1>2, <2>2, <2>3
<1>4. ASSUME NEW i \in 1..Len(r), i \notin Kept(r)
      PROVE  Weight(r, {k \in Kept(r) : ~Before(Found(r[i]), Found(r[k]))}) + Size(r[i]) > PromptRoom
  <2> DEFINE B == {k \in Kept(r) : ~Before(Found(r[i]), Found(r[k]))}
             l == Line(r, Kept(r))
             b == Line(r, B)
             m == i - 1
             u == Used(r)[m]
             z == Size(r[i])
  <2>1. /\ l \in Seq(Int) /\ Len(l) = Len(r)
        /\ \A j \in 1..Len(r) : l[j] = IF j \in Kept(r) THEN Size(r[j]) ELSE 0
    BY LineTyped
  <2>2. /\ b \in Seq(Nat) /\ b \in Seq(Int) /\ Len(b) = Len(r)
        /\ \A j \in 1..Len(r) : b[j] = IF j \in B THEN Size(r[j]) ELSE 0
        /\ Weight(r, B) = SumUp(b)
    <3> HIDE DEF B
    <3> QED BY LineTyped
  <2>3. m \in Nat /\ m \in 0..Len(r) /\ m <= Len(r)
    BY <1>1, <1>4
  <2>4. \A j \in 1..m : j \in 1..Len(r) /\ j < i
    BY <1>1, <1>4
  <2>5. \A j \in 1..m : j \in Kept(r) => j \in B
    BY <1>1, <1>4, <2>4
  <2>6. \A j \in 1..m : l[j] <= b[j]
    <3> SUFFICES ASSUME NEW j \in 1..m PROVE l[j] <= b[j]
      OBVIOUS
    <3>1. j \in 1..Len(r) /\ Size(r[j]) \in Nat /\ (j \in Kept(r) => j \in B)
      BY <1>1, <2>4, <2>5
    <3> HIDE DEF l, b, B, m
    <3> QED BY <2>1, <2>2, <3>1
  <2>7. u = Sofar(l)[m] /\ u \in 0..PromptRoom
    <3> HIDE DEF m
    <3> QED BY <2>3, UsedIsKept
  <2>8. ~(u + z <= PromptRoom) /\ z \in Nat
    BY <1>1, <1>4 DEF Kept, HasRoom
  <2> HIDE DEF l, b, m, B
  <2>9. Sofar(l)[m] <= Sofar(b)[m]
    BY <2>1, <2>2, <2>3, <2>6, SofarMonotone
  <2>10. Sofar(b)[m] <= SumUp(b)
    BY <2>2, <2>3, SofarGrows
  <2>11. Sofar(b)[m] \in Int /\ SumUp(b) \in Int
    BY <1>1, <2>2, <2>3, SofarIsInt DEF SumUp
  <2> HIDE DEF u, z
  <2>12. SumUp(b) + z > PromptRoom
    BY <1>2, <2>7, <2>8, <2>9, <2>10, <2>11
  <2> QED BY <2>2, <2>12 DEF B, z
<1> QED BY <1>1, <1>3, <1>4

LEMMA PortraitHolds == PromptsInv => PortraitIsTheUsers
<1> SUFFICES ASSUME PromptsInv, NEW r \in Orders, NEW i \in Kept(r)
             PROVE  Found(r[i]).layer = "L1" => Found(r[i]).kind = "preference"
  BY DEF PortraitIsTheUsers
<1>1. i \in DOMAIN r
  BY DEF Kept
<1>2. r[i] \in DOMAIN notes
  BY <1>1, OrderTyped
<1> QED BY <1>2, FoundTyped

(* Whatever was extracted, and in whatever order the sort leaves equals:   *)
(* the prompt never exceeds its room, a memory is left out only for those  *)
(* of no lower rank, and the portrait of the user is what he said.         *)
THEOREM PromptRight == PromptsSpec => []PromptIsRight
<1>1. PromptsInv => PromptIsRight
  BY FilledByRank, PortraitHolds DEF PromptIsRight
<1> QED BY <1>1, PromptsCorrect, PTL

(* The time and the number of memories stay in their bounds.               *)
THEOREM PromptsTypeCorrect == PromptsSpec => []PromptsTypeOK
<1>1. PromptsInv => PromptsTypeOK
  BY DEF PromptsInv, PromptsTypeOK
<1> QED BY <1>1, PromptsCorrect, PTL

=============================================================================
