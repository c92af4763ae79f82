------------------------------- MODULE Prompts -------------------------------
(***************************************************************************)
(* What the model is shown of the long-term memory                         *)
(* (internal/service/memory.go): which of the extracted memories are kept, *)
(* to which layer each belongs as time passes, and which fit into the      *)
(* prompt.  Pure functions, from the extraction to the prompt.             *)
(*                                                                         *)
(* Abstractions: confidence in hundredths; time in windows of 90 days, the *)
(* validity of a fact; of a line its length, warnings about its age        *)
(* included; the search finds every active memory.                         *)
(***************************************************************************)
EXTENDS Integers, Sequences, FiniteSets, Functions, Loops

CONSTANTS
  Confidences,   \* in hundredths, 0 when the model gives none
  Lengths,       \* of the lines, in characters
  PromptRoom,    \* what selectWithinBudget has left for lines
  MaxNotes,      \* bound: memories of the user
  MaxWindows     \* bound: time, in windows of 90 days

ASSUME PromptsAssumption ==
  /\ MaxNotes \in Nat /\ MaxWindows \in Nat /\ PromptRoom \in Nat
  /\ Confidences \subseteq Nat /\ Lengths \subseteq Nat

VARIABLES
  notes,         \* the memories that were stored
  window,        \* the time
  noteStore      \* "mysql" or "es"

promptVars == <<notes, window, noteStore>>

PromptsInit == notes = <<>> /\ window = 0 /\ noteStore \in {"mysql", "es"}

-----------------------------------------------------------------------------
ResolveLayer(em) ==
  IF em.layer # "" THEN em.layer ELSE IF em.kind = "preference" THEN "L1" ELSE "L2"

ResolveConfidence(em) ==
  IF em.confidence > 0 THEN em.confidence ELSE IF em.kind = "preference" THEN 95 ELSE 80

(* validateExtracted: no promise, no doubtful memory, no doubtful fact.    *)
ValidMemory(em) ==
  /\ ~em.promises
  /\ ~(em.confidence > 0 /\ em.confidence < 50)
  /\ ~(ResolveLayer(em) = "L2" /\ ResolveConfidence(em) < 70)

(* What the model infers of the user is not part of its portrait.          *)
F_Demoted(em) == em
Demoted(em)   == IF ResolveLayer(em) = "L1" /\ em.kind # "preference" THEN [em EXCEPT !.layer = "L3"] ELSE em

Extractions ==
  [kind : {"preference", "fact"}, layer : {"", "L1", "L2", "L3"}, confidence : Confidences,
   promises : BOOLEAN, due : {-1, 0}, length : Lengths]

(* ExtractAndStore: the layer and the confidence are resolved once more.   *)
StoreNote ==
  /\ Len(notes) < MaxNotes
  /\ \E em \in Extractions :
       /\ ValidMemory(em)
       /\ LET d == Demoted(em) IN
          notes' = Append(notes, [layer |-> ResolveLayer(d), confidence |-> ResolveConfidence(d),
                                  kind |-> em.kind, active |-> TRUE, length |-> em.length,
                                  until |-> IF em.due < 0 THEN -1 ELSE window + em.due, at |-> window])
  /\ UNCHANGED <<window, noteStore>>

(* A later memory replaces it.                                             *)
SupersedeNote ==
  \E i \in DOMAIN notes : notes[i].active /\ notes' = [notes EXCEPT ![i].active = FALSE] /\ UNCHANGED <<window, noteStore>>

(* Only the time since the first memory matters.                           *)
NextWindow ==
  /\ notes # <<>> /\ window < MaxWindows
  /\ window' = window + 1
  /\ UNCHANGED <<notes, noteStore>>

-----------------------------------------------------------------------------
(* Elasticsearch drops the fields on which the layers rest.                *)
Loaded(m) == IF noteStore = "es" THEN [m EXCEPT !.layer = "", !.confidence = 0, !.until = -1] ELSE m

(* A memory without a layer is classed by its kind.                        *)
Classed(m) ==
  IF m.layer # "" THEN m
  ELSE [m EXCEPT !.layer = IF m.kind = "preference" /\ m.confidence >= 90 THEN "L1" ELSE "L2"]

(* isInvalid: three windows after the date.                                *)
IsInvalid(m) == m.until >= 0 /\ window - m.until > 3

(* memoryEntryLine filters by layer.                                       *)
HasLine(m) ==
  /\ m.layer = "L1" => m.confidence >= 90
  /\ m.layer = "L2" => ~IsInvalid(m)
  /\ m.layer = "L3" => m.active

LayerRank == [L1 |-> 0, L2 |-> 1, L3 |-> 2]

(* The order of selectWithinBudget: L1 first, then confidence, then age.   *)
Before(m, n) ==
  \/ LayerRank[m.layer] < LayerRank[n.layer]
  \/ m.layer = n.layer /\ m.confidence > n.confidence
  \/ m.layer = n.layer /\ m.confidence = n.confidence /\ m.at > n.at

(* Search finds the active memories.                                       *)
Found(i) == Classed(Loaded(notes[i]))
Relevant == {i \in DOMAIN notes : Found(i).active /\ HasLine(Found(i))}

(* sort.Slice leaves the order of equals open.                             *)
Orders ==
  {r \in Injection(1 .. Cardinality(Relevant), Relevant) :
     \A i, j \in DOMAIN r : i < j => ~Before(Found(r[j]), Found(r[i]))}

Size(i) == Found(i).length + 1

F_Take(used, size) == used + size

(* What does not fit is left out, and a shorter one behind it may fit.     *)
HasRoom(used, size) == used + size <= PromptRoom
Take(used, size) == IF HasRoom(used, size) THEN used + size ELSE used

(* The room that is used after each line, and the lines that are kept.     *)
Used(r) == LET used[n \in 0 .. Len(r)] == IF n = 0 THEN 0 ELSE Take(used[n - 1], Size(r[n])) IN used
Kept(r) == {n \in DOMAIN r : HasRoom(Used(r)[n - 1], Size(r[n]))}

PromptsNext == StoreNote \/ SupersedeNote \/ NextWindow
PromptsSpec == PromptsInit /\ [][PromptsNext]_promptVars

-----------------------------------------------------------------------------
(* The time and the number of memories are in their bounds.                *)
PromptsTypeOK == window \in 0 .. MaxWindows /\ Len(notes) <= MaxNotes

(* The prompt is the best that fits: it never exceeds its room, and a      *)
(* memory is left out only when those of a higher rank that are shown take *)
(* the room that it needs.                                                 *)
Weight(r, K) == SumUp([n \in 1 .. Len(r) |-> IF n \in K THEN Size(r[n]) ELSE 0])
PromptIsFilledByRank ==
  \A r \in Orders :
    /\ Weight(r, Kept(r)) <= PromptRoom
    /\ \A i \in DOMAIN r \ Kept(r) :
         Weight(r, {k \in Kept(r) : ~Before(Found(r[i]), Found(r[k]))}) + Size(r[i]) > PromptRoom

(* Only what the user said of himself is shown as his portrait, from the   *)
(* extraction through the store to the prompt.                             *)
PortraitIsTheUsers ==
  \A r \in Orders : \A i \in Kept(r) :
    Found(r[i]).layer = "L1" => Found(r[i]).kind = "preference"

(* What is stored as the user's portrait is certain enough to be shown:    *)
(* "L1 must be 0.9 or more" (the comment on the field Confidence).         *)
PortraitIsCertain == \A i \in DOMAIN notes : notes[i].layer = "L1" => notes[i].confidence >= 90

(* The prompt holds the best memories that fit, and as the portrait of the *)
(* user nothing that he did not say.                                       *)
PromptIsRight == PromptIsFilledByRank /\ PortraitIsTheUsers

=============================================================================
