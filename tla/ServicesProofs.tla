--------------------------- MODULE ServicesProofs ---------------------------
(* Proofs about the services around the chat: the settings, the start, the *)
(* MCP servers, the batches, the rate limiter, the backtest and the tools  *)
(* that change files, for any models, names, kinds of storage, requests,   *)
(* tasks, rates, prices, workspaces and texts.                             *)
EXTENDS MCServices, SequenceLemmas, SequenceTheorems, FiniteSetTheorems, TLAPS

-----------------------------------------------------------------------------
(* The settings.                                                           *)

Models  == Listed \cup Names
Entries == SUBSET (Names \X Values)

(* What an invariant of the state needs to hold after every step: a        *)
(* request that is about to store a model has found one.                   *)
SettingsInv ==
  /\ entries \in [Stores -> Entries] /\ files \in [Stores -> Entries \cup {Torn}]
  /\ saving \subseteq Stores /\ unsaved \subseteq Stores /\ changes \in 0..MaxChanges
  /\ current \in [model : Models, tools : BOOLEAN] /\ name \in Models
  /\ switcher \in [Switchers -> {"new", "found", "stored", "over"}]
  /\ chosen \in [Switchers -> Models \cup {None}]
  /\ \A w \in Switchers : switcher[w] \in {"found", "stored"} => chosen[w] \in Models
  /\ SettingsAreSaved
  /\ CurrentHasTools

-----------------------------------------------------------------------------
(* A truncated file is not taken for a list.                               *)
LEMMA TornIsNoList == Torn \notin Entries
  BY DEF Torn, Entries, Values

LEMMA SettingsInvInit == SettingsInit => SettingsInv
  BY SettingsAssumption
  DEF SettingsInit, SettingsInv, SettingsAreSaved, CurrentHasTools, Bound, Models, Entries

(* A change of a list truncates its file and notes that it is being saved. *)
LEMMA ChangeKeeps ==
  ASSUME SettingsInv, NEW s \in Stores, NEW new \in Entries, Change(s, new)
  PROVE  SettingsInv'
<1>1. entries' \in [Stores -> Entries] /\ files' \in [Stores -> Entries \cup {Torn}]
  BY DEF SettingsInv, Change
<1>2. saving' \subseteq Stores /\ changes' \in 0..MaxChanges
  BY SettingsAssumption DEF SettingsInv, Change
<1>3. SettingsAreSaved'
  BY DEF SettingsInv, SettingsAreSaved, Change
<1> QED BY <1>1, <1>2, <1>3 DEF SettingsInv, Change, modelVars, CurrentHasTools

(* The handlers of the three lists.                                        *)
LEMMA HandlersKeep ==
  ASSUME SettingsInv,
         AddModel \/ RemoveModel \/ PutSkill \/ RemoveSkill \/ PutServer \/ DropServer
  PROVE  SettingsInv'
<1>1. ASSUME NEW s \in Stores, NEW n \in Names, NEW v \in Values, Put(s, n, v)
      PROVE  SettingsInv'
  <2>1. {e \in entries[s] : e[1] # n} \cup {<<n, v>>} \in Entries
    BY DEF SettingsInv, Entries
  <2> QED BY <1>1, <2>1, ChangeKeeps DEF Put
<1>2. ASSUME NEW s \in Stores, NEW n \in Names, Drop(s, n)
      PROVE  SettingsInv'
  <2>1. {e \in entries[s] : e[1] # n} \in Entries
    BY DEF SettingsInv, Entries
  <2> QED BY <1>2, <2>1, ChangeKeeps DEF Drop
<1> QED BY <1>1, <1>2
        DEF AddModel, RemoveModel, PutSkill, RemoveSkill, PutServer, DropServer, Stores, Values

(* A write that ends leaves the list in the file, and one that fails is    *)
(* remembered as unsaved.                                                  *)
LEMMA SavedKeeps ==
  ASSUME SettingsInv, NEW s \in Stores, Saved(s)
  PROVE  SettingsInv'
<1>1. files' \in [Stores -> Entries \cup {Torn}] /\ saving' \subseteq Stores /\ unsaved' \subseteq Stores
  BY DEF SettingsInv, Saved
<1>2. SettingsAreSaved'
  BY DEF SettingsInv, SettingsAreSaved, Saved
<1> QED BY <1>1, <1>2 DEF SettingsInv, Saved, modelVars, CurrentHasTools

(* A request to switch finds a model, stores it with its tools, and then   *)
(* its name.                                                               *)
LEMMA SwitchKeeps ==
  ASSUME SettingsInv, NEW w \in Switchers, FindModel(w) \/ StoreModel(w) \/ StoreName(w)
  PROVE  SettingsInv'
<1>1. NamesOf("models") \subseteq Names
  BY DEF SettingsInv, NamesOf, Entries, Stores
<1>2. SettingsAreSaved'
  BY DEF SettingsInv, SettingsAreSaved, FindModel, StoreModel, StoreName
<1>3. CASE FindModel(w)
  BY <1>1, <1>2, <1>3 DEF SettingsInv, FindModel, Models, CurrentHasTools
<1>4. CASE StoreModel(w)
  BY <1>2, <1>4 DEF SettingsInv, StoreModel, Bound, CurrentHasTools
<1>5. CASE StoreName(w)
  BY <1>2, <1>5 DEF SettingsInv, StoreName, CurrentHasTools
<1> QED BY <1>3, <1>4, <1>5

(* A restart reads the files; a truncated one counts as unsaved.           *)
LEMMA RestartKeeps ==
  ASSUME SettingsInv, Restart
  PROVE  SettingsInv'
<1>1. entries' \in [Stores -> Entries] /\ changes' \in 0..MaxChanges
  BY SettingsAssumption DEF SettingsInv, Restart, Entries
<1>2. unsaved' \subseteq Stores /\ saving' \subseteq Stores /\ files' = files
  BY DEF SettingsInv, Restart
<1>3. SettingsAreSaved'
  <2> SUFFICES ASSUME NEW s \in Stores \ (saving \cup unsaved)
               PROVE  files[s] = entries'[s]
    BY <1>2 DEF SettingsAreSaved, Restart
  <2>1. files[s] \in Entries
    BY DEF SettingsInv, SettingsAreSaved
  <2> QED BY <2>1, TornIsNoList DEF Restart
<1>4. /\ current' \in [model : Models, tools : BOOLEAN] /\ name' \in Models /\ current'.tools
      /\ switcher' = [w \in Switchers |-> "new"] /\ chosen' = [w \in Switchers |-> None]
  BY DEF Restart, Begin, Bound, Models
<1> QED BY <1>1, <1>2, <1>3, <1>4 DEF SettingsInv, CurrentHasTools

LEMMA SettingsInvStep == SettingsInv /\ [SettingsNext]_settingsVars => SettingsInv'
<1> SUFFICES ASSUME SettingsInv, [SettingsNext]_settingsVars
             PROVE  SettingsInv'
  OBVIOUS
<1>1. CASE SettingsNext
  BY <1>1, HandlersKeep, SavedKeeps, SwitchKeeps, RestartKeeps DEF SettingsNext
<1>2. CASE UNCHANGED settingsVars
  BY <1>2 DEF settingsVars, SettingsInv, SettingsAreSaved, CurrentHasTools
<1> QED BY <1>1, <1>2

-----------------------------------------------------------------------------
(* The variables of Settings have their types.                             *)
THEOREM SettingsTyped == SettingsSpec => []SettingsTypeOK
<1>1. SettingsInv => SettingsTypeOK
  BY DEF SettingsInv, SettingsTypeOK, Entries, Models
<1> QED BY <1>1, SettingsInvInit, SettingsInvStep, PTL DEF SettingsSpec

(* Whatever is changed, written or lost by crashes and failing writes, a   *)
(* list that is neither being written nor known to be unsaved is the one   *)
(* in its file.                                                            *)
THEOREM SettingsSaved == SettingsSpec => []SettingsAreSaved
<1>1. SettingsInv => SettingsAreSaved
  BY DEF SettingsInv
<1> QED BY <1>1, SettingsInvInit, SettingsInvStep, PTL DEF SettingsSpec

(* The model that serves has the tools, however many requests switch it.   *)
THEOREM ModelsHaveTools == SettingsSpec => []CurrentHasTools
<1>1. SettingsInv => CurrentHasTools
  BY DEF SettingsInv
<1> QED BY <1>1, SettingsInvInit, SettingsInvStep, PTL DEF SettingsSpec

-----------------------------------------------------------------------------
(* The start.                                                              *)

LocalTools == {"local", "expert"}

(* What fx has built has all that it takes; so the graph, which reads the  *)
(* registry, comes after the provider that fills it.                       *)
BuiltInOrder ==
  /\ \A p \in built : Needs[p] \subseteq built
  /\ "toolRegistry" \in built => LocalTools \subseteq registry
  /\ "agentGraph" \in built => LocalTools \subseteq mainTools
  /\ stage > 1 => "batchPipeline" \in built
  /\ startOutcome = "running" => stage > 1

StartInv == StartTypeOK /\ BuiltInOrder

-----------------------------------------------------------------------------
LEMMA ThreeInvokes ==
  /\ Len(Invokes) = 3 /\ DOMAIN Invokes = 1..3
  /\ Invokes[1] = "batchPipeline" /\ Invokes[2] = "connector" /\ Invokes[3] = "engine"
  BY DEF Invokes

LEMMA GraphNeeds ==
  /\ "toolRegistry" \in Needs["agentGraph"]
  /\ "agentGraph" \in Needs["batchPipeline"]
  BY DEF Needs, Providers

LEMMA StartInvInit == StartInit => StartInv
  BY ThreeInvokes DEF StartInit, StartInv, StartTypeOK, BuiltInOrder

(* A provider is built after its parameters; only the one that fills the   *)
(* registry changes it, and it takes nothing away.                         *)
LEMMA BuildKeeps ==
  ASSUME StartInv, NEW p \in Providers, Build(p)
  PROVE  StartInv'
<1>1. /\ built' = built \cup {p} /\ Needs[p] \subseteq built
      /\ UNCHANGED <<set, up, stage>> /\ startOutcome = "starting"
  BY DEF Build
<1>2. \A q \in built' : Needs[q] \subseteq built'
  BY <1>1 DEF StartInv, BuiltInOrder
<1>3. CASE p = "subAgents"
  <2>1. CASE startOutcome' = "failed" /\ UNCHANGED <<registry, subTools, mainTools>>
    BY <1>1, <1>2, <1>3, <2>1 DEF StartInv, StartTypeOK, BuiltInOrder
  <2>2. CASE subTools' = registry \cap {"expert"}
             /\ UNCHANGED <<registry, mainTools, startOutcome>>
    BY <1>1, <1>2, <1>3, <2>2 DEF StartInv, StartTypeOK, BuiltInOrder
  <2> QED BY <1>3, <2>1, <2>2 DEF Build, BuildSubAgents
<1>4. CASE p = "toolRegistry"
  <2>1. registry' = registry \cup LocalTools /\ UNCHANGED <<subTools, mainTools, startOutcome>>
    BY <1>4 DEF Build, LocalTools
  <2> QED BY <1>1, <1>2, <1>4, <2>1 DEF StartInv, StartTypeOK, BuiltInOrder, LocalTools
<1>5. CASE p = "agentGraph"
  <2>1. mainTools' = registry /\ UNCHANGED <<registry, subTools, startOutcome>>
    BY <1>5 DEF Build
  <2>2. LocalTools \subseteq registry
    BY <1>1, <1>5, GraphNeeds DEF StartInv, BuiltInOrder
  <2> QED BY <1>1, <1>2, <1>5, <2>1, <2>2 DEF StartInv, StartTypeOK, BuiltInOrder
<1>6. CASE p \notin {"subAgents", "toolRegistry", "agentGraph"}
  <2>1. UNCHANGED <<registry, subTools, mainTools, startOutcome>>
    BY <1>6 DEF Build
  <2> QED BY <1>1, <1>2, <1>6, <2>1 DEF StartInv, StartTypeOK, BuiltInOrder
<1> QED BY <1>3, <1>4, <1>5, <1>6

(* The first invoke is the one that takes the pipeline, and by it the graph.*)
LEMMA InvokeKeeps ==
  ASSUME StartInv, Invoke
  PROVE  StartInv'
<1>1. stage \in 1..3 /\ stage' = stage + 1 /\ Invokes[stage] \in built
  BY ThreeInvokes DEF Invoke
<1>2. stage' \in 1..4 /\ "batchPipeline" \in built
  BY <1>1, ThreeInvokes DEF StartInv, BuiltInOrder
<1>3. registry \subseteq registry' /\ registry' \subseteq {"local", "expert", "mcp"}
  BY DEF Invoke, StartInv, StartTypeOK
<1>4. UNCHANGED <<set, up, built, subTools, mainTools, startOutcome>>
      /\ startOutcome = "starting"
  BY DEF Invoke
<1>5. StartTypeOK'
  <2>1. stage' \in 1..(Len(Invokes) + 1)
    BY <1>2, ThreeInvokes
  <2> QED BY <1>3, <1>4, <2>1 DEF StartInv, StartTypeOK
<1>6. BuiltInOrder'
  BY <1>2, <1>3, <1>4 DEF StartInv, BuiltInOrder, LocalTools
<1> QED BY <1>5, <1>6 DEF StartInv

LEMMA ServeKeeps ==
  ASSUME StartInv, Serve
  PROVE  StartInv'
<1>1. stage \in 1..4 /\ stage \notin 1..3
  BY ThreeInvokes DEF StartInv, StartTypeOK, Serve
<1>2. stage > 1
  BY <1>1
<1> QED BY <1>2 DEF Serve, StartInv, StartTypeOK, BuiltInOrder

LEMMA StartInvStep == StartInv /\ [StartNext]_startVars => StartInv'
<1>1. StartInv /\ UNCHANGED startVars => StartInv'
  BY DEF startVars, StartInv, StartTypeOK, BuiltInOrder
<1> QED BY <1>1, BuildKeeps, InvokeKeeps, ServeKeeps DEF StartNext

LEMMA StartInvAlways == StartSpec => []StartInv
  BY StartInvInit, StartInvStep, PTL DEF StartSpec

-----------------------------------------------------------------------------
(* The variables of the start keep their types.                            *)
THEOREM StartTyped == StartSpec => []StartTypeOK
<1>1. StartInv => StartTypeOK
  BY DEF StartInv
<1> QED BY <1>1, StartInvAlways, PTL

(* Whatever is configured and whatever does not answer, the providers of   *)
(* the indexer, the retriever and the document store choose back ends that *)
(* fit, and in any order that fx may choose the agent's graph is compiled  *)
(* with all local tools (ProvideToolRegistry, ProvideAgentGraph).          *)
THEOREM ConsistentStart == StartSpec => []StartIsConsistent
<1>1. StartInv => StartIsConsistent
  <2> SUFFICES ASSUME StartInv, startOutcome = "running"
               PROVE  StartIsConsistent
    BY DEF StartIsConsistent
  <2>1. Indexer = Retriever /\ DocStore \in {Indexer, "none"}
    BY DEF Indexer, Retriever, DocStore
  <2>2. "batchPipeline" \in built
    BY DEF StartInv, BuiltInOrder
  <2>3. "agentGraph" \in built
    BY <2>2, GraphNeeds DEF StartInv, BuiltInOrder
  <2> QED BY <2>1, <2>3 DEF StartInv, BuiltInOrder, StartIsConsistent, LocalTools
<1> QED BY <1>1, StartInvAlways, PTL

-----------------------------------------------------------------------------
(* Imports, edits and removals of MCP servers.                             *)

Phases == {"new", "unpack", "detect", "save", "dial", "append", "tools", "over"}

McpTyped ==
  /\ folder \in [Projects -> SUBSET (Manifests \X Requests)]
  /\ DOMAIN mcpList = Projects /\ DOMAIN found = Requests
  /\ mcpAt \in [Requests -> Phases]
  /\ job \in [Requests -> [name : Projects, files : SUBSET Manifests]]
  /\ unpacking \in [Requests -> SUBSET Manifests]
  /\ muddled \in SUBSET Projects

EntryFile(r) == IF job[r].files = {} THEN "none" ELSE First(job[r].files)

(* The import that runs alone: what it has unpacked is what the directory  *)
(* holds, and all of it when the entry is made.                            *)
ImportSound(r) ==
  LET n == job[r].name IN
  /\ Importing(n) = {r}
  /\ mcpAt[r] = "unpack" =>
       unpacking[r] \subseteq job[r].files /\ folder[n] = (job[r].files \ unpacking[r]) \X {r}
  /\ mcpAt[r] \in {"detect", "save"} => folder[n] = job[r].files \X {r}
  /\ mcpAt[r] = "save" => found[r].by = r /\ found[r].file = EntryFile(r)

EntrySound(n) ==
  mcpList[n].by \in Requests /\ Importing(n) = {} =>
    /\ folder[n] = job[mcpList[n].by].files \X {mcpList[n].by}
    /\ mcpList[n].file = EntryFile(mcpList[n].by)

McpInv ==
  /\ McpTyped
  /\ \A n \in Projects \ muddled : EntrySound(n) /\ \A r \in Importing(n) : ImportSound(r)

-----------------------------------------------------------------------------
LEMMA McpInvInit == McpInit => McpInv
<1> SUFFICES ASSUME McpInit PROVE McpInv
  OBVIOUS
<1>1. McpTyped
  BY DEF McpInit, McpTyped, Phases
<1>2. \A n \in Projects : Importing(n) = {} /\ mcpList[n].by \notin Requests
  BY McpAssumption DEF McpInit, Importing, NoServer
<1> QED BY <1>1, <1>2 DEF McpInv, EntrySound

(* A step in which no import begins, goes on or ends, and no entry is made *)
(* for an import.                                                          *)
QuietStep ==
  /\ UNCHANGED <<folder, job, unpacking, muddled>>
  /\ mcpAt' \in [Requests -> Phases] /\ DOMAIN mcpList' = Projects /\ DOMAIN found' = Requests
  /\ \A r \in Requests :
       \/ mcpAt'[r] = mcpAt[r] /\ found'[r] = found[r]
       \/ /\ mcpAt[r] \notin {"unpack", "detect", "save"}
          /\ mcpAt'[r] \notin {"unpack", "detect", "save"}
  /\ \A n \in Projects : mcpList'[n] = mcpList[n] \/ mcpList'[n].by \notin Requests

LEMMA QuietImports == ASSUME McpInv, QuietStep PROVE McpInv'
<1> USE DEF QuietStep
<1>1. \A n \in Projects : Importing(n)' = Importing(n)
  BY DEF Importing
<1>2. \A n \in Projects : EntrySound(n) => EntrySound(n)'
  BY <1>1 DEF EntrySound, EntryFile
<1>3. \A r \in Requests : mcpAt[r] \in {"unpack", "detect", "save"} /\ ImportSound(r) => ImportSound(r)'
  BY <1>1 DEF ImportSound, EntryFile, McpInv, McpTyped
<1>4. McpTyped'
  BY DEF McpInv, McpTyped
<1> QED BY <1>1, <1>2, <1>3, <1>4 DEF McpInv, Importing

(* A step of an import: the other projects do not notice.                  *)
LEMMA OtherProjects ==
  ASSUME McpInv, NEW r \in Requests, UNCHANGED job,
         \A q \in Requests : q # r => mcpAt'[q] = mcpAt[q] /\ unpacking'[q] = unpacking[q]
                                      /\ found'[q] = found[q],
         NEW n \in Projects \ muddled', n # job[r].name, n \notin muddled,
         folder'[n] = folder[n], mcpList'[n] = mcpList[n]
  PROVE  EntrySound(n)' /\ \A q \in Importing(n)' : ImportSound(q)'
<1>1. Importing(n)' = Importing(n) /\ \A q \in Importing(n) : q # r /\ job[q].name = n
  BY DEF Importing
<1>2. EntrySound(n)'
  BY <1>1 DEF McpInv, EntrySound, EntryFile
<1>3. \A q \in Importing(n) : ImportSound(q)'
  BY <1>1 DEF McpInv, ImportSound, EntryFile, Importing
<1> QED BY <1>1, <1>2, <1>3

LEMMA BeginImportKeeps ==
  ASSUME McpInv, NEW r \in Requests, BeginImport(r)
  PROVE  McpInv'
<1> DEFINE n == job[r].name
<1>1. /\ n \in Projects /\ mcpAt[r] = "new" /\ mcpAt' = [mcpAt EXCEPT ![r] = "unpack"]
      /\ unpacking' = [unpacking EXCEPT ![r] = job[r].files]
      /\ UNCHANGED <<mcpList, job, found>> /\ job[r].files \in SUBSET Manifests
  BY DEF BeginImport, Goes, McpInv, McpTyped
<1>2. \A m \in Projects : m # n => folder'[m] = folder[m] /\ (m \in muddled' <=> m \in muddled)
  BY <1>1 DEF BeginImport, McpInv, McpTyped
<1>3. McpTyped'
  BY <1>1 DEF BeginImport, McpInv, McpTyped, Phases
<1>4. ASSUME n \notin muddled'
      PROVE  EntrySound(n)' /\ \A q \in Importing(n)' : ImportSound(q)'
  <2>1. Importing(n) = {} /\ folder'[n] = {}
    BY <1>1, <1>4 DEF BeginImport, RemoveAll, McpInv, McpTyped
  <2>2. Importing(n)' = {r}
    BY <1>1, <2>1 DEF Importing, McpInv, McpTyped
  <2>3. mcpAt'[r] = "unpack" /\ unpacking'[r] = job[r].files
    BY <1>1 DEF McpInv, McpTyped
  <2>4. ImportSound(r)'
    BY <1>1, <2>1, <2>2, <2>3 DEF ImportSound
  <2> QED BY <2>2, <2>4 DEF EntrySound
<1>5. \A m \in Projects \ muddled' : m # n =>
        EntrySound(m)' /\ \A q \in Importing(m)' : ImportSound(q)'
  BY <1>1, <1>2, OtherProjects DEF McpInv, McpTyped
<1> QED BY <1>1, <1>3, <1>4, <1>5 DEF McpInv

LEMMA UnpackKeeps ==
  ASSUME McpInv, NEW r \in Requests, Unpack(r)
  PROVE  McpInv'
<1> DEFINE n == job[r].name
<1>1. PICK f \in unpacking[r] :
        /\ unpacking' = [unpacking EXCEPT ![r] = @ \ {f}]
        /\ folder' = [folder EXCEPT ![n] = {g \in @ : g[1] # f} \cup {<<f, r>>}]
  BY DEF Unpack
<1>2. /\ n \in Projects /\ mcpAt[r] = "unpack" /\ f \in Manifests
      /\ UNCHANGED <<mcpList, job, found, mcpAt, muddled>>
  BY DEF Unpack, McpInv, McpTyped
<1>3. McpTyped'
  BY <1>1, <1>2 DEF McpInv, McpTyped
<1>4. Importing(n)' = Importing(n) /\ r \in Importing(n)
  BY <1>2 DEF Importing
<1>5. ASSUME n \notin muddled
      PROVE  EntrySound(n)' /\ \A q \in Importing(n)' : ImportSound(q)'
  <2>1. ImportSound(r)
    BY <1>2, <1>4, <1>5 DEF McpInv
  <2>2. folder'[n] = (job[r].files \ unpacking'[r]) \X {r}
        /\ unpacking'[r] \subseteq job[r].files
    <3>1. /\ folder[n] = (job[r].files \ unpacking[r]) \X {r}
          /\ unpacking[r] \subseteq job[r].files
      BY <1>2, <2>1 DEF ImportSound
    <3>2. folder'[n] = {g \in folder[n] : g[1] # f} \cup {<<f, r>>}
          /\ unpacking'[r] = unpacking[r] \ {f}
      BY <1>1, <1>2 DEF McpInv, McpTyped
    <3>3. {g \in folder[n] : g[1] # f} \cup {<<f, r>>}
            = (job[r].files \ (unpacking[r] \ {f})) \X {r}
      BY <1>1, <3>1
    <3> QED BY <3>1, <3>2, <3>3
  <2>3. ImportSound(r)'
    BY <1>2, <1>4, <2>1, <2>2 DEF ImportSound
  <2> QED BY <1>4, <2>1, <2>3 DEF ImportSound, EntrySound
<1>6. \A m \in Projects \ muddled' : m # n =>
        EntrySound(m)' /\ \A q \in Importing(m)' : ImportSound(q)'
  <2>1. \A m \in Projects : m # n => folder'[m] = folder[m]
    BY <1>1 DEF McpInv, McpTyped
  <2>2. \A q \in Requests : q # r => unpacking'[q] = unpacking[q]
    BY <1>1 DEF McpInv, McpTyped
  <2> QED BY <1>2, <2>1, <2>2, OtherProjects
<1> QED BY <1>2, <1>3, <1>5, <1>6 DEF McpInv

(* An import goes from one place to another, or ends.                      *)
LEMMA ImportMoves ==
  ASSUME McpInv, NEW r \in Requests, Unpacked(r) \/ Detect(r) \/ SaveServer(r) \/ ImportFails(r)
  PROVE  LET n == job[r].name IN
         /\ n \in Projects /\ r \in Importing(n) /\ UNCHANGED <<folder, job, unpacking>>
         /\ McpTyped' /\ muddled \subseteq muddled'
         /\ \A q \in Requests : q # r => mcpAt'[q] = mcpAt[q] /\ found'[q] = found[q]
         /\ \A m \in Projects : m # n => mcpList'[m] = mcpList[m]
<1>1. mcpAt[r] \in {"unpack", "detect", "save"} /\ job[r].name \in Projects
  BY DEF Unpacked, Detect, SaveServer, ImportFails, Goes, McpInv, McpTyped
<1>2. McpTyped'
  BY DEF Unpacked, Detect, SaveServer, ImportFails, Goes, McpInv, McpTyped, Phases
<1> QED BY <1>1, <1>2
        DEF Unpacked, Detect, SaveServer, ImportFails, Goes, McpInv, McpTyped, Importing

LEMMA ImportStepKeeps ==
  ASSUME McpInv, NEW r \in Requests, Unpacked(r) \/ Detect(r) \/ SaveServer(r) \/ ImportFails(r)
  PROVE  McpInv'
<1> DEFINE n == job[r].name
<1>1. /\ n \in Projects /\ r \in Importing(n) /\ UNCHANGED <<folder, job, unpacking>>
      /\ McpTyped' /\ muddled \subseteq muddled'
      /\ \A q \in Requests : q # r => mcpAt'[q] = mcpAt[q] /\ found'[q] = found[q]
      /\ \A m \in Projects : m # n => mcpList'[m] = mcpList[m]
  BY ImportMoves
<1>2. \A m \in Projects \ muddled' : m # n =>
        EntrySound(m)' /\ \A q \in Importing(m)' : ImportSound(q)'
  BY <1>1, OtherProjects
<1>3. ASSUME n \notin muddled'
      PROVE  EntrySound(n)' /\ \A q \in Importing(n)' : ImportSound(q)'
  <2>1. ImportSound(r)
    BY <1>1, <1>3 DEF McpInv
  <2>2. CASE Unpacked(r) \/ Detect(r)
    <3>1. Importing(n)' = {r}
      BY <1>1, <2>1, <2>2 DEF ImportSound, Importing, Unpacked, Detect, Goes, McpInv, McpTyped
    <3>2. folder[n] = job[r].files \X {r}
      BY <2>1, <2>2 DEF ImportSound, Unpacked, Detect, Goes
    <3>3. CASE Unpacked(r)
      <4>1. mcpAt'[r] = "detect"
        BY <3>3 DEF Unpacked, Goes, McpInv, McpTyped
      <4> QED BY <1>1, <3>1, <3>2, <4>1 DEF ImportSound, EntrySound
    <3>4. CASE Detect(r)
      <4>1. {f[1] : f \in folder[n]} = job[r].files
        <5>1. \A x \in job[r].files : <<x, r>> \in folder[n] /\ <<x, r>>[1] = x
          BY <3>2
        <5>2. \A f \in folder[n] : f[1] \in job[r].files
          BY <3>2
        <5> QED BY <5>1, <5>2
      <4>2. mcpAt'[r] = "save" /\ found'[r].by = r /\ found'[r].file = EntryFile(r)
        BY <3>4, <4>1 DEF Detect, Goes, McpInv, McpTyped, EntryFile
      <4>3. EntryFile(r)' = EntryFile(r)
        BY <1>1 DEF EntryFile
      <4> QED BY <1>1, <3>1, <3>2, <4>2, <4>3 DEF ImportSound, EntrySound
    <3> QED BY <2>2, <3>3, <3>4
  <2>3. CASE SaveServer(r)
    <3>1. mcpAt[r] = "save" /\ mcpAt' = [mcpAt EXCEPT ![r] = "dial"]
          /\ mcpList'[n] = found[r]
      BY <1>1, <2>3 DEF SaveServer, Goes, McpInv, McpTyped
    <3>2. Importing(n)' = {}
      BY <1>1, <2>1, <3>1 DEF ImportSound, Importing, McpInv, McpTyped
    <3>3. EntrySound(n)'
      BY <1>1, <2>1, <3>1 DEF ImportSound, EntrySound, EntryFile
    <3> QED BY <3>2, <3>3
  <2>4. CASE ImportFails(r)
    BY <1>3, <2>4 DEF ImportFails
  <2> QED BY <2>2, <2>3, <2>4
<1> QED BY <1>1, <1>2, <1>3 DEF McpInv

LEMMA McpStep == McpInv /\ [McpNext]_mcpVars => McpInv'
<1> SUFFICES ASSUME McpInv, [McpNext]_mcpVars PROVE McpInv'
  OBVIOUS
<1>1. ASSUME NEW r \in Requests, UpsertServer(r) \/ RemoveServer(r)
      PROVE  McpInv'
  <2>1. /\ UNCHANGED <<folder, job, unpacking, muddled>> /\ mcpAt[r] = "new"
        /\ \A q \in Requests : q # r => mcpAt'[q] = mcpAt[q] /\ found'[q] = found[q]
        /\ DOMAIN found' = Requests /\ DOMAIN mcpList' = Projects
    BY <1>1 DEF UpsertServer, RemoveServer, Goes, McpInv, McpTyped
  <2>2. mcpAt' \in [Requests -> Phases] /\ mcpAt'[r] \in {"dial", "over"}
    BY <1>1 DEF UpsertServer, RemoveServer, Goes, McpInv, McpTyped, Phases
  <2>3. \A m \in Projects : mcpList'[m] = mcpList[m] \/ mcpList'[m].by \in {"user", "none"}
    BY <1>1 DEF UpsertServer, RemoveServer, McpInv, McpTyped, NoServer
  <2>4. \A m \in Projects : mcpList'[m] = mcpList[m] \/ mcpList'[m].by \notin Requests
    BY <2>3, McpAssumption
  <2>5. QuietStep
    BY <2>1, <2>2, <2>4 DEF QuietStep
  <2> QED BY <2>5, QuietImports
<1>2. ASSUME NEW r \in Requests,
             Reconnect(r) \/ Dial(r) \/ NoDial(r) \/ KeepClient(r) \/ RegisterTools(r)
      PROVE  McpInv'
  <2>1. /\ UNCHANGED <<folder, job, unpacking, muddled, mcpList>>
        /\ \A q \in Requests : q # r => mcpAt'[q] = mcpAt[q] /\ found'[q] = found[q]
        /\ DOMAIN found' = Requests
    BY <1>2 DEF Reconnect, Dial, NoDial, KeepClient, RegisterTools, Goes, McpInv, McpTyped
  <2>2. /\ mcpAt' \in [Requests -> Phases]
        /\ mcpAt[r] \in {"new", "dial", "append", "tools"}
        /\ mcpAt'[r] \in {"dial", "append", "tools", "over"}
    BY <1>2 DEF Reconnect, Dial, NoDial, KeepClient, RegisterTools, Goes, McpInv, McpTyped, Phases
  <2>3. DOMAIN mcpList' = Projects /\ \A m \in Projects : mcpList'[m] = mcpList[m]
    BY <2>1 DEF McpInv, McpTyped
  <2>4. QuietStep
    BY <2>1, <2>2, <2>3 DEF QuietStep
  <2> QED BY <2>4, QuietImports
<1>3. CASE CloseAll \/ UNCHANGED mcpVars
  <2>1. QuietStep
    BY <1>3 DEF CloseAll, mcpVars, McpInv, McpTyped, QuietStep
  <2> QED BY <2>1, QuietImports
<1> QED BY <1>1, <1>2, <1>3, BeginImportKeeps, UnpackKeeps, ImportStepKeeps DEF McpNext

(* For any names, archives and order of requests: the entry of an imported *)
(* project starts what its archive held, unless imports of that name met   *)
(* or one of them failed.                                                  *)
THEOREM EntriesSound == McpSpec => []EntriesRunTheirUpload
<1>1. McpInv => EntriesRunTheirUpload
  BY DEF McpInv, EntrySound, EntryFile, EntriesRunTheirUpload
<1> QED BY <1>1, McpInvInit, McpStep, PTL DEF McpSpec

(* What an entry of the list, and one in hand, can be.                     *)
Servers ==
  [transport : {"none", "stdio", "sse", "agent"}, file : Manifests \cup {"none"}, absolute : {0, 1},
   by : Requests \cup {"user", "none"}]

McpWell ==
  /\ folder \in [Projects -> SUBSET (Manifests \X Requests)]
  /\ mcpList \in [Projects -> Servers] /\ found \in [Requests -> Servers]
  /\ job \in [Requests -> [name : Projects, files : SUBSET Manifests]]
  /\ unpacking \in [Requests -> SUBSET Manifests]
  /\ seen \in [Requests -> SUBSET Requests]
  /\ dialed \in SUBSET Requests /\ clients \in SUBSET Requests /\ mcpTools \in SUBSET Requests
  /\ muddled \in SUBSET Projects

LEMMA McpWellKept ==
  ASSUME McpWell, [McpNext]_mcpVars
  PROVE  McpWell'
<1>1. ASSUME NEW r \in Requests, BeginImport(r) PROVE McpWell'
  <2>1. job[r].name \in Projects /\ job[r].files \in SUBSET Manifests
    BY DEF McpWell
  <2>2. muddled' \in SUBSET Projects /\ folder' \in [Projects -> SUBSET (Manifests \X Requests)]
    BY <1>1, <2>1 DEF BeginImport, McpWell
  <2> QED BY <1>1, <2>1, <2>2 DEF BeginImport, Goes, McpWell
<1>2. ASSUME NEW r \in Requests, Unpack(r) PROVE McpWell'
  <2>1. PICK f \in unpacking[r] :
          /\ unpacking' = [unpacking EXCEPT ![r] = @ \ {f}]
          /\ folder' = [folder EXCEPT ![job[r].name] = {g \in @ : g[1] # f} \cup {<<f, r>>}]
    BY <1>2 DEF Unpack
  <2>2. job[r].name \in Projects /\ <<f, r>> \in Manifests \X Requests
    BY DEF McpWell
  <2>3. folder' \in [Projects -> SUBSET (Manifests \X Requests)]
    BY <2>1, <2>2 DEF McpWell
  <2>4. unpacking' \in [Requests -> SUBSET Manifests]
    BY <2>1 DEF McpWell
  <2> QED BY <1>2, <2>3, <2>4 DEF Unpack, McpWell
<1>3. ASSUME NEW r \in Requests, Detect(r) PROVE McpWell'
  <2>1. {f[1] : f \in folder[job[r].name]} \subseteq Manifests
    BY DEF McpWell
  <2>2. found' \in [Requests -> Servers]
    BY <1>3, <2>1 DEF Detect, McpWell, Servers, First, Manifests
  <2> QED BY <1>3, <2>2 DEF Detect, Goes, McpWell
<1>4. ASSUME NEW r \in Requests, UpsertServer(r) PROVE McpWell'
  <2>1. PICK t \in {"sse", "stdio", "agent"} :
          found' = [found EXCEPT ![r] = [transport |-> t, file |-> "none", absolute |-> 0, by |-> "user"]]
    BY <1>4 DEF UpsertServer
  <2>2. found' \in [Requests -> Servers]
    BY <2>1 DEF McpWell, Servers
  <2>3. mcpList' \in [Projects -> Servers]
    BY <1>4, <2>2 DEF UpsertServer, McpWell
  <2> QED BY <1>4, <2>2, <2>3 DEF UpsertServer, Goes, McpWell
<1>5. ASSUME NEW r \in Requests, Reconnect(r) PROVE McpWell'
  <2>1. mcpList[job[r].name] \in Servers
    BY DEF McpWell
  <2>2. [mcpList[job[r].name] EXCEPT !.by = r] \in Servers
    BY <2>1 DEF Servers
  <2> QED BY <1>5, <2>2 DEF Reconnect, Goes, McpWell
<1>6. ASSUME NEW r \in Requests, RemoveServer(r) PROVE McpWell'
  <2>1. NoServer \in Servers
    BY DEF NoServer, Servers
  <2> QED BY <1>6, <2>1 DEF RemoveServer, Goes, McpWell
<1>7. ASSUME NEW r \in Requests, ImportFails(r) PROVE McpWell'
  BY <1>7 DEF ImportFails, Goes, McpWell
<1>8. ASSUME NEW r \in Requests, Unpacked(r) \/ SaveServer(r) PROVE McpWell'
  BY <1>8 DEF Unpacked, SaveServer, Goes, McpWell
<1>9. ASSUME NEW r \in Requests, Dial(r) \/ NoDial(r) PROVE McpWell'
  BY <1>9 DEF Dial, NoDial, Goes, McpWell
<1>10. ASSUME NEW r \in Requests, KeepClient(r) \/ RegisterTools(r) PROVE McpWell'
  BY <1>10 DEF KeepClient, RegisterTools, Goes, McpWell
<1>11. CASE CloseAll
  BY <1>11 DEF CloseAll, McpWell
<1>12. CASE UNCHANGED mcpVars
  BY <1>12 DEF mcpVars, McpWell
<1> QED BY <1>1, <1>2, <1>3, <1>4, <1>5, <1>6, <1>7, <1>8, <1>9, <1>10, <1>11, <1>12 DEF McpNext

(* Type correctness of the projects, the list and the connections, for any *)
(* requests and names.                                                     *)
THEOREM McpTypeCorrect == McpSpec => []McpTypeOK
<1>1. McpInit => McpWell
  <2> SUFFICES ASSUME McpInit PROVE McpWell
    OBVIOUS
  <2>1. NoServer \in Servers
    BY DEF NoServer, Servers
  <2> QED BY <2>1 DEF McpInit, McpWell
<1>2. McpWell => McpTypeOK
  BY DEF McpWell, McpTypeOK, Servers
<1> QED BY <1>1, <1>2, McpWellKept, PTL DEF McpSpec

-----------------------------------------------------------------------------
(* The batch of tasks and the reader of its events.                        *)

Outcomes == {"task_done", "task_error"}

(* Everything sent so far, read or not, in order.                          *)
Sent      == Len(received) + Len(batchCh)
SentAt(i) == IF i <= Len(received) THEN received[i] ELSE batchCh[i - Len(received)]

AnySeq(s) == \E S : s \in Seq(S)

(* Before it begins there is nothing.                                      *)
Untouched ==
  readerAt = "new" =>
    batchAt = "none" /\ results = <<>> /\ received = <<>> /\ batchCh = <<>>

BatchTyped ==
  /\ batchAt \in {"none", "next", "invoke", "report", "last", "closed"}
  /\ readerAt \in {"new", "reads", "left"} /\ batchGone \in BOOLEAN
  /\ AnySeq(received) /\ AnySeq(batchCh)
  /\ results \in Seq(Outcomes) /\ Len(batchCh) <= ChannelRoom
  /\ batchAt = "report" => outcome \in Outcomes

(* The k-th outcome is the event 2k, and the start of its task the one     *)
(* before.                                                                 *)
Paired ==
  /\ 2 * Len(results) <= Sent
  /\ \A k \in 1..Len(results) :
       /\ SentAt(2 * k).type = results[k]
       /\ SentAt(2 * k - 1) = [type |-> "task_start", id |-> SentAt(2 * k).id]
  /\ \A i \in 1..Sent : i > 2 * Len(results) => SentAt(i).type \notin Outcomes

(* What follows the last outcome.                                          *)
Trailing ==
  /\ batchAt \in {"none", "next"} => Sent = 2 * Len(results)
  /\ batchAt \in {"invoke", "report"} =>
       /\ Sent = 2 * Len(results) + 1
       /\ SentAt(Sent) = [type |-> "task_start", id |-> batchId]
  /\ batchAt = "last" =>
       Len(results) = Len(tasks) /\ Sent \in {2 * Len(results), 2 * Len(results) + 1}

(* A summary stands behind all the outcomes and counts them.               *)
Summed ==
  \A i \in 1..Sent : SentAt(i).type = "summary" =>
    /\ batchAt \in {"last", "closed"}
    /\ i = 2 * Len(results) + 1 /\ Len(results) = Len(tasks)
    /\ SentAt(i).done = Ended("task_done") /\ SentAt(i).of = Len(results)

(* The report of a cancelled batch, the last event, counts them.           *)
Cut ==
  \A i \in 1..Sent : SentAt(i).type = "cancelled" =>
    /\ batchAt = "closed"
    /\ i = 2 * Len(results) + 1 /\ Len(results) < Len(tasks)
    /\ SentAt(i).done = Len(results) /\ SentAt(i).of = Len(tasks)

BatchInv == BatchTyped /\ Untouched /\ Paired /\ Trailing /\ Summed /\ Cut

-----------------------------------------------------------------------------
LEMMA AppendAny ==
  ASSUME NEW s, AnySeq(s), NEW e
  PROVE  /\ AnySeq(Append(s, e))
         /\ Len(s) \in Nat /\ Len(Append(s, e)) = Len(s) + 1
         /\ \A i \in 1..Len(s) : Append(s, e)[i] = s[i]
         /\ Append(s, e)[Len(s) + 1] = e
<1>1. PICK S : s \in Seq(S)
  BY DEF AnySeq
<1> DEFINE T == S \cup {e}
<1>2. s \in Seq(T) /\ e \in T
  BY <1>1, SeqMonotonic
<1> HIDE DEF T
<1>3. /\ Append(s, e) \in Seq(T)
      /\ Len(Append(s, e)) = Len(s) + 1
      /\ \A i \in 1..Len(s) : Append(s, e)[i] = s[i]
      /\ Append(s, e)[Len(s) + 1] = e
  BY <1>2, AppendProperties
<1>4. Len(s) \in Nat
  BY <1>2, LenProperties
<1> QED BY <1>3, <1>4 DEF AnySeq

LEMMA TakeAny ==
  ASSUME NEW s, AnySeq(s), s # <<>>
  PROVE  /\ AnySeq(Tail(s))
         /\ Len(s) \in Nat \ {0} /\ Len(Tail(s)) = Len(s) - 1
         /\ Head(s) = s[1]
         /\ \A i \in 1..(Len(s) - 1) : Tail(s)[i] = s[i + 1]
<1>1. PICK S : s \in Seq(S)
  BY DEF AnySeq
<1>2. Len(s) \in Nat \ {0}
  BY <1>1, LenProperties, EmptySeq
<1>3. /\ Head(s) = s[1] /\ Tail(s) \in Seq(S) /\ Len(Tail(s)) = Len(s) - 1
      /\ \A i \in 1..(Len(s) - 1) : Tail(s)[i] = s[i + 1]
  BY <1>1, HeadTailProperties
<1> QED BY <1>2, <1>3 DEF AnySeq

LEMMA AnyLen ==
  ASSUME NEW s, AnySeq(s)
  PROVE  Len(s) \in Nat
BY LenProperties DEF AnySeq

(* A step sends one event, or none.                                        *)
Sends(e) ==
  /\ Sent' = Sent + 1
  /\ \A i \in Nat : i = Sent + 1 => SentAt(i)' = e
  /\ \A i \in 1..Sent : SentAt(i)' = SentAt(i)
Quiet ==
  /\ Sent' = Sent
  /\ \A i \in 1..Sent : SentAt(i)' = SentAt(i)

LEMMA Sending ==
  ASSUME BatchTyped, NEW e, batchCh' = Append(batchCh, e), received' = received
  PROVE  Sends(e) /\ AnySeq(batchCh)' /\ AnySeq(received)' /\ Sent \in Nat /\ Len(batchCh)' = Len(batchCh) + 1
<1> DEFINE a == Len(received)
           b == Len(batchCh)
<1>1. a \in Nat /\ b \in Nat /\ AnySeq(batchCh) /\ AnySeq(received)
  BY AnyLen DEF BatchTyped
<1>2. /\ AnySeq(batchCh') /\ Len(batchCh') = b + 1
      /\ \A i \in 1..b : batchCh'[i] = batchCh[i]
      /\ batchCh'[b + 1] = e
  BY <1>1, AppendAny
<1>3. Sent = a + b /\ Sent' = a + (b + 1) /\ a' = a
  BY <1>2 DEF Sent
<1>4. /\ \A i \in Nat : i <= a => SentAt(i) = received[i] /\ SentAt(i)' = received[i]
      /\ \A i \in Nat : ~(i <= a) => SentAt(i) = batchCh[i - a] /\ SentAt(i)' = batchCh'[i - a]
  BY DEF SentAt
<1> HIDE DEF a, b
<1>5. ASSUME NEW i \in Nat, i = a + (b + 1) PROVE SentAt(i)' = e
  <2>1. ~(i <= a) /\ i - a = b + 1
    BY <1>1, <1>5
  <2> QED BY <1>2, <1>4, <2>1
<1>6. ASSUME NEW i \in 1..(a + b) PROVE SentAt(i)' = SentAt(i)
  <2>1. CASE i <= a
    BY <1>4, <2>1
  <2>2. CASE ~(i <= a)
    <3>1. i - a \in 1..b /\ i \in Nat
      BY <1>1, <2>2
    <3> QED BY <1>2, <1>4, <2>2, <3>1
  <2> QED BY <2>1, <2>2
<1>7. a + b + 1 = a + (b + 1)
  BY <1>1
<1> QED BY <1>1, <1>2, <1>3, <1>5, <1>6, <1>7 DEF Sends, b

LEMMA Reading ==
  ASSUME BatchTyped, batchCh # <<>>,
         received' = Append(received, Head(batchCh)), batchCh' = Tail(batchCh)
  PROVE  Quiet /\ AnySeq(batchCh)' /\ AnySeq(received)' /\ Len(batchCh') <= ChannelRoom
<1> DEFINE a == Len(received)
           b == Len(batchCh)
           e == Head(batchCh)
<1>1. a \in Nat /\ AnySeq(batchCh) /\ AnySeq(received) /\ b <= ChannelRoom
  BY AnyLen DEF BatchTyped
<1>2. /\ AnySeq(batchCh') /\ Len(batchCh') = b - 1 /\ b \in Nat \ {0}
      /\ e = batchCh[1]
      /\ \A i \in 1..(b - 1) : batchCh'[i] = batchCh[i + 1]
  BY <1>1, TakeAny
<1>3. /\ AnySeq(received') /\ Len(received') = a + 1
      /\ \A i \in 1..a : received'[i] = received[i]
      /\ received'[a + 1] = e
  <2> HIDE DEF e
  <2>1. received' = Append(received, e)
    BY DEF e
  <2> QED BY <1>1, <2>1, AppendAny
<1>4. Sent = a + b /\ Sent' = (a + 1) + (b - 1)
  BY <1>2, <1>3 DEF Sent
<1>5. /\ \A i \in Nat : i <= a => SentAt(i) = received[i]
      /\ \A i \in Nat : ~(i <= a) => SentAt(i) = batchCh[i - a]
      /\ \A i \in Nat : i <= a + 1 => SentAt(i)' = received'[i]
      /\ \A i \in Nat : ~(i <= a + 1) => SentAt(i)' = batchCh'[i - (a + 1)]
  BY <1>3 DEF SentAt
<1> HIDE DEF a, b, e
<1>6. ASSUME NEW i \in 1..(a + b) PROVE SentAt(i)' = SentAt(i)
  <2>1. CASE i <= a
    <3>1. i \in 1..a /\ i <= a + 1 /\ i \in Nat
      BY <1>1, <2>1
    <3> QED BY <1>3, <1>5, <3>1, <2>1
  <2>2. CASE i = a + 1
    <3>1. ~(i <= a) /\ i <= a + 1 /\ i - a = 1 /\ i \in Nat
      BY <1>1, <2>2
    <3> QED BY <1>2, <1>3, <1>5, <2>2, <3>1
  <2>3. CASE i > a + 1
    <3>1. ~(i <= a) /\ ~(i <= a + 1) /\ i \in Nat /\ i - (a + 1) \in 1..(b - 1) /\ i - (a + 1) + 1 = i - a
      BY <1>1, <1>2, <2>3
    <3> QED BY <1>2, <1>5, <3>1
  <2>4. i <= a \/ i = a + 1 \/ i > a + 1
    BY <1>1
  <2> QED BY <2>1, <2>2, <2>3, <2>4
<1>7. (a + 1) + (b - 1) = a + b /\ b - 1 <= ChannelRoom
  BY <1>1, <1>2, BatchAssumption
<1> QED BY <1>2, <1>3, <1>4, <1>6, <1>7 DEF Quiet

LEMMA Resting ==
  ASSUME BatchTyped, UNCHANGED <<received, batchCh>>
  PROVE  Quiet /\ AnySeq(batchCh)' /\ AnySeq(received)'
BY DEF Quiet, Sent, SentAt, BatchTyped, AnySeq

LEMMA Numbers ==
  ASSUME BatchTyped
  PROVE  Sent \in Nat /\ Len(results) \in Nat
<1>1. Len(received) \in Nat /\ Len(batchCh) \in Nat
  BY AnyLen DEF BatchTyped
<1> QED BY <1>1, LenProperties DEF BatchTyped, Sent

(* What has been paired stays paired.                                      *)
LEMMA PairsStay ==
  ASSUME BatchTyped, Paired, results' = results,
         Quiet \/ \E e : Sends(e) /\ e.type \notin Outcomes
  PROVE  Paired'
<1> DEFINE n == Len(results)
<1>1. Sent \in Nat /\ n \in Nat /\ n' = n
  BY Numbers
<1>2. \A i \in 1..Sent : SentAt(i)' = SentAt(i)
  BY DEF Quiet, Sends
<1>3. Sent' \in {Sent, Sent + 1}
  BY DEF Quiet, Sends
<1>4. \A i \in 1..Sent' : i > Sent => SentAt(i)'.type \notin Outcomes
  <2> SUFFICES ASSUME NEW i \in 1..Sent', i > Sent PROVE SentAt(i)'.type \notin Outcomes
    OBVIOUS
  <2>1. Sent' # Sent
    BY <1>1
  <2>2. PICK e : Sends(e) /\ e.type \notin Outcomes
    BY <2>1 DEF Quiet
  <2>3. i = Sent + 1 /\ i \in Nat
    BY <1>1, <1>3
  <2> QED BY <2>2, <2>3 DEF Sends
<1>5. 2 * n <= Sent
  BY DEF Paired
<1>6. \A i \in 1..Sent : i > 2 * n => SentAt(i).type \notin Outcomes
  BY DEF Paired
<1>7. \A k \in 1..n : /\ SentAt(2 * k).type = results[k]
                      /\ SentAt(2 * k - 1) = [type |-> "task_start", id |-> SentAt(2 * k).id]
  BY DEF Paired
<1> HIDE DEF n
<1>8. \A k \in 1..n : 2 * k \in 1..Sent /\ 2 * k - 1 \in 1..Sent
  BY <1>1, <1>5
<1>9. \A k \in 1..n : /\ SentAt(2 * k)'.type = results[k]
                      /\ SentAt(2 * k - 1)' = [type |-> "task_start", id |-> SentAt(2 * k)'.id]
  <2> SUFFICES ASSUME NEW k \in 1..n
               PROVE  /\ SentAt(2 * k)'.type = results[k]
                      /\ SentAt(2 * k - 1)' = [type |-> "task_start", id |-> SentAt(2 * k)'.id]
    OBVIOUS
  <2>1. SentAt(2 * k)' = SentAt(2 * k) /\ SentAt(2 * k - 1)' = SentAt(2 * k - 1)
    BY <1>2, <1>8
  <2> QED BY <1>7, <2>1
<1>10. \A i \in 1..Sent' : i > 2 * n => SentAt(i)'.type \notin Outcomes
  <2> SUFFICES ASSUME NEW i \in 1..Sent', i > 2 * n PROVE SentAt(i)'.type \notin Outcomes
    OBVIOUS
  <2>1. CASE i <= Sent
    <3>1. i \in 1..Sent
      BY <1>1, <1>3, <2>1
    <3> QED BY <1>2, <1>6, <3>1
  <2>2. CASE ~(i <= Sent)
    <3>1. i > Sent
      BY <1>1, <1>3, <2>2
    <3> QED BY <1>4, <3>1
  <2> QED BY <2>1, <2>2
<1>11. 2 * n <= Sent'
  BY <1>1, <1>3, <1>5
<1> QED BY <1>1, <1>9, <1>10, <1>11 DEF Paired, n

(* The report of an outcome right behind its start.                        *)
LEMMA PairsGrow ==
  ASSUME BatchTyped, Paired, Trailing, NEW o \in Outcomes, batchAt = "report",
         Sends([type |-> o, id |-> batchId]), results' = Append(results, o)
  PROVE  Paired' /\ Sent' = 2 * Len(results') /\ Len(results') = Len(results) + 1
<1> DEFINE n == Len(results)
           e == [type |-> o, id |-> batchId]
           r == results'
<1>1. Sent \in Nat /\ n \in Nat /\ Sent = 2 * n + 1 /\ Sent' = 2 * n + 2
  BY Numbers DEF Trailing, Sends
<1>2. /\ Len(r) = n + 1 /\ r[n + 1] = o
      /\ \A i \in 1..n : r[i] = results[i]
  BY AppendProperties DEF BatchTyped
<1>3. \A i \in 1..Sent : SentAt(i)' = SentAt(i)
  BY DEF Sends
<1>4. \A i \in Nat : i = 2 * n + 2 => SentAt(i)' = e
  <2>1. \A i \in Nat : i = Sent + 1 => SentAt(i)' = e
    BY DEF Sends
  <2> HIDE DEF n, e
  <2> QED BY <1>1, <2>1
<1>5. \A i \in Nat : i = 2 * n + 1 => SentAt(i)' = [type |-> "task_start", id |-> batchId]
  <2> DEFINE start == [type |-> "task_start", id |-> batchId]
  <2>1. SentAt(Sent) = start /\ Sent \in 1..Sent
    BY <1>1 DEF Trailing
  <2> HIDE DEF start, n
  <2>2. \A i \in Nat : i = Sent => SentAt(i)' = start
    BY <1>3, <2>1
  <2> QED BY <1>1, <2>2 DEF start
<1>7. \A k \in 1..n : /\ SentAt(2 * k).type = results[k]
                      /\ SentAt(2 * k - 1) = [type |-> "task_start", id |-> SentAt(2 * k).id]
  BY DEF Paired
<1>8. e.type = o /\ e.id = batchId
  OBVIOUS
<1> HIDE DEF n, e, r
<1>9. ASSUME NEW k \in 1..(n + 1)
      PROVE  /\ SentAt(2 * k)'.type = r[k]
             /\ SentAt(2 * k - 1)' = [type |-> "task_start", id |-> SentAt(2 * k)'.id]
  <2>1. CASE k \in 1..n
    <3>1. 2 * k \in 1..Sent /\ 2 * k - 1 \in 1..Sent
      BY <1>1, <2>1
    <3>2. SentAt(2 * k)' = SentAt(2 * k) /\ SentAt(2 * k - 1)' = SentAt(2 * k - 1)
      BY <1>3, <3>1
    <3> QED BY <1>2, <1>7, <2>1, <3>2
  <2>2. CASE k = n + 1
    <3>1. 2 * k = 2 * n + 2 /\ 2 * k - 1 = 2 * n + 1 /\ 2 * k \in Nat /\ 2 * k - 1 \in Nat
      BY <1>1, <2>2
    <3>2. SentAt(2 * k)' = e /\ SentAt(2 * k - 1)' = [type |-> "task_start", id |-> batchId]
      BY <1>4, <1>5, <3>1
    <3> QED BY <1>2, <1>8, <2>2, <3>2
  <2> QED BY <1>1, <2>1, <2>2
<1>10. \A i \in 1..Sent' : ~(i > 2 * (n + 1)) /\ 2 * (n + 1) <= Sent'
  BY <1>1
<1>11. 2 * (n + 1) = Sent'
  BY <1>1
<1>12. 2 * Len(r) = Sent' /\ Len(r) = Len(results) + 1
  BY <1>2, <1>11 DEF n
<1>13. \A k \in 1..Len(r) :
         /\ SentAt(2 * k)'.type = r[k]
         /\ SentAt(2 * k - 1)' = [type |-> "task_start", id |-> SentAt(2 * k)'.id]
  BY <1>2, <1>9
<1>14. \A i \in 1..Sent' : i > 2 * Len(r) => SentAt(i)'.type \notin Outcomes
  <2>1. 2 * (n + 1) \in Nat
    BY <1>1
  <2> QED BY <1>2, <1>10
<1>15. 2 * Len(r) <= Sent'
  BY <1>1, <1>12
<1> QED BY <1>12, <1>13, <1>14, <1>15 DEF Paired, r

(* Summaries stay.                                                         *)
LEMMA SummariesStay ==
  ASSUME BatchTyped, Summed, results' = results, tasks' = tasks,
         batchAt \in {"last", "closed"} => batchAt' \in {"last", "closed"},
         Quiet \/ \E e : Sends(e) /\ e.type # "summary"
  PROVE  Summed'
<1>1. Sent \in Nat /\ Sent' \in {Sent, Sent + 1}
  BY Numbers DEF Quiet, Sends
<1>2. \A i \in 1..Sent : SentAt(i)' = SentAt(i)
  BY DEF Quiet, Sends
<1>3. Ended("task_done")' = Ended("task_done") /\ Len(results)' = Len(results)
  BY DEF Ended
<1> SUFFICES ASSUME NEW i \in 1..Sent', SentAt(i)'.type = "summary"
             PROVE  /\ batchAt' \in {"last", "closed"}
                    /\ i = 2 * Len(results') + 1 /\ Len(results') = Len(tasks')
                    /\ SentAt(i)'.done = Ended("task_done")' /\ SentAt(i)'.of = Len(results')
  BY DEF Summed
<1>4. i \in 1..Sent
  <2> SUFFICES ASSUME i \notin 1..Sent PROVE FALSE
    OBVIOUS
  <2>1. i = Sent + 1 /\ i \in Nat /\ Sent' # Sent
    BY <1>1
  <2>2. PICK e : Sends(e) /\ e.type # "summary"
    BY <2>1 DEF Quiet
  <2> QED BY <2>1, <2>2 DEF Sends
<1>5. SentAt(i)' = SentAt(i)
  BY <1>2, <1>4
<1>6. /\ batchAt \in {"last", "closed"}
      /\ i = 2 * Len(results) + 1 /\ Len(results) = Len(tasks)
      /\ SentAt(i).done = Ended("task_done") /\ SentAt(i).of = Len(results)
  BY <1>4, <1>5 DEF Summed
<1> QED BY <1>3, <1>5, <1>6

(* So does the report of a cancelled batch.                                *)
LEMMA ReportsStay ==
  ASSUME BatchTyped, Cut, results' = results, tasks' = tasks,
         batchAt = "closed" => batchAt' = "closed",
         Quiet \/ \E e : Sends(e) /\ e.type # "cancelled"
  PROVE  Cut'
<1>1. Sent \in Nat /\ Sent' \in {Sent, Sent + 1}
  BY Numbers DEF Quiet, Sends
<1>2. \A i \in 1..Sent : SentAt(i)' = SentAt(i)
  BY DEF Quiet, Sends
<1>3. Len(results)' = Len(results) /\ Len(tasks)' = Len(tasks)
  OBVIOUS
<1> SUFFICES ASSUME NEW i \in 1..Sent', SentAt(i)'.type = "cancelled"
             PROVE  /\ batchAt' = "closed"
                    /\ i = 2 * Len(results') + 1 /\ Len(results') < Len(tasks')
                    /\ SentAt(i)'.done = Len(results') /\ SentAt(i)'.of = Len(tasks')
  BY DEF Cut
<1>4. i \in 1..Sent
  <2> SUFFICES ASSUME i \notin 1..Sent PROVE FALSE
    OBVIOUS
  <2>1. i = Sent + 1 /\ i \in Nat /\ Sent' # Sent
    BY <1>1
  <2>2. PICK e : Sends(e) /\ e.type # "cancelled"
    BY <2>1 DEF Quiet
  <2> QED BY <2>1, <2>2 DEF Sends
<1>5. SentAt(i)' = SentAt(i)
  BY <1>2, <1>4
<1>6. /\ batchAt = "closed"
      /\ i = 2 * Len(results) + 1 /\ Len(results) < Len(tasks)
      /\ SentAt(i).done = Len(results) /\ SentAt(i).of = Len(tasks)
  BY <1>4, <1>5 DEF Cut
<1> QED BY <1>3, <1>5, <1>6

(* Before the end there is no summary.                                     *)
LEMMA NoSummaryYet ==
  ASSUME Summed, batchAt \notin {"last", "closed"}
  PROVE  \A i \in 1..Sent : SentAt(i).type # "summary"
BY DEF Summed

(* A step that sends no outcome.                                           *)
LEMMA StepKeeps ==
  ASSUME BatchInv, UNCHANGED <<tasks, results>>,
         batchAt = "last" => batchAt' \in {"last", "closed"},
         batchAt = "closed" => batchAt' = "closed",
         Quiet \/ \E e : Sends(e) /\ e.type \notin Outcomes \cup {"summary", "cancelled"}
  PROVE  Paired' /\ Summed' /\ Cut'
<1>1. Quiet \/ \E e : Sends(e) /\ e.type \notin Outcomes
  OBVIOUS
<1>2. Quiet \/ \E e : Sends(e) /\ e.type # "summary"
  OBVIOUS
<1>3. Quiet \/ \E e : Sends(e) /\ e.type # "cancelled"
  OBVIOUS
<1> QED BY <1>1, <1>2, <1>3, PairsStay, SummariesStay, ReportsStay DEF BatchInv

(* trySend.                                                                *)
LEMMA TrySends ==
  ASSUME BatchTyped, NEW e, NEW then, TrySend(e, then), received' = received
  PROVE  /\ AnySeq(batchCh)' /\ AnySeq(received)' /\ Len(batchCh') <= ChannelRoom
         /\ \/ Sends(e) /\ batchAt' = then
            \/ Quiet /\ batchAt' = "closed" /\ batchGone
<1>1. CASE Len(batchCh) < ChannelRoom /\ batchCh' = Append(batchCh, e) /\ batchAt' = then
  <2>1. Sends(e) /\ AnySeq(batchCh)' /\ AnySeq(received)' /\ Len(batchCh)' = Len(batchCh) + 1
    BY <1>1, Sending
  <2>2. Len(batchCh) \in Nat
    BY AnyLen DEF BatchTyped
  <2>3. Len(batchCh)' <= ChannelRoom
    BY <1>1, <2>1, <2>2, BatchAssumption
  <2> QED BY <1>1, <2>1, <2>3
<1>2. CASE batchGone /\ batchAt' = "closed" /\ UNCHANGED batchCh
  <2>1. Quiet /\ AnySeq(batchCh)' /\ AnySeq(received)'
    BY <1>2, Resting
  <2> QED BY <1>2, <2>1 DEF BatchTyped
<1> QED BY <1>1, <1>2 DEF TrySend

LEMMA SubmitKeeps ==
  ASSUME BatchInv, SubmitBatch
  PROVE  BatchInv'
<1>1. /\ readerAt = "new" /\ results = <<>> /\ received = <<>> /\ batchCh = <<>>
      /\ UNCHANGED <<batchId, outcome, results, batchCh, batchGone, received>>
  BY DEF SubmitBatch, BatchInv, Untouched
<1>2. /\ readerAt' \in {"reads", "left"} /\ batchAt' \in {"none", "next"}
  BY DEF SubmitBatch
<1>3. Quiet
  BY <1>1, Resting DEF BatchInv
<1>4. Sent' = 0 /\ Len(results') = 0
  BY <1>1, EmptySeq DEF Sent
<1>5. BatchTyped'
  BY <1>1, <1>2 DEF BatchInv, BatchTyped, AnySeq
<1>6. Paired'
  BY <1>1, <1>3, PairsStay DEF BatchInv
<1>7. Trailing'
  BY <1>2, <1>4 DEF Trailing
<1>8. Summed'
  BY <1>4 DEF Summed
<1>9. Cut'
  BY <1>4 DEF Cut
<1> QED BY <1>2, <1>5, <1>6, <1>7, <1>8, <1>9 DEF BatchInv, Untouched

LEMMA StartKeeps ==
  ASSUME BatchInv, StartTask
  PROVE  BatchInv'
<1> DEFINE e == [type |-> "task_start", id |-> batchId']
<1>1. /\ batchAt = "next" /\ TrySend(e, "invoke")
      /\ UNCHANGED <<tasks, outcome, results, batchGone, readerKind, readerAt, received>>
  BY DEF StartTask
<1>2. e.type = "task_start"
  OBVIOUS
<1> HIDE DEF e
<1>3. /\ AnySeq(batchCh)' /\ AnySeq(received)' /\ Len(batchCh') <= ChannelRoom
      /\ \/ Sends(e) /\ batchAt' = "invoke"
         \/ Quiet /\ batchAt' = "closed" /\ batchGone
  BY <1>1, TrySends DEF BatchInv
<1>4. BatchTyped' /\ Untouched'
  BY <1>1, <1>3 DEF BatchInv, BatchTyped, Untouched
<1>5. Paired' /\ Summed' /\ Cut'
  BY <1>1, <1>2, <1>3, StepKeeps DEF Outcomes
<1>6. Trailing'
  <2>1. CASE Sends(e) /\ batchAt' = "invoke"
    <3>1. Sent = 2 * Len(results) /\ Sent' = Sent + 1 /\ Sent \in Nat /\ Len(results') = Len(results)
      BY <1>1, <2>1, Numbers DEF BatchInv, Trailing, Sends
    <3>2. \A i \in Nat : i = Sent' => SentAt(i)' = e
      BY <2>1, <3>1 DEF Sends
    <3>3. SentAt(Sent)' = e
      BY <3>1, <3>2
    <3> QED BY <2>1, <3>1, <3>3 DEF Trailing, e
  <2>2. CASE batchAt' = "closed"
    BY <2>2 DEF Trailing
  <2> QED BY <1>3, <2>1, <2>2
<1> QED BY <1>4, <1>5, <1>6 DEF BatchInv

LEMMA CancelledKeeps ==
  ASSUME BatchInv, BatchCancelled
  PROVE  BatchInv'
<1> DEFINE e == CancelReport
           n == Len(results)
<1>1. /\ batchAt = "next" /\ n < Len(tasks) /\ TrySend(e, "closed")
      /\ UNCHANGED <<tasks, batchId, outcome, results, batchGone, readerKind, readerAt, received>>
  BY DEF BatchCancelled
<1>2. e.type = "cancelled" /\ e.done = n /\ e.of = Len(tasks)
  BY DEF CancelReport
<1> HIDE DEF e
<1>3. /\ AnySeq(batchCh)' /\ AnySeq(received)' /\ Len(batchCh') <= ChannelRoom
      /\ Sends(e) \/ Quiet
      /\ batchAt' = "closed"
  BY <1>1, TrySends DEF BatchInv
<1>4. BatchTyped' /\ Untouched' /\ Trailing'
  BY <1>1, <1>3 DEF BatchInv, BatchTyped, Untouched, Trailing
<1>5. Paired'
  <2>1. Quiet \/ \E f : Sends(f) /\ f.type \notin Outcomes
    BY <1>2, <1>3 DEF Outcomes
  <2> QED BY <1>1, <2>1, PairsStay DEF BatchInv
<1>6. Summed'
  <2>1. Quiet \/ \E f : Sends(f) /\ f.type # "summary"
    BY <1>2, <1>3
  <2> QED BY <1>1, <2>1, SummariesStay DEF BatchInv
<1>7. Sent \in Nat /\ n \in Nat /\ Sent = 2 * n /\ Sent' \in {2 * n, 2 * n + 1}
  BY <1>1, <1>3, Numbers DEF BatchInv, Trailing, Sends, Quiet
<1>8. n' = n /\ Len(tasks)' = Len(tasks)
  BY <1>1
<1>9. Cut'
  <2> SUFFICES ASSUME NEW i \in 1..Sent', SentAt(i)'.type = "cancelled"
               PROVE  i = 2 * n + 1 /\ SentAt(i)'.done = n /\ SentAt(i)'.of = Len(tasks)
    BY <1>1, <1>3, <1>8 DEF Cut
  <2>1. i \notin 1..Sent
    <3> SUFFICES ASSUME i \in 1..Sent PROVE FALSE
      OBVIOUS
    <3>1. SentAt(i)' = SentAt(i)
      BY <1>3 DEF Sends, Quiet
    <3> QED BY <1>1, <3>1 DEF BatchInv, Cut
  <2>2. i = Sent + 1 /\ i \in Nat /\ Sent' # Sent
    BY <1>7, <2>1
  <2>3. SentAt(i)' = e
    BY <1>3, <2>2 DEF Sends, Quiet
  <2> QED BY <1>2, <1>7, <2>2, <2>3
<1> QED BY <1>4, <1>5, <1>6, <1>9 DEF BatchInv

LEMMA TaskEndsKeeps ==
  ASSUME BatchInv, TaskEnds
  PROVE  BatchInv'
<1>1. /\ batchAt = "invoke" /\ outcome' \in Outcomes /\ batchAt' \in {"report", "closed"}
      /\ UNCHANGED <<tasks, batchId, results, batchCh, batchGone, readerKind, readerAt, received>>
  BY DEF TaskEnds, Outcomes
<1>2. Quiet /\ AnySeq(batchCh)' /\ AnySeq(received)'
  BY <1>1, Resting DEF BatchInv
<1>3. BatchTyped' /\ Untouched'
  BY <1>1, <1>2 DEF BatchInv, BatchTyped, Untouched
<1>4. Paired' /\ Summed' /\ Cut'
  BY <1>1, <1>2, StepKeeps
<1>5. Trailing'
  BY <1>1 DEF BatchInv, Trailing, Sent, SentAt
<1> QED BY <1>3, <1>4, <1>5 DEF BatchInv

LEMMA ReportKeeps ==
  ASSUME BatchInv, ReportTask
  PROVE  BatchInv'
<1> DEFINE e == [type |-> outcome, id |-> batchId]
<1>1. /\ batchAt = "report" /\ TrySend(e, "next")
      /\ results' = IF batchAt' = "next" THEN Append(results, outcome) ELSE results
      /\ UNCHANGED <<tasks, batchId, outcome, batchGone, readerKind, readerAt, received>>
  BY DEF ReportTask, AddResult
<1>2. outcome \in Outcomes
  BY <1>1 DEF BatchInv, BatchTyped
<1> HIDE DEF e
<1>3. /\ AnySeq(batchCh)' /\ AnySeq(received)' /\ Len(batchCh') <= ChannelRoom
      /\ \/ Sends(e) /\ batchAt' = "next"
         \/ Quiet /\ batchAt' = "closed" /\ batchGone
  BY <1>1, TrySends DEF BatchInv
<1>4. results' \in Seq(Outcomes)
  <2>1. Append(results, outcome) \in Seq(Outcomes)
    BY <1>2, AppendProperties DEF BatchInv, BatchTyped
  <2> QED BY <1>1, <2>1 DEF BatchInv, BatchTyped
<1>5. BatchTyped'
  BY <1>1, <1>3, <1>4 DEF BatchInv, BatchTyped
<1>6. Untouched'
  BY <1>1 DEF BatchInv, Untouched
<1>7. CASE Sends(e) /\ batchAt' = "next"
  <2>1. results' = Append(results, outcome)
    BY <1>1, <1>7
  <2>2. Paired' /\ Sent' = 2 * Len(results')
    BY <1>1, <1>2, <1>7, <2>1, PairsGrow DEF BatchInv, e
  <2>3. Trailing'
    BY <1>7, <2>2 DEF Trailing
  <2>4. Summed'
    <3>1. \A i \in 1..Sent' : SentAt(i)'.type # "summary"
      <4> SUFFICES ASSUME NEW i \in 1..Sent' PROVE SentAt(i)'.type # "summary"
        OBVIOUS
      <4>1. Sent \in Nat /\ Sent' = Sent + 1
        BY <1>7, Numbers DEF BatchInv, Sends
      <4>2. CASE i \in 1..Sent
        BY <1>1, <1>7, <4>2, NoSummaryYet DEF BatchInv, Sends
      <4>3. CASE i = Sent + 1
        <5>1. SentAt(i)' = e
          BY <1>7, <4>1, <4>3 DEF Sends
        <5> QED BY <1>2, <5>1 DEF e, Outcomes
      <4> QED BY <4>1, <4>2, <4>3
    <3> QED BY <3>1 DEF Summed
  <2>5. Cut'
    <3>1. \A i \in 1..Sent' : SentAt(i)'.type # "cancelled"
      <4> SUFFICES ASSUME NEW i \in 1..Sent' PROVE SentAt(i)'.type # "cancelled"
        OBVIOUS
      <4>1. Sent \in Nat /\ Sent' = Sent + 1
        BY <1>7, Numbers DEF BatchInv, Sends
      <4>2. CASE i \in 1..Sent
        BY <1>1, <1>7, <4>2 DEF BatchInv, Cut, Sends
      <4>3. CASE i = Sent + 1
        <5>1. SentAt(i)' = e
          BY <1>7, <4>1, <4>3 DEF Sends
        <5> QED BY <1>2, <5>1 DEF e, Outcomes
      <4> QED BY <4>1, <4>2, <4>3
    <3> QED BY <3>1 DEF Cut
  <2> QED BY <1>5, <1>6, <2>2, <2>3, <2>4, <2>5 DEF BatchInv
<1>8. CASE Quiet /\ batchAt' = "closed"
  <2>1. results' = results
    BY <1>1, <1>8
  <2>2. Paired' /\ Summed' /\ Cut'
    BY <1>1, <1>8, <2>1, StepKeeps
  <2> QED BY <1>5, <1>6, <1>8, <2>2 DEF BatchInv, Trailing
<1> QED BY <1>3, <1>7, <1>8

LEMMA SummariseKeeps ==
  ASSUME BatchInv, Summarise
  PROVE  BatchInv'
<1> DEFINE e == BatchSummary
           n == Len(results)
<1>1. /\ batchAt = "next" /\ n = Len(tasks) /\ batchAt' = "last"
      /\ \/ Len(batchCh) < ChannelRoom /\ batchCh' = Append(batchCh, e)
         \/ UNCHANGED batchCh
      /\ UNCHANGED <<tasks, batchId, outcome, results, batchGone, readerKind, readerAt, received>>
  BY DEF Summarise
<1>2. e.type = "summary" /\ e.done = Ended("task_done") /\ e.of = n
  BY DEF BatchSummary
<1> HIDE DEF e
<1>3. TrySend(e, "last") \/ UNCHANGED batchCh
  BY <1>1 DEF TrySend
<1>4. Sent \in Nat /\ n \in Nat /\ Sent = 2 * n
  BY <1>1, Numbers DEF BatchInv, Trailing
<1>5. /\ AnySeq(batchCh)' /\ AnySeq(received)' /\ Len(batchCh') <= ChannelRoom
      /\ Sends(e) \/ Quiet
  <2>1. CASE UNCHANGED batchCh
    BY <1>1, <2>1, Resting DEF BatchInv, BatchTyped
  <2>2. CASE TrySend(e, "last")
    BY <1>1, <2>2, TrySends DEF BatchInv
  <2> QED BY <1>3, <2>1, <2>2
<1>6. BatchTyped' /\ Untouched'
  BY <1>1, <1>5 DEF BatchInv, BatchTyped, Untouched
<1>7. Paired'
  <2>1. Quiet \/ \E f : Sends(f) /\ f.type \notin Outcomes
    BY <1>2, <1>5 DEF Outcomes
  <2> QED BY <1>1, <2>1, PairsStay DEF BatchInv
<1>8. n' = n /\ Len(tasks)' = Len(tasks) /\ Ended("task_done")' = Ended("task_done")
  BY <1>1 DEF Ended
<1>9. Sent' \in {2 * n, 2 * n + 1}
  BY <1>4, <1>5 DEF Sends, Quiet
<1>10. Trailing'
  BY <1>1, <1>8, <1>9 DEF Trailing
<1>11. Summed'
  <2> SUFFICES ASSUME NEW i \in 1..Sent', SentAt(i)'.type = "summary"
               PROVE  i = 2 * n + 1 /\ SentAt(i)'.done = Ended("task_done") /\ SentAt(i)'.of = n
    BY <1>1, <1>8 DEF Summed
  <2>1. i \notin 1..Sent
    <3> SUFFICES ASSUME i \in 1..Sent PROVE FALSE
      OBVIOUS
    <3>1. SentAt(i)' = SentAt(i)
      BY <1>5 DEF Sends, Quiet
    <3> QED BY <1>1, <3>1, NoSummaryYet DEF BatchInv
  <2>2. i = Sent + 1 /\ i \in Nat /\ Sent' # Sent
    BY <1>4, <1>9, <2>1
  <2>3. SentAt(i)' = e
    BY <1>5, <2>2 DEF Sends, Quiet
  <2> QED BY <1>2, <1>4, <2>2, <2>3
<1>12. Cut'
  <2>1. Quiet \/ \E f : Sends(f) /\ f.type # "cancelled"
    BY <1>2, <1>5
  <2> QED BY <1>1, <2>1, ReportsStay DEF BatchInv
<1> QED BY <1>6, <1>7, <1>10, <1>11, <1>12 DEF BatchInv

LEMMA BatchDoneKeeps ==
  ASSUME BatchInv, BatchDone
  PROVE  BatchInv'
<1> DEFINE e == [type |-> "done", id |-> ""]
<1>1. /\ batchAt = "last" /\ TrySend(e, "closed")
      /\ UNCHANGED <<tasks, batchId, outcome, results, batchGone, readerKind, readerAt, received>>
  BY DEF BatchDone
<1>2. e.type = "done"
  OBVIOUS
<1> HIDE DEF e
<1>3. /\ AnySeq(batchCh)' /\ AnySeq(received)' /\ Len(batchCh') <= ChannelRoom
      /\ Sends(e) \/ Quiet
      /\ batchAt' = "closed"
  BY <1>1, TrySends DEF BatchInv
<1>4. BatchTyped' /\ Untouched' /\ Trailing'
  BY <1>1, <1>3 DEF BatchInv, BatchTyped, Untouched, Trailing
<1>5. Paired' /\ Summed' /\ Cut'
  BY <1>1, <1>2, <1>3, StepKeeps DEF Outcomes
<1> QED BY <1>4, <1>5 DEF BatchInv

(* The reader's steps send nothing.                                        *)
LEMMA ReaderKeeps ==
  ASSUME BatchInv, UNCHANGED <<tasks, batchAt, batchId, outcome, results>>,
         Quiet, AnySeq(batchCh)', AnySeq(received)', Len(batchCh') <= ChannelRoom,
         readerAt # "new", readerAt' \in {"reads", "left"}, batchGone' \in BOOLEAN
  PROVE  BatchInv'
<1>1. Paired' /\ Summed' /\ Cut'
  BY StepKeeps
<1>2. BatchTyped' /\ Untouched'
  BY DEF BatchInv, BatchTyped, Untouched
<1>3. Trailing'
  <2>1. Sent \in Nat /\ Len(results) \in Nat /\ Sent' = Sent
    BY Numbers DEF BatchInv, Quiet
  <2>2. CASE batchAt \in {"invoke", "report"}
    <3>1. Sent = 2 * Len(results) + 1 /\ SentAt(Sent) = [type |-> "task_start", id |-> batchId]
      BY <2>2 DEF BatchInv, Trailing
    <3>2. Sent \in 1..Sent
      BY <2>1, <3>1
    <3>3. \A i \in 1..Sent : i = Sent => SentAt(i)' = [type |-> "task_start", id |-> batchId]
      <4> DEFINE start == [type |-> "task_start", id |-> batchId]
      <4>1. SentAt(Sent) = start
        BY <3>1
      <4> HIDE DEF start
      <4>2. \A i \in 1..Sent : i = Sent => SentAt(i)' = start
        BY <4>1 DEF Quiet
      <4> QED BY <4>2 DEF start
    <3>4. SentAt(Sent)' = [type |-> "task_start", id |-> batchId]
      BY <2>1, <3>2, <3>3
    <3> QED BY <2>1, <2>2, <3>1, <3>4 DEF Trailing
  <2>3. CASE batchAt \notin {"invoke", "report"}
    BY <2>1, <2>3 DEF BatchInv, Trailing
  <2> QED BY <2>2, <2>3
<1> QED BY <1>1, <1>2, <1>3 DEF BatchInv

LEMMA BatchInvKept ==
  ASSUME BatchInv, [BatchNext]_batchVars
  PROVE  BatchInv'
<1>0. /\ AnySeq(batchCh) /\ AnySeq(received) /\ Len(batchCh) <= ChannelRoom
      /\ batchGone \in BOOLEAN
  BY DEF BatchInv, BatchTyped
<1>1. CASE ReadEvent
  <2>1. /\ readerAt = "reads" /\ batchCh # <<>>
        /\ received' = Append(received, Head(batchCh)) /\ batchCh' = Tail(batchCh)
        /\ UNCHANGED <<tasks, batchAt, batchId, outcome, results, readerKind>>
    BY <1>1 DEF ReadEvent
  <2>2. readerAt' \in {"reads", "left"}
    BY <1>1 DEF ReadEvent
  <2>3. batchGone' \in BOOLEAN
    BY <1>1, <1>0 DEF ReadEvent
  <2>4. Quiet /\ AnySeq(batchCh)' /\ AnySeq(received)' /\ Len(batchCh') <= ChannelRoom
    BY <2>1, Reading DEF BatchInv
  <2> QED BY <2>1, <2>2, <2>3, <2>4, ReaderKeeps
<1>2. CASE ReadClosed \/ ReaderCancels
  <2>1. /\ readerAt = "reads" /\ readerAt' \in {"reads", "left"} /\ batchGone' \in BOOLEAN
        /\ UNCHANGED <<tasks, batchAt, batchId, outcome, results, batchCh, received>>
    BY <1>2 DEF ReadClosed, ReaderCancels
  <2>2. Quiet
    BY <2>1, Resting DEF BatchInv
  <2> QED BY <1>0, <2>1, <2>2, ReaderKeeps DEF AnySeq
<1>3. CASE UNCHANGED batchVars
  <2>1. UNCHANGED <<tasks, batchAt, batchId, outcome, results, batchCh, received, readerAt, batchGone>>
    BY <1>3 DEF batchVars
  <2> QED BY <2>1 DEF BatchInv, BatchTyped, Untouched, Paired, Trailing, Summed, Cut, Sent, SentAt, Ended, AnySeq
<1> QED BY <1>1, <1>2, <1>3, SubmitKeeps, StartKeeps, CancelledKeeps, TaskEndsKeeps, ReportKeeps,
           SummariseKeeps, BatchDoneKeeps DEF BatchNext, BatchSteps

LEMMA InitBatch ==
  ASSUME BatchInit
  PROVE  BatchInv
<1>1. /\ received = <<>> /\ batchCh = <<>> /\ results = <<>>
      /\ batchAt = "none" /\ readerAt = "new" /\ batchGone = FALSE
  BY DEF BatchInit
<1>2. /\ Len(received) = 0 /\ Len(batchCh) = 0 /\ Len(results) = 0 /\ Sent = 0
      /\ received \in Seq({}) /\ batchCh \in Seq({}) /\ results \in Seq(Outcomes)
  BY <1>1, EmptySeq DEF Sent
<1>3. AnySeq(received) /\ AnySeq(batchCh)
  BY <1>2 DEF AnySeq
<1>4. BatchTyped
  <2>1. Len(batchCh) <= ChannelRoom
    BY <1>2, BatchAssumption
  <2>2. batchAt = "none" /\ readerAt = "new" /\ batchGone \in BOOLEAN
    BY <1>1
  <2> QED BY <1>2, <1>3, <2>1, <2>2 DEF BatchTyped
<1> QED BY <1>1, <1>2, <1>4 DEF BatchInv, Untouched, Paired, Trailing, Summed, Cut

-----------------------------------------------------------------------------
(* What a reader was told is a beginning of what was sent.                 *)
LEMMA HalfOf ==
  ASSUME NEW n \in Nat, NEW k \in 1..(2 * n)
  PROVE  (\E i \in 1..n : k = 2 * i) \/ (\E i \in 1..n : k = 2 * i - 1)
<1>1. CASE k % 2 = 0
  <2>1. k \div 2 \in 1..n /\ k = 2 * (k \div 2)
    BY <1>1
  <2> QED BY <2>1
<1>2. CASE k % 2 = 1
  <2>1. (k + 1) \div 2 \in 1..n /\ k = 2 * ((k + 1) \div 2) - 1
    BY <1>2
  <2> QED BY <2>1
<1>3. k % 2 = 0 \/ k % 2 = 1
  OBVIOUS
<1> QED BY <1>1, <1>2, <1>3

LEMMA Doubles ==
  ASSUME NEW n \in Nat, NEW T \in SUBSET (1..n)
  PROVE  Cardinality({2 * k : k \in T}) = Cardinality(T)
<1> DEFINE D == {2 * k : k \in T}
           f == [k \in T |-> 2 * k]
<1>1. IsFiniteSet(T)
  <2>1. IsFiniteSet(1..n)
    BY FS_Interval
  <2> QED BY <2>1, FS_Subset
<1>2. f \in Bijection(T, D)
  <2>1. f \in [T -> D] /\ \A d \in D : \E k \in T : f[k] = d
    OBVIOUS
  <2>2. \A j, k \in T : f[j] = f[k] => j = k
    OBVIOUS
  <2> HIDE DEF f, D
  <2> QED BY <2>1, <2>2 DEF Bijection, Injection, Surjection, IsInjective
<1>3. ExistsBijection(T, D)
  BY <1>2 DEF ExistsBijection
<1> QED BY <1>1, <1>3, FS_Bijection

LEMMA WhatWasTold ==
  ASSUME BatchInv
  PROVE  BatchReportIsTrue
<1> DEFINE a == Len(received)
           n == Len(results)
<1>1. a \in Nat /\ n \in Nat /\ Sent \in Nat /\ a <= Sent /\ DOMAIN received = 1..a
  <2>1. Len(batchCh) \in Nat
    BY AnyLen DEF BatchInv, BatchTyped
  <2>2. a \in Nat /\ DOMAIN received = 1..a
    BY LenProperties DEF BatchInv, BatchTyped, AnySeq
  <2> QED BY <2>1, <2>2, Numbers DEF BatchInv, Sent
<1>2. \A i \in 1..a : SentAt(i) = received[i]
  BY <1>1 DEF SentAt
<1>3. DOMAIN results = 1..n /\ \A k \in 1..n : results[k] \in Outcomes
  BY LenProperties, ElementOfSeq DEF BatchInv, BatchTyped
<1>4. \A k \in 1..n : /\ SentAt(2 * k).type = results[k]
                      /\ SentAt(2 * k - 1) = [type |-> "task_start", id |-> SentAt(2 * k).id]
  BY DEF BatchInv, Paired
<1>5. \A i \in 1..Sent : i > 2 * n => SentAt(i).type \notin Outcomes
  BY DEF BatchInv, Paired
<1>6. \A i \in 1..Sent : SentAt(i).type = "summary" =>
        /\ i = 2 * n + 1 /\ n = Len(tasks)
        /\ SentAt(i).done = Ended("task_done") /\ SentAt(i).of = n
  BY DEF BatchInv, Summed
<1>11. \A i \in 1..Sent : SentAt(i).type = "cancelled" =>
        /\ i = 2 * n + 1 /\ n < Len(tasks)
        /\ SentAt(i).done = n /\ SentAt(i).of = Len(tasks)
  BY DEF BatchInv, Cut
<1> HIDE DEF a, n
<1>7. ASSUME NEW i \in 1..a, received[i].type \in Outcomes
      PROVE  \E k \in 1..n : i = 2 * k
  <2>1. i \in 1..Sent /\ SentAt(i).type \in Outcomes
    BY <1>1, <1>2, <1>7
  <2>2. i \in 1..(2 * n)
    BY <1>1, <1>5, <2>1
  <2>3. ASSUME NEW k \in 1..n, i = 2 * k - 1 PROVE FALSE
    <3>1. SentAt(i) = [type |-> "task_start", id |-> SentAt(2 * k).id]
      BY <1>4, <2>3
    <3>2. SentAt(i).type = "task_start"
      BY <3>1
    <3> QED BY <2>1, <3>2 DEF Outcomes
  <2> QED BY <1>1, <2>2, <2>3, HalfOf
<1>8. ASSUME NEW i \in Told(Outcomes)
      PROVE  i > 1 /\ received[i - 1] = [type |-> "task_start", id |-> received[i].id]
  <2>1. i \in 1..a /\ received[i].type \in Outcomes
    BY <1>1 DEF Told
  <2>2. PICK k \in 1..n : i = 2 * k
    BY <1>7, <2>1
  <2>3. i > 1 /\ i - 1 \in 1..a /\ i - 1 = 2 * k - 1
    BY <1>1, <2>1, <2>2
  <2>4. SentAt(i) = received[i] /\ SentAt(i - 1) = received[i - 1]
    BY <1>2, <2>1, <2>3
  <2>5. SentAt(i - 1) = [type |-> "task_start", id |-> SentAt(i).id]
    BY <1>4, <2>2, <2>3
  <2> QED BY <2>3, <2>4, <2>5
<1>9. ASSUME 2 * n <= a
      PROVE  /\ Cardinality(Told({"task_done"})) = Ended("task_done")
             /\ Cardinality(Told(Outcomes)) = n
  <2>1. \A k \in 1..n : 2 * k \in 1..a /\ received[2 * k].type = results[k]
    <3>1. \A k \in 1..n : 2 * k \in 1..a
      BY <1>1, <1>9
    <3> QED BY <1>2, <1>4, <3>1
  <2>2. ASSUME NEW T, T \subseteq Outcomes
        PROVE  Cardinality(Told(T)) = Cardinality({k \in 1..n : results[k] \in T})
    <3> DEFINE K == {k \in 1..n : results[k] \in T}
    <3>1. Told(T) = {2 * k : k \in K}
      <4>1. Told(T) \subseteq {2 * k : k \in K}
        <5> SUFFICES ASSUME NEW j \in Told(T) PROVE \E k \in K : j = 2 * k
          OBVIOUS
        <5>1. j \in 1..a /\ received[j].type \in T
          BY <1>1 DEF Told
        <5>2. PICK k \in 1..n : j = 2 * k
          BY <1>7, <2>2, <5>1
        <5>3. results[k] \in T
          BY <2>1, <5>1, <5>2
        <5> QED BY <5>2, <5>3
      <4>2. {2 * k : k \in K} \subseteq Told(T)
        BY <1>1, <2>1 DEF Told
      <4> QED BY <4>1, <4>2
    <3>2. K \in SUBSET (1..n)
      OBVIOUS
    <3> HIDE DEF K
    <3>3. Cardinality({2 * k : k \in K}) = Cardinality(K)
      BY <1>1, <3>2, Doubles
    <3> QED BY <3>1, <3>3 DEF K
  <2>3. Cardinality(Told({"task_done"})) = Ended("task_done")
    <3>1. {k \in 1..n : results[k] \in {"task_done"}} = {k \in DOMAIN results : results[k] = "task_done"}
      BY <1>3
    <3>2. Cardinality(Told({"task_done"})) = Cardinality({k \in 1..n : results[k] \in {"task_done"}})
      BY <2>2 DEF Outcomes
    <3> QED BY <3>1, <3>2 DEF Ended
  <2>4. Cardinality(Told(Outcomes)) = n
    <3>1. {k \in 1..n : results[k] \in Outcomes} = 1..n
      BY <1>3
    <3>2. Cardinality(1..n) = n
      <4>1. Cardinality(1..n) = IF 1 > n THEN 0 ELSE n - 1 + 1
        BY <1>1, FS_Interval
      <4> QED BY <1>1, <4>1
    <3> QED BY <2>2, <3>1, <3>2
  <2> QED BY <2>3, <2>4
<1>12. ASSUME NEW i \in Told({"summary"})
       PROVE  /\ received[i].done = Cardinality(Told({"task_done"}))
              /\ received[i].of = Cardinality(Told(Outcomes))
              /\ received[i].of = Len(tasks)
  <2>1. i \in 1..a /\ received[i].type = "summary" /\ i \in 1..Sent
    BY <1>1 DEF Told
  <2>2. /\ i = 2 * n + 1 /\ n = Len(tasks)
        /\ received[i].done = Ended("task_done") /\ received[i].of = n
    BY <1>2, <1>6, <2>1
  <2>3. 2 * n <= a
    BY <1>1, <2>1, <2>2
  <2> QED BY <1>9, <2>2, <2>3
<1>13. ASSUME NEW i \in Told({"cancelled"})
       PROVE  /\ received[i].done = Cardinality(Told(Outcomes))
              /\ received[i].done < received[i].of /\ received[i].of = Len(tasks)
  <2>1. i \in 1..a /\ received[i].type = "cancelled" /\ i \in 1..Sent
    BY <1>1 DEF Told
  <2>2. /\ i = 2 * n + 1 /\ n < Len(tasks)
        /\ received[i].done = n /\ received[i].of = Len(tasks)
    BY <1>2, <1>11, <2>1
  <2>3. 2 * n <= a
    BY <1>1, <2>1, <2>2
  <2> QED BY <1>9, <2>2, <2>3
<1>10. Told({"done"}) # {} /\ Told({"summary"}) # {} => Cardinality(Told(Outcomes)) = Len(tasks)
  BY <1>12
<1> QED BY <1>8, <1>10, <1>12, <1>13 DEF BatchReportIsTrue, Outcomes

(* The inductive invariant of the batch holds.                             *)
THEOREM BatchCorrect == BatchSpec => []BatchInv
<1>1. BatchInv /\ [BatchNext]_batchVars => BatchInv'
  BY BatchInvKept
<1> QED BY InitBatch, <1>1, PTL DEF BatchSpec

(* What a reader of a batch was told is true and in order: an outcome      *)
(* follows the start of its own task, a summary counts the outcomes before *)
(* it, of which there is one for every task, and the report of a cancelled *)
(* batch those of the tasks that ended.                                    *)
THEOREM BatchToldTrue == BatchSpec => []BatchReportIsTrue
  BY BatchCorrect, WhatWasTold, PTL

(* Every variable of the batch has its type.                               *)
THEOREM BatchTypeCorrect == BatchSpec => []BatchTypeOK
<1>1. BatchInv => BatchTypeOK
  BY DEF BatchInv, BatchTyped, BatchTypeOK, Outcomes
<1> QED BY BatchCorrect, <1>1, PTL

-----------------------------------------------------------------------------
(* The rate limiter.                                                       *)

Capacity == Burst * PerToken

(* What k requests cost.                                                   *)
Cost(k) == PerToken * k

(* What a bucket would hold if the address came now.                       *)
Level(a) == IF buckets[a] = NoBucket THEN Capacity ELSE Refilled(buckets[a])

BucketTyped(a) ==
  /\ buckets[a].tokens \in Nat /\ buckets[a].tokens <= Capacity
  /\ buckets[a].lastTime \in Int /\ -1 <= buckets[a].lastTime /\ buckets[a].lastTime <= tick
RateTyped ==
  /\ tick \in Nat /\ tick <= LastTick
  /\ buckets = [a \in Addresses |-> buckets[a]] /\ passed \in [Addresses -> Seq(Nat)]
  /\ \A a \in Addresses : BucketTyped(a) /\ (buckets[a] = NoBucket \/ buckets[a].lastTime >= 0)

(* Since any request that passed, the requests and the tokens that are     *)
(* left are not more than a full bucket and the time that went by.         *)
Fair(a) ==
  \A i \in 1..Len(passed[a]) :
    Cost(Len(passed[a]) - i + 1) + Level(a) <= Capacity + (tick - passed[a][i])

Spaced(a) ==
  \A i, j \in 1..Len(passed[a]) :
    i <= j => Cost(j - i + 1) <= Capacity + (passed[a][j] - passed[a][i])

RateInv == RateTyped /\ \A a \in Addresses : Fair(a) /\ Spaced(a)

-----------------------------------------------------------------------------
LEMMA CapacityIsNat == Capacity \in Nat /\ PerToken \in Nat /\ PerToken > 0
BY RateAssumption DEF Capacity

LEMMA OneMore ==
  /\ Cost(1) = PerToken
  /\ \A k \in Int : Cost(k + 1) = Cost(k) + PerToken /\ Cost(k) \in Int
BY RateAssumption DEF Cost

LEMMA LevelFits ==
  ASSUME RateTyped, NEW a \in Addresses
  PROVE  Level(a) \in Nat /\ Level(a) <= Capacity
<1>1. BucketTyped(a) /\ tick \in Nat
  BY DEF RateTyped
<1> DEFINE t == buckets[a].tokens
           l == buckets[a].lastTime
<1>2. t \in Nat /\ t <= Capacity /\ l \in Int /\ l <= tick
  BY <1>1 DEF BucketTyped
<1>3. Level(a) = IF buckets[a] = NoBucket THEN Capacity
                 ELSE IF t + (tick - l) > Capacity THEN Capacity ELSE t + (tick - l)
  BY DEF Level, Refilled, Grown, Capacity
<1> HIDE DEF t, l
<1> QED BY <1>1, <1>2, <1>3, CapacityIsNat

LEMMA AllowKeeps ==
  ASSUME RateInv, NEW a \in Addresses, Allow(a)
  PROVE  RateInv'
<1> DEFINE n == Level(a)
           m == IF n >= PerToken THEN n - PerToken ELSE n
           s == passed[a]
           C == Capacity
<1>1. RateTyped /\ Fair(a) /\ Spaced(a) /\ tick \in Nat /\ tick <= LastTick /\ s \in Seq(Nat)
  BY DEF RateInv, RateTyped
<1>2. Refilled(FullAt(tick)) = C
  <2>1. Grown(FullAt(tick)) = C + (tick - tick)
    BY DEF Grown, FullAt, Capacity
  <2> QED BY <1>1, <2>1, CapacityIsNat DEF Refilled, Capacity
<1>3. /\ buckets' = [buckets EXCEPT ![a] = [tokens |-> m, lastTime |-> tick]]
      /\ passed' = IF n >= PerToken THEN [passed EXCEPT ![a] = Append(s, tick)] ELSE passed
      /\ UNCHANGED tick
  BY <1>2 DEF Allow, Level
<1>4. n \in Nat /\ n <= C /\ C \in Nat /\ PerToken \in Nat
  BY <1>1, LevelFits, CapacityIsNat
<1> HIDE DEF n, C
<1>5. m \in Nat /\ m <= C /\ m = IF n >= PerToken THEN n - PerToken ELSE n
  BY <1>4
<1> HIDE DEF m
<1>6. /\ buckets'[a] = [tokens |-> m, lastTime |-> tick] /\ buckets' = [b \in Addresses |-> buckets'[b]]
      /\ \A b \in Addresses \ {a} : buckets'[b] = buckets[b]
  BY <1>1, <1>3 DEF RateTyped
<1>7. buckets'[a].tokens = m /\ buckets'[a].lastTime = tick /\ buckets'[a] # NoBucket
  BY <1>1, <1>6 DEF NoBucket
<1>8. C = Capacity /\ C = Capacity' /\ Capacity = Burst * PerToken
  BY DEF C, Capacity
<1>9. Level(a)' = m
  <2>1. Level(a)' = IF m + (tick - tick) > C THEN C ELSE m + (tick - tick)
    BY <1>3, <1>7, <1>8 DEF Level, Refilled, Grown
  <2> QED BY <1>1, <1>4, <1>5, <2>1
<1>10. \A b \in Addresses \ {a} : Level(b)' = Level(b)
  BY <1>3, <1>6 DEF Level, Refilled, Grown, Capacity
<1>11. /\ passed' \in [Addresses -> Seq(Nat)]
       /\ \A b \in Addresses \ {a} : passed'[b] = passed[b]
       /\ passed'[a] = IF n >= PerToken THEN Append(s, tick) ELSE s
  <2>1. Append(s, tick) \in Seq(Nat)
    BY <1>1, AppendProperties
  <2>2. passed \in [Addresses -> Seq(Nat)]
    BY <1>1 DEF RateTyped
  <2> HIDE DEF s
  <2>3. passed[a] = s
    BY DEF s
  <2> QED BY <1>3, <2>1, <2>2, <2>3
<1>12. RateTyped'
  <2>1. BucketTyped(a)'
    BY <1>1, <1>3, <1>5, <1>7, <1>8 DEF BucketTyped
  <2>2. \A b \in Addresses \ {a} : BucketTyped(b)' /\ (buckets'[b] = NoBucket \/ buckets'[b].lastTime >= 0)
    BY <1>1, <1>3, <1>6, <1>8 DEF RateTyped, BucketTyped
  <2> QED BY <1>1, <1>3, <1>6, <1>7, <1>11, <2>1, <2>2 DEF RateTyped
<1>13. \A b \in Addresses \ {a} : Fair(b)' /\ Spaced(b)'
  BY <1>3, <1>8, <1>10, <1>11 DEF RateInv, Fair, Spaced
<1>14. Fair(a)' /\ Spaced(a)'
  <2>1. CASE ~(n >= PerToken)
    <3>1. passed'[a] = passed[a] /\ Level(a)' = Level(a)
      BY <1>5, <1>9, <1>11, <2>1 DEF n
    <3> QED BY <1>1, <1>3, <1>8, <3>1 DEF Fair, Spaced
  <2>2. CASE n >= PerToken
    <3> DEFINE L == Len(s)
    <3>1. L \in Nat
      BY <1>1, LenProperties
    <3>2. /\ Len(passed'[a]) = L + 1
          /\ \A i \in 1..L : passed'[a][i] = s[i] /\ s[i] \in Nat
          /\ passed'[a][L + 1] = tick
      <4>1. passed'[a] = Append(s, tick)
        BY <1>11, <2>2
      <4>2. Len(Append(s, tick)) = L + 1
        BY <1>1, AppendProperties
      <4>3. Append(s, tick)[L + 1] = tick
        BY <1>1, AppendProperties
      <4>4. \A i \in 1..L : Append(s, tick)[i] = s[i]
        BY <1>1, AppendProperties
      <4>5. \A i \in 1..L : s[i] \in Nat
        BY <1>1, ElementOfSeq
      <4> QED BY <4>1, <4>2, <4>3, <4>4, <4>5
    <3>3. \A i \in 1..L : Cost(L - i + 1) + n <= C + (tick - s[i])
      BY <1>1 DEF Fair, n, C
    <3>4. \A i, j \in 1..L : i <= j => Cost(j - i + 1) <= C + (s[j] - s[i])
      BY <1>1 DEF Spaced, C
    <3> HIDE DEF L, s
    <3>5. ASSUME NEW i \in 1..(L + 1)
          PROVE  Cost(L + 1 - i + 1) + m <= C + (tick - passed'[a][i])
      <4> DEFINE p == passed'[a][i]
      <4>1. CASE i = L + 1
        <5>1. L + 1 - i + 1 = 1 /\ p = tick
          BY <3>1, <3>2, <4>1
        <5> HIDE DEF p
        <5>2. Cost(1) + m <= C + (tick - p)
          BY <1>1, <1>4, <1>5, <2>2, <5>1, OneMore
        <5> QED BY <5>1, <5>2 DEF p
      <4>2. CASE i \in 1..L
        <5> DEFINE k == L - i + 1
        <5>1. k \in Int /\ L + 1 - i + 1 = k + 1
          BY <3>1
        <5>2. Cost(k) + n <= C + (tick - p) /\ p \in Nat
          BY <3>2, <3>3, <4>2
        <5> HIDE DEF k, p
        <5>3. Cost(k + 1) = Cost(k) + PerToken /\ Cost(k) \in Int
          BY <5>1, OneMore
        <5>4. Cost(k + 1) + m <= C + (tick - p)
          BY <1>1, <1>4, <1>5, <2>2, <5>2, <5>3
        <5> QED BY <5>1, <5>4 DEF p
      <4> QED BY <3>1, <4>1, <4>2
    <3>6. ASSUME NEW i \in 1..(L + 1), NEW j \in 1..(L + 1), i <= j
          PROVE  Cost(j - i + 1) <= C + (passed'[a][j] - passed'[a][i])
      <4>1. CASE j \in 1..L
        <5>1. i \in 1..L
          BY <3>1, <3>6, <4>1
        <5>2. passed'[a][i] = s[i] /\ passed'[a][j] = s[j]
          BY <3>2, <4>1, <5>1
        <5> QED BY <3>4, <3>6, <4>1, <5>1, <5>2
      <4>2. CASE j = L + 1
        <5> DEFINE p == passed'[a][i]
                   x == Cost(j - i + 1)
        <5> HIDE DEF p
        <5>1. L + 1 - i + 1 = j - i + 1
          BY <3>1, <4>2
        <5>2. Cost(L + 1 - i + 1) + m <= C + (tick - p)
          BY <3>5 DEF p
        <5>3. x + m <= C + (tick - p)
          BY <5>1, <5>2
        <5>4. j - i + 1 \in Int /\ p \in Nat
          <6>1. j - i + 1 \in Int
            OBVIOUS
          <6>2. i \in 1..L \/ i = L + 1
            BY <3>1
          <6>3. passed'[a][i] \in Nat
            BY <1>1, <3>2, <6>2
          <6> QED BY <6>1, <6>3 DEF p
        <5>5. x \in Int
          BY <5>4, OneMore
        <5>6. passed'[a][j] = tick
          BY <3>2, <4>2
        <5> HIDE DEF x
        <5>7. x <= C + (tick - p)
          BY <1>1, <1>4, <1>5, <5>3, <5>4, <5>5
        <5> QED BY <5>6, <5>7 DEF p, x
      <4> QED BY <3>1, <4>1, <4>2
    <3>7. Fair(a)'
      <4> SUFFICES ASSUME NEW i \in 1..Len(passed'[a])
                   PROVE  Cost(Len(passed'[a]) - i + 1) + Level(a)'
                            <= Capacity' + (tick' - passed'[a][i])
        BY DEF Fair, Cost
      <4>1. i \in 1..(L + 1)
        BY <3>2
      <4>2. Len(passed'[a]) - i + 1 = L + 1 - i + 1
        BY <3>1, <3>2, <4>1
      <4> QED BY <1>3, <1>8, <1>9, <3>5, <4>1, <4>2
    <3>8. Spaced(a)'
      BY <1>8, <3>2, <3>6 DEF Spaced
    <3> QED BY <3>7, <3>8
  <2> QED BY <2>1, <2>2
<1> QED BY <1>12, <1>13, <1>14 DEF RateInv

(* A step that lets nobody through and gives no bucket more than time does.*)
LEMMA QuietKeeps ==
  ASSUME RateInv, RateTyped', passed' = passed, tick' \in Nat, tick <= tick',
         \A a \in Addresses : Level(a)' \in Nat /\ Level(a)' <= Level(a) + (tick' - tick)
  PROVE  RateInv'
<1> SUFFICES ASSUME NEW a \in Addresses PROVE Fair(a)' /\ Spaced(a)'
  BY DEF RateInv
<1>1. Spaced(a)'
  BY DEF RateInv, Spaced, Capacity, Cost
<1>2. Capacity' = Capacity /\ Capacity \in Nat
  BY CapacityIsNat DEF Capacity
<1>3. Level(a) \in Nat /\ Level(a)' \in Nat /\ tick \in Nat
  BY LevelFits DEF RateInv, RateTyped
<1>4. ASSUME NEW i \in 1..Len(passed[a])
      PROVE  Cost(Len(passed[a]) - i + 1) + Level(a)' <= Capacity + (tick' - passed[a][i])
  <2> DEFINE x == Cost(Len(passed[a]) - i + 1)
             p == passed[a][i]
  <2>1. x + Level(a) <= Capacity + (tick - p)
    BY DEF RateInv, Fair
  <2>2. x \in Int /\ p \in Nat
    <3>1. passed[a] \in Seq(Nat)
      BY DEF RateInv, RateTyped
    <3>2. p \in Nat /\ Len(passed[a]) \in Nat
      BY <3>1, ElementOfSeq, LenProperties
    <3>3. Len(passed[a]) - i + 1 \in Int
      BY <3>2
    <3> QED BY <3>2, <3>3, OneMore
  <2> HIDE DEF x, p
  <2>3. x + Level(a)' <= Capacity + (tick' - p)
    BY <1>2, <1>3, <2>1, <2>2, SMTT(30)
  <2> QED BY <2>3 DEF x, p
<1>5. Fair(a)'
  BY <1>2, <1>4 DEF Fair, Cost
<1> QED BY <1>1, <1>5

LEMMA CleanKeeps ==
  ASSUME RateInv, CleanBuckets
  PROVE  RateInv'
<1>1. /\ buckets' = [a \in Addresses |-> IF tick - buckets[a].lastTime > Stale THEN NoBucket ELSE buckets[a]]
      /\ UNCHANGED <<tick, passed>>
  BY DEF CleanBuckets
<1>2. RateTyped /\ tick \in Nat
  BY DEF RateInv, RateTyped
<1>3. NoBucket.tokens = 0 /\ NoBucket.lastTime = -1
  BY DEF NoBucket
<1>4. \A a \in Addresses : buckets'[a] \in {NoBucket, buckets[a]}
  BY <1>1
<1>5. RateTyped'
  <2>1. \A a \in Addresses : BucketTyped(a)' /\ (buckets'[a] = NoBucket \/ buckets'[a].lastTime >= 0)
    <3> SUFFICES ASSUME NEW a \in Addresses
                 PROVE  BucketTyped(a)' /\ (buckets'[a] = NoBucket \/ buckets'[a].lastTime >= 0)
      OBVIOUS
    <3>1. Capacity' = Capacity /\ 0 <= Capacity
      BY CapacityIsNat DEF Capacity
    <3>2. CASE buckets'[a] = NoBucket
      BY <1>1, <1>2, <1>3, <3>1, <3>2 DEF BucketTyped
    <3>3. CASE buckets'[a] = buckets[a]
      BY <1>1, <1>2, <3>1, <3>3 DEF RateTyped, BucketTyped
    <3> QED BY <1>4, <3>2, <3>3
  <2> QED BY <1>1, <1>2, <2>1 DEF RateTyped
<1>6. ASSUME NEW a \in Addresses PROVE Level(a)' = Level(a)
  <2>1. CASE buckets'[a] = buckets[a]
    BY <1>1, <2>1 DEF Level, Refilled, Grown, Capacity
  <2>2. CASE buckets'[a] = NoBucket /\ buckets[a] # NoBucket
    <3> DEFINE t == buckets[a].tokens
               l == buckets[a].lastTime
    <3>1. t \in Nat /\ l \in Int
      BY <1>2 DEF RateTyped, BucketTyped
    <3>2. tick - l > Stale
      BY <1>1, <2>2
    <3>3. Level(a) = IF t + (tick - l) > Capacity THEN Capacity ELSE t + (tick - l)
      BY <2>2 DEF Level, Refilled, Grown, Capacity
    <3> HIDE DEF t, l
    <3>4. Stale \in Nat /\ Stale >= Capacity
      BY RateAssumption DEF Capacity
    <3>5. Level(a) = Capacity
      BY <1>2, <3>1, <3>2, <3>3, <3>4, CapacityIsNat
    <3> QED BY <2>2, <3>5 DEF Level, Capacity
  <2> QED BY <1>4, <2>1, <2>2
<1>7. \A a \in Addresses : Level(a)' \in Nat /\ Level(a)' <= Level(a) + (tick' - tick)
  <2> SUFFICES ASSUME NEW a \in Addresses
               PROVE  Level(a)' \in Nat /\ Level(a)' <= Level(a) + (tick' - tick)
    OBVIOUS
  <2>1. Level(a)' = Level(a) /\ Level(a) \in Nat
    BY <1>2, <1>6, LevelFits
  <2> QED BY <1>1, <1>2, <2>1
<1> QED BY <1>1, <1>2, <1>5, <1>7, QuietKeeps

LEMMA TickKeeps ==
  ASSUME RateInv, Tick
  PROVE  RateInv'
<1>1. tick < LastTick /\ tick' = tick + 1 /\ UNCHANGED <<buckets, passed>>
  BY DEF Tick
<1>2. RateTyped /\ tick \in Nat /\ LastTick \in Nat /\ Capacity' = Capacity
  BY RateAssumption DEF RateInv, RateTyped, Capacity
<1>3. RateTyped'
  BY <1>1, <1>2 DEF RateTyped, BucketTyped
<1>4. ASSUME NEW a \in Addresses PROVE Level(a)' \in Nat /\ Level(a)' <= Level(a) + (tick' - tick)
  <2>1. tick' - tick = 1
    BY <1>1, <1>2
  <2>2. CASE buckets[a] = NoBucket
    BY <1>1, <1>2, <2>1, <2>2, CapacityIsNat DEF Level
  <2>3. CASE buckets[a] # NoBucket
    <3> DEFINE t == buckets[a].tokens
               l == buckets[a].lastTime
    <3>1. t \in Nat /\ l \in Int /\ l <= tick
      BY <1>2 DEF RateTyped, BucketTyped
    <3>2. Level(a) = IF t + (tick - l) > Capacity THEN Capacity ELSE t + (tick - l)
      BY <2>3 DEF Level, Refilled, Grown, Capacity
    <3>3. Level(a)' = IF t + (tick' - l) > Capacity THEN Capacity ELSE t + (tick' - l)
      BY <1>1, <1>2, <2>3 DEF Level, Refilled, Grown, Capacity
    <3> HIDE DEF t, l
    <3> QED BY <1>1, <1>2, <3>1, <3>2, <3>3, CapacityIsNat
  <2> QED BY <2>2, <2>3
<1> QED BY <1>1, <1>2, <1>3, <1>4, QuietKeeps

LEMMA RateStart == RateInit => RateInv
<1> SUFFICES ASSUME RateInit PROVE RateInv
  OBVIOUS
<1> DEFINE none == << >>
<1>1. none \in Seq(Nat) /\ Len(none) = 0
  BY EmptySeq
<1>2. passed = [a \in Addresses |-> none] /\ buckets = [a \in Addresses |-> NoBucket] /\ tick = 0
  BY DEF RateInit
<1> HIDE DEF none
<1>3. NoBucket.tokens = 0 /\ NoBucket.lastTime = -1
  BY DEF NoBucket
<1>4. RateTyped
  BY <1>1, <1>2, <1>3, CapacityIsNat, RateAssumption DEF RateTyped, BucketTyped
<1>5. \A a \in Addresses : Fair(a) /\ Spaced(a)
  <2>1. \A a \in Addresses : passed[a] = none
    BY <1>2
  <2>2. 1..0 = {}
    OBVIOUS
  <2> QED BY <1>1, <2>1, <2>2 DEF Fair, Spaced
<1> QED BY <1>4, <1>5 DEF RateInv

(* RateInv is an inductive invariant: what passed since any request and    *)
(* what the bucket would hold now pay for each other.                      *)
THEOREM RateCorrect == RateSpec => []RateInv
<1>1. RateInv /\ [RateNext]_rateVars => RateInv'
  <2> SUFFICES ASSUME RateInv, [RateNext]_rateVars PROVE RateInv'
    OBVIOUS
  <2>1. CASE UNCHANGED rateVars
    BY <2>1 DEF rateVars, RateInv, RateTyped, BucketTyped, Fair, Spaced, Level, Refilled, Grown, Capacity
  <2> QED BY <2>1, AllowKeeps, CleanKeeps, TickKeeps DEF RateNext
<1> QED BY <1>1, RateStart, PTL DEF RateSpec

(* NoStretchIsTooBusy, for any rate, burst and addresses, as long as the   *)
(* clean-up of ratelimit.go waits until a bucket is full.                  *)
THEOREM StretchesAreFair == RateSpec => []NoStretchIsTooBusy
<1>1. RateInv => NoStretchIsTooBusy
  <2> SUFFICES ASSUME RateInv, NEW a \in Addresses,
                      NEW i \in DOMAIN passed[a], NEW j \in DOMAIN passed[a], i <= j
               PROVE  PerToken * (j - i + 1) <= Burst * PerToken + (passed[a][j] - passed[a][i])
    BY DEF NoStretchIsTooBusy
  <2>1. DOMAIN passed[a] = 1..Len(passed[a])
    BY LenProperties DEF RateInv, RateTyped
  <2> QED BY <2>1 DEF RateInv, Spaced, Capacity, Cost
<1> QED BY <1>1, RateCorrect, PTL

(* No bucket holds more than the burst, nor a time that is to come.        *)
THEOREM RateTypeCorrect == RateSpec => []RateTypeOK
<1>1. RateInv => RateTypeOK
  BY CapacityIsNat, RateAssumption DEF RateInv, RateTyped, BucketTyped, RateTypeOK, Capacity
<1> QED BY <1>1, RateCorrect, PTL

-----------------------------------------------------------------------------
(* The backtest.                                                           *)

Trades == [action : {"buy", "sell"}, price : Nat, qty : Nat]

Fee(t)  == Commission(t.qty, t.price)
Gain(t) == t.qty * t.price * Unit * (IF t.action = "sell" THEN 1 ELSE -1)

LedgerTyped ==
  /\ capital \in Nat /\ bars \in Seq(Prices) /\ Len(bars) >= 1 /\ Len(bars) <= MaxBars
  /\ cash \in Nat /\ position \in Nat /\ trades \in Seq(Trades)

(* The cash is the capital and what the trades gained, less the fees.      *)
CashExplained == cash = capital * Unit + TradeGains - TotalCommission

(* Every sale gives back what the purchase before it took, and a purchase  *)
(* is open exactly when there is a position.                               *)
InPairs ==
  /\ position > 0 => bought
  /\ \A i \in 1..Len(trades) :
       /\ trades[i].action = IF i % 2 = 1 THEN "buy" ELSE "sell"
       /\ trades[i].action = "sell" => trades[i].qty = trades[i - 1].qty
  /\ Len(trades) % 2 = 0 => position = 0
  /\ Len(trades) % 2 = 1 => position > 0 /\ trades[Len(trades)].qty = position

LedgerInv == LedgerTyped /\ CashExplained /\ InPairs

-----------------------------------------------------------------------------
LEMMA TradeTyped ==
  ASSUME NEW t \in Trades
  PROVE  Fee(t) \in Int /\ Gain(t) \in Int
<1>1. t.qty \in Nat /\ t.price \in Nat
  BY DEF Trades
<1>2. t.qty * t.price \in Nat
  BY <1>1
<1> DEFINE x == t.qty * t.price
<1> HIDE DEF x
<1>3. Fee(t) = x * 3 /\ Gain(t) = x * 10000 * (IF t.action = "sell" THEN 1 ELSE -1)
  BY DEF Fee, Gain, Commission, CommissionRate, Unit, x
<1> QED BY <1>2, <1>3 DEF x

LEMMA FeesAre ==
  ASSUME NEW ts \in Seq(Trades)
  PROVE  /\ Fees(ts) \in Seq(Int) /\ Len(Fees(ts)) = Len(ts)
         /\ Gains(ts) \in Seq(Int) /\ Len(Gains(ts)) = Len(ts)
         /\ \A i \in 1..Len(ts) : Fees(ts)[i] = Fee(ts[i]) /\ Gains(ts)[i] = Gain(ts[i])
<1> DEFINE n == Len(ts)
           f == Fees(ts)
           g == Gains(ts)
<1>1. n \in Nat
  BY LenProperties
<1>2. f = [i \in 1..n |-> Fee(ts[i])] /\ g = [i \in 1..n |-> Gain(ts[i])]
  BY DEF Fees, Gains, Fee, Gain
<1>3. \A i \in 1..n : Fee(ts[i]) \in Int /\ Gain(ts[i]) \in Int
  BY ElementOfSeq, TradeTyped
<1> HIDE DEF n, f, g
<1>4. f \in [1..n -> Int] /\ g \in [1..n -> Int]
  BY <1>2, <1>3
<1>5. f \in Seq(Int) /\ g \in Seq(Int) /\ Len(f) = n /\ Len(g) = n
  BY <1>1, <1>4, SeqDef
<1> QED BY <1>2, <1>5 DEF n, f, g

(* One more trade adds its own fee and its own gain.                       *)
LEMMA OneMoreTrade ==
  ASSUME NEW ts \in Seq(Trades), NEW t \in Trades
  PROVE  /\ SumUp(Fees(Append(ts, t))) = SumUp(Fees(ts)) + Fee(t)
         /\ SumUp(Gains(Append(ts, t))) = SumUp(Gains(ts)) + Gain(t)
<1> DEFINE us == Append(ts, t)
           n == Len(ts)
           f == Append(Fees(ts), Fee(t))
           g == Append(Gains(ts), Gain(t))
<1>1. /\ us \in Seq(Trades) /\ Len(us) = n + 1 /\ us[n + 1] = t /\ n \in Nat
      /\ \A i \in 1..n : us[i] = ts[i]
  BY AppendProperties, LenProperties
<1>2. Fee(t) \in Int /\ Gain(t) \in Int
  BY TradeTyped
<1>3. /\ Fees(ts) \in Seq(Int) /\ Len(Fees(ts)) = n /\ Gains(ts) \in Seq(Int) /\ Len(Gains(ts)) = n
      /\ \A i \in 1..n : Fees(ts)[i] = Fee(ts[i]) /\ Gains(ts)[i] = Gain(ts[i])
  BY FeesAre
<1>4. /\ f \in Seq(Int) /\ Len(f) = n + 1 /\ f[n + 1] = Fee(t) /\ \A i \in 1..n : f[i] = Fees(ts)[i]
      /\ g \in Seq(Int) /\ Len(g) = n + 1 /\ g[n + 1] = Gain(t) /\ \A i \in 1..n : g[i] = Gains(ts)[i]
  BY <1>2, <1>3, AppendProperties
<1> HIDE DEF us, n, f, g
<1>5. /\ Fees(us) \in Seq(Int) /\ Len(Fees(us)) = n + 1
      /\ Gains(us) \in Seq(Int) /\ Len(Gains(us)) = n + 1
      /\ \A i \in 1..(n + 1) : Fees(us)[i] = Fee(us[i]) /\ Gains(us)[i] = Gain(us[i])
  <2>1. us \in Seq(Trades) /\ Len(us) = n + 1
    BY <1>1
  <2> QED BY <2>1, FeesAre
<1>6. \A i \in 1..(n + 1) : Fees(us)[i] = f[i] /\ Gains(us)[i] = g[i]
  <2> SUFFICES ASSUME NEW i \in 1..(n + 1) PROVE Fees(us)[i] = f[i] /\ Gains(us)[i] = g[i]
    OBVIOUS
  <2>1. CASE i = n + 1
    BY <1>1, <1>4, <1>5, <2>1
  <2>2. CASE i \in 1..n
    BY <1>1, <1>3, <1>4, <1>5, <2>2
  <2> QED BY <1>1, <2>1, <2>2
<1>7. Fees(us) = f
  BY <1>4, <1>5, <1>6, SeqEqual
<1>8. Gains(us) = g
  BY <1>4, <1>5, <1>6, SeqEqual
<1>9. SumUp(f) = SumUp(Fees(ts)) + Fee(t)
  BY <1>2, <1>3, SumOfAppend DEF f
<1>10. SumUp(g) = SumUp(Gains(ts)) + Gain(t)
  BY <1>2, <1>3, SumOfAppend DEF g
<1> QED BY <1>7, <1>8, <1>9, <1>10 DEF us

LEMMA TotalsTyped ==
  ASSUME NEW ts \in Seq(Trades)
  PROVE  SumUp(Fees(ts)) \in Int /\ SumUp(Gains(ts)) \in Int
<1>1. 0 \in Int /\ Fees(ts) \in Seq(Int) /\ Gains(ts) \in Seq(Int)
  BY FeesAre
<1> QED BY <1>1, SumOfAppend

(* A lot fits as often as the division says.                               *)
LEMMA FitsIn ==
  ASSUME NEW y \in Nat, NEW d \in Nat, d > 0
  PROVE  y \div d \in Nat /\ (y \div d) * d <= y
OBVIOUS

(* Of 0.8 of the cash, the commission can be paid as well.                 *)
LEMMA CanPay ==
  ASSUME NEW x \in Nat, NEW y \in Nat, x * 10000 <= (y * 8) \div 10
  PROVE  x * 10000 + x * 3 <= y
<1>1. ((y * 8) \div 10) * 10 <= y * 8 /\ (y * 8) \div 10 \in Nat
  BY FitsIn
<1> QED BY <1>1

LEMMA BuyKeeps ==
  ASSUME LedgerInv, ~bought, NEW price \in Prices, BuyBar(price),
         bars' = Append(bars, price), Len(bars) < MaxBars, UNCHANGED capital
  PROVE  LedgerInv'
<1> DEFINE qty  == ((cash * 8) \div 10) \div (price * Unit)
           x    == qty * price
           cost == qty * price * Unit + Commission(qty, price)
           t    == [action |-> "buy", price |-> price, qty |-> qty]
<1>1. /\ bought' = TRUE
      /\ \/ (cash <= 0 \/ qty <= 0) /\ UNCHANGED <<cash, position, trades>>
         \/ /\ ~(cash <= 0 \/ qty <= 0)
            /\ cash' = cash - cost /\ position' = position + qty /\ trades' = Append(trades, t)
  BY DEF BuyBar
<1>2. LedgerTyped /\ CashExplained /\ InPairs
  BY DEF LedgerInv
<1>3. cash \in Nat /\ position = 0 /\ price \in Nat /\ price > 0 /\ trades \in Seq(Trades)
  BY <1>2, BacktestAssumption DEF LedgerTyped, InPairs
<1>4. qty \in Nat /\ x \in Nat /\ x * 10000 <= (cash * 8) \div 10
  <2> DEFINE y == (cash * 8) \div 10
             d == price * Unit
  <2>1. y \in Nat /\ d \in Nat /\ d > 0
    BY <1>3 DEF Unit
  <2>2. qty = y \div d
    OBVIOUS
  <2> HIDE DEF y
  <2>3. y \div d \in Nat /\ (y \div d) * d <= y
    <3> HIDE DEF d
    <3> QED BY <2>1, FitsIn
  <2> HIDE DEF qty
  <2>4. qty \in Nat /\ qty * (price * 10000) <= y
    BY <2>2, <2>3 DEF Unit
  <2>5. qty * (price * 10000) = (qty * price) * 10000 /\ qty * price \in Nat
    BY <1>3, <2>4
  <2> QED BY <2>4, <2>5 DEF y
<1> HIDE DEF qty
<1>5. cost = x * 10000 + x * 3 /\ t \in Trades /\ Fee(t) = x * 3 /\ Gain(t) = - (x * 10000)
  BY <1>3, <1>4 DEF Unit, Commission, CommissionRate, Trades, Fee, Gain
<1>6. x \in Nat /\ cost <= cash
  BY <1>3, <1>4, <1>5, CanPay
<1> HIDE DEF x, cost
<1>7. bars' \in Seq(Prices) /\ Len(bars') = Len(bars) + 1 /\ Len(bars) \in Nat
  BY <1>2, AppendProperties, LenProperties DEF LedgerTyped
<1>8. CASE UNCHANGED <<cash, position, trades>>
  <2>1. LedgerTyped'
    BY <1>1, <1>2, <1>7, <1>8, BacktestAssumption DEF LedgerTyped
  <2>2. CashExplained' /\ InPairs'
    BY <1>1, <1>2, <1>8 DEF CashExplained, InPairs, TradeGains, TotalCommission
  <2> QED BY <2>1, <2>2 DEF LedgerInv
<1>9. CASE /\ ~(cash <= 0 \/ qty <= 0)
           /\ cash' = cash - cost /\ position' = position + qty /\ trades' = Append(trades, t)
  <2> HIDE DEF t
  <2>1. position' = qty /\ qty > 0 /\ cash' \in Nat
    BY <1>3, <1>4, <1>5, <1>6, <1>9
  <2>2. trades' \in Seq(Trades)
    BY <1>3, <1>5, <1>9, AppendProperties
  <2>3. LedgerTyped'
    BY <1>1, <1>2, <1>4, <1>7, <2>1, <2>2, BacktestAssumption DEF LedgerTyped
  <2>4. TradeGains' = TradeGains - x * 10000 /\ TotalCommission' = TotalCommission + x * 3
    <3>1. t \in Trades
      BY <1>5
    <3>2. /\ SumUp(Fees(Append(trades, t))) = SumUp(Fees(trades)) + Fee(t)
          /\ SumUp(Gains(Append(trades, t))) = SumUp(Gains(trades)) + Gain(t)
      BY <1>3, <3>1, OneMoreTrade
    <3>3. TradeGains \in Int /\ TotalCommission \in Int
      BY <1>3, TotalsTyped DEF TradeGains, TotalCommission
    <3>4. TradeGains' = TradeGains + Gain(t) /\ TotalCommission' = TotalCommission + Fee(t)
      BY <1>9, <3>2 DEF TradeGains, TotalCommission
    <3> QED BY <1>5, <1>6, <3>3, <3>4
  <2>5. CashExplained'
    <3>1. TradeGains \in Int /\ TotalCommission \in Int /\ capital * Unit \in Nat
      BY <1>2, <1>3, TotalsTyped DEF TradeGains, TotalCommission, LedgerTyped, Unit
    <3>2. cash = capital * Unit + TradeGains - TotalCommission
      BY <1>2 DEF CashExplained
    <3> DEFINE w == capital * Unit
    <3> HIDE DEF w
    <3>3. w \in Nat /\ cash = w + TradeGains - TotalCommission /\ w = capital * Unit /\ w' = w
      BY <3>1, <3>2 DEF w
    <3>4. cash - cost = w + (TradeGains - x * 10000) - (TotalCommission + x * 3)
      BY <1>5, <1>6, <3>1, <3>3
    <3> QED BY <1>9, <2>4, <3>3, <3>4 DEF CashExplained
  <2>6. InPairs'
    <3> DEFINE L == Len(trades)
    <3>1. L \in Nat /\ L % 2 = 0 /\ (L + 1) % 2 = 1
      <4>1. L \in Nat /\ L % 2 # 1
        BY <1>2, <1>3, LenProperties DEF InPairs
      <4> HIDE DEF L
      <4> QED BY <4>1
    <3>2. /\ Len(trades') = L + 1 /\ trades'[L + 1] = t
          /\ \A i \in 1..L : trades'[i] = trades[i]
      BY <1>3, <1>5, <1>9, AppendProperties
    <3>3. t.action = "buy" /\ t.qty = qty
      BY DEF t
    <3>4. \A i \in 1..L :
            /\ trades[i].action = IF i % 2 = 1 THEN "buy" ELSE "sell"
            /\ trades[i].action = "sell" => trades[i].qty = trades[i - 1].qty
      BY <1>2 DEF InPairs
    <3> HIDE DEF L
    <3>5. ASSUME NEW i \in 1..(L + 1)
          PROVE  /\ trades'[i].action = IF i % 2 = 1 THEN "buy" ELSE "sell"
                 /\ trades'[i].action = "sell" => trades'[i].qty = trades'[i - 1].qty
      <4>1. CASE i = L + 1
        BY <3>1, <3>2, <3>3, <4>1
      <4>2. CASE i \in 2..L
        <5>1. i \in 1..L /\ i - 1 \in 1..L
          BY <3>1, <4>2
        <5> QED BY <3>2, <3>4, <5>1
      <4>3. CASE i = 1 /\ L # 0
        <5>1. 1 \in 1..L /\ 1 % 2 = 1
          BY <3>1, <4>3
        <5>2. trades[1].action = "buy"
          BY <3>4, <5>1
        <5> QED BY <3>2, <4>3, <5>1, <5>2
      <4> QED BY <3>1, <4>1, <4>2, <4>3
    <3>6. /\ position' > 0 /\ bought' /\ Len(trades') % 2 = 1 /\ Len(trades') = L + 1
          /\ trades'[L + 1].qty = position'
      BY <1>1, <2>1, <3>1, <3>2, <3>3
    <3>7. \A i \in 1..Len(trades') :
            /\ trades'[i].action = IF i % 2 = 1 THEN "buy" ELSE "sell"
            /\ trades'[i].action = "sell" => trades'[i].qty = trades'[i - 1].qty
      BY <3>2, <3>5
    <3> QED BY <3>6, <3>7 DEF InPairs
  <2> QED BY <2>3, <2>5, <2>6 DEF LedgerInv
<1> QED BY <1>1, <1>8, <1>9

LEMMA SellKeeps ==
  ASSUME LedgerInv, NEW price \in Prices, SellBar(price), bought,
         bars' = Append(bars, price), Len(bars) < MaxBars, UNCHANGED capital
  PROVE  LedgerInv'
<1> DEFINE x == position * price
           t == [action |-> "sell", price |-> price, qty |-> position]
<1>1. /\ bought' = FALSE
      /\ \/ position <= 0 /\ UNCHANGED <<cash, position, trades>>
         \/ /\ ~(position <= 0)
            /\ cash' = cash + Proceed(position, price) /\ position' = 0 /\ trades' = Append(trades, t)
  BY DEF SellBar
<1>2. LedgerTyped /\ CashExplained /\ InPairs
  BY DEF LedgerInv
<1>3. cash \in Nat /\ position \in Nat /\ price \in Nat /\ trades \in Seq(Trades)
  BY <1>2, BacktestAssumption DEF LedgerTyped
<1>4. /\ x \in Nat /\ Proceed(position, price) = x * 10000 - x * 3
      /\ t \in Trades /\ Fee(t) = x * 3 /\ Gain(t) = x * 10000
  <2>1. x \in Nat
    BY <1>3
  <2>2. /\ Proceed(position, price) = x * 10000 - x * 3
        /\ t \in Trades /\ Fee(t) = x * 3 /\ Gain(t) = x * 10000 * 1
    BY <1>3 DEF Proceed, Commission, CommissionRate, Unit, Trades, Fee, Gain
  <2> HIDE DEF x
  <2> QED BY <2>1, <2>2
<1> HIDE DEF x
<1>5. bars' \in Seq(Prices) /\ Len(bars') = Len(bars) + 1 /\ Len(bars) \in Nat
  BY <1>2, AppendProperties, LenProperties DEF LedgerTyped
<1>6. CASE position <= 0 /\ UNCHANGED <<cash, position, trades>>
  <2>1. position = 0
    BY <1>3, <1>6
  <2>2. LedgerTyped'
    BY <1>1, <1>2, <1>5, <1>6, BacktestAssumption DEF LedgerTyped
  <2>3. CashExplained' /\ InPairs'
    BY <1>1, <1>2, <1>6, <2>1 DEF CashExplained, InPairs, TradeGains, TotalCommission
  <2> QED BY <2>2, <2>3 DEF LedgerInv
<1>7. CASE /\ ~(position <= 0)
           /\ cash' = cash + Proceed(position, price) /\ position' = 0 /\ trades' = Append(trades, t)
  <2> HIDE DEF t
  <2>1. position > 0 /\ cash' \in Nat
    BY <1>3, <1>4, <1>7
  <2>2. trades' \in Seq(Trades)
    BY <1>3, <1>4, <1>7, AppendProperties
  <2>3. LedgerTyped'
    BY <1>1, <1>2, <1>5, <1>7, <2>1, <2>2, BacktestAssumption DEF LedgerTyped
  <2>4. CashExplained'
    <3>1. t \in Trades
      BY <1>4
    <3>2. /\ SumUp(Fees(Append(trades, t))) = SumUp(Fees(trades)) + Fee(t)
          /\ SumUp(Gains(Append(trades, t))) = SumUp(Gains(trades)) + Gain(t)
      BY <1>3, <3>1, OneMoreTrade
    <3>3. TradeGains' = TradeGains + Gain(t) /\ TotalCommission' = TotalCommission + Fee(t)
      BY <1>7, <3>2 DEF TradeGains, TotalCommission
    <3> DEFINE w == capital * Unit
    <3>4. w \in Nat /\ TradeGains \in Int /\ TotalCommission \in Int
      BY <1>2, <1>3, TotalsTyped DEF TradeGains, TotalCommission, LedgerTyped, Unit
    <3>5. cash = w + TradeGains - TotalCommission /\ w' = w
      BY <1>2 DEF CashExplained
    <3>6. w = capital * Unit
      OBVIOUS
    <3> HIDE DEF w
    <3>7. cash + (x * 10000 - x * 3) = w + (TradeGains + x * 10000) - (TotalCommission + x * 3)
      BY <1>4, <3>4, <3>5
    <3> QED BY <1>4, <1>7, <3>3, <3>5, <3>6, <3>7 DEF CashExplained
  <2>5. InPairs'
    <3> DEFINE L == Len(trades)
    <3>1. L \in Nat /\ L % 2 = 1 /\ (L + 1) % 2 = 0 /\ L >= 1
      <4>1. L \in Nat /\ L % 2 # 0
        BY <1>2, <1>3, <2>1, LenProperties DEF InPairs
      <4> HIDE DEF L
      <4> QED BY <4>1
    <3>2. /\ Len(trades') = L + 1 /\ trades'[L + 1] = t
          /\ \A i \in 1..L : trades'[i] = trades[i]
      BY <1>3, <1>4, <1>7, AppendProperties
    <3>3. t.action = "sell" /\ t.qty = position
      BY DEF t
    <3>4. /\ \A i \in 1..L :
                /\ trades[i].action = IF i % 2 = 1 THEN "buy" ELSE "sell"
                /\ trades[i].action = "sell" => trades[i].qty = trades[i - 1].qty
          /\ trades[L].qty = position
      BY <1>2, <3>1 DEF InPairs
    <3> HIDE DEF L
    <3>5. ASSUME NEW i \in 1..(L + 1)
          PROVE  /\ trades'[i].action = IF i % 2 = 1 THEN "buy" ELSE "sell"
                 /\ trades'[i].action = "sell" => trades'[i].qty = trades'[i - 1].qty
      <4>1. CASE i = L + 1
        <5>1. i - 1 = L /\ L \in 1..L
          BY <3>1, <4>1
        <5>2. trades'[i - 1].qty = position /\ trades'[i] = t
          BY <3>2, <3>4, <4>1, <5>1
        <5> QED BY <3>1, <3>3, <4>1, <5>2
      <4>2. CASE i \in 2..L
        <5>1. i \in 1..L /\ i - 1 \in 1..L
          BY <3>1, <4>2
        <5> QED BY <3>2, <3>4, <5>1
      <4>3. CASE i = 1
        <5>1. 1 \in 1..L /\ 1 % 2 = 1
          BY <3>1
        <5>2. trades[1].action = "buy"
          BY <3>4, <5>1
        <5> QED BY <3>2, <4>3, <5>1, <5>2
      <4> QED BY <3>1, <4>1, <4>2, <4>3
    <3>6. position' = 0 /\ Len(trades') % 2 = 0 /\ ~(position' > 0)
      BY <1>7, <3>1, <3>2
    <3>7. \A i \in 1..Len(trades') :
            /\ trades'[i].action = IF i % 2 = 1 THEN "buy" ELSE "sell"
            /\ trades'[i].action = "sell" => trades'[i].qty = trades'[i - 1].qty
      BY <3>2, <3>5
    <3> QED BY <3>6, <3>7 DEF InPairs
  <2> QED BY <2>3, <2>4, <2>5 DEF LedgerInv
<1> QED BY <1>1, <1>6, <1>7

LEMMA BarKeeps ==
  ASSUME LedgerInv, [NextBar]_testVars
  PROVE  LedgerInv'
<1>1. LedgerTyped /\ CashExplained /\ InPairs
  BY DEF LedgerInv
<1>2. CASE UNCHANGED testVars
  BY <1>1, <1>2 DEF testVars, LedgerInv, LedgerTyped, CashExplained, InPairs, TradeGains, TotalCommission
<1>3. CASE NextBar
  <2>1. PICK p \in Prices :
          /\ bars' = Append(bars, p)
          /\ LET signal == Evaluate(bars') IN
             \/ signal = "buy" /\ BuyBar(p)
             \/ signal = "sell" /\ SellBar(p)
             \/ signal = "hold" /\ UNCHANGED <<cash, position, bought, trades>>
    BY <1>3 DEF NextBar
  <2>2. Len(bars) < MaxBars /\ UNCHANGED capital
    BY <1>3 DEF NextBar
  <2>3. (Evaluate(bars') = "buy" => ~bought) /\ (Evaluate(bars') = "sell" => bought)
    BY DEF Evaluate
  <2>4. CASE UNCHANGED <<cash, position, bought, trades>>
    <3>1. bars' \in Seq(Prices) /\ Len(bars') = Len(bars) + 1 /\ Len(bars) \in Nat
      BY <1>1, <2>1, AppendProperties, LenProperties DEF LedgerTyped
    <3>2. LedgerTyped'
      BY <1>1, <2>2, <2>4, <3>1, BacktestAssumption DEF LedgerTyped
    <3>3. CashExplained' /\ InPairs'
      BY <1>1, <2>2, <2>4 DEF CashExplained, InPairs, TradeGains, TotalCommission
    <3> QED BY <3>2, <3>3 DEF LedgerInv
  <2>5. CASE ~bought /\ BuyBar(p)
    BY <2>1, <2>2, <2>5, BuyKeeps
  <2>6. CASE bought /\ SellBar(p)
    BY <2>1, <2>2, <2>6, SellKeeps
  <2> QED BY <2>1, <2>3, <2>4, <2>5, <2>6
<1> QED BY <1>2, <1>3

LEMMA LedgerStart == BacktestInit => LedgerInv
<1> SUFFICES ASSUME BacktestInit PROVE LedgerInv
  OBVIOUS
<1> DEFINE none == << >>
<1>1. none \in Seq(Trades) /\ Len(none) = 0
  BY EmptySeq
<1>2. PICK p \in Prices : bars = <<p>>
  BY DEF BacktestInit
<1>3. capital \in Nat /\ cash = capital * Unit /\ position = 0 /\ bought = FALSE /\ trades = none
  BY BacktestAssumption DEF BacktestInit
<1> HIDE DEF none
<1>4. <<p>> \in Seq(Prices) /\ Len(<<p>>) = 1
  OBVIOUS
<1>5. cash \in Nat
  BY <1>3 DEF Unit
<1>6. LedgerTyped
  BY <1>1, <1>2, <1>3, <1>4, <1>5, BacktestAssumption DEF LedgerTyped
<1>7. TradeGains = 0 /\ TotalCommission = 0
  <2>1. trades \in Seq(Trades) /\ Len(trades) = 0
    BY <1>1, <1>3
  <2>2. /\ Fees(trades) \in Seq(Int) /\ Len(Fees(trades)) = 0
        /\ Gains(trades) \in Seq(Int) /\ Len(Gains(trades)) = 0
    BY <2>1, FeesAre
  <2> QED BY <2>2, SumOfNothing DEF TradeGains, TotalCommission
<1>8. CashExplained
  <2> DEFINE w == capital * Unit
  <2>1. w = cash
    BY <1>3
  <2> HIDE DEF w
  <2>2. cash = w + 0 - 0
    BY <1>5, <2>1
  <2> QED BY <1>7, <2>2 DEF CashExplained, w
<1>9. InPairs
  <2>1. Len(trades) = 0 /\ 1..0 = {} /\ 0 % 2 = 0
    BY <1>1, <1>3
  <2> QED BY <1>3, <2>1 DEF InPairs
<1> QED BY <1>6, <1>8, <1>9 DEF LedgerInv

(* LedgerInv is an inductive invariant: the trades come in pairs, and the  *)
(* cash is what they leave of the capital.                                 *)
THEOREM LedgerCorrect == BacktestSpec => []LedgerInv
BY LedgerStart, BarKeeps, PTL DEF BacktestSpec

(* LedgerIsSound, for any prices, capital, periods and number of bars: the *)
(* report of metrics.go adds up, and each sale closes the purchase.        *)
THEOREM LedgerSound == BacktestSpec => []LedgerIsSound
<1>1. LedgerInv => LedgerIsSound
  <2> SUFFICES ASSUME LedgerInv PROVE ReportAddsUp /\ TradesArePaired
    BY DEF LedgerIsSound
  <2>1. LedgerTyped /\ CashExplained /\ InPairs
    BY DEF LedgerInv
  <2>2. DOMAIN trades = 1..Len(trades)
    BY <2>1, LenProperties DEF LedgerTyped
  <2>3. TradesArePaired
    BY <2>1, <2>2 DEF InPairs, TradesArePaired
  <2>4. ReportAddsUp
    <3> DEFINE v == position * Last(bars) * Unit
               w == capital * Unit
    <3>1. v \in Nat /\ w \in Nat /\ cash \in Nat
      <4>1. Len(bars) \in 1..Len(bars) /\ Last(bars) = bars[Len(bars)]
        BY <2>1, LenProperties DEF LedgerTyped, Last
      <4>2. Last(bars) \in Prices
        BY <2>1, <4>1, ElementOfSeq DEF LedgerTyped
      <4>3. Last(bars) \in Nat
        BY <4>2, BacktestAssumption
      <4> DEFINE l == Last(bars)
      <4> HIDE DEF l
      <4>4. position * l * 10000 \in Nat
        BY <2>1, <4>3 DEF LedgerTyped, l
      <4>5. v = position * l * 10000
        BY DEF Unit, l
      <4>6. w \in Nat
        BY <2>1 DEF LedgerTyped, Unit
      <4> QED BY <2>1, <4>4, <4>5, <4>6 DEF LedgerTyped
    <3>2. TradeGains \in Int /\ TotalCommission \in Int
      BY <2>1, TotalsTyped DEF LedgerTyped, TradeGains, TotalCommission
    <3>3. cash = w + TradeGains - TotalCommission
      BY <2>1 DEF CashExplained
    <3>4. FinalEquity = cash + v
      BY DEF FinalEquity
    <3> HIDE DEF v, w
    <3>5. cash + v = w + TradeGains + v - TotalCommission
      BY <3>1, <3>2, <3>3
    <3> QED BY <3>4, <3>5 DEF ReportAddsUp, v, w
  <2> QED BY <2>3, <2>4
<1> QED BY <1>1, LedgerCorrect, PTL

(* Cash never runs out: what is bought for 0.8 of it can be paid with the  *)
(* commission, so RunBacktest never needs its cut of the quantity.         *)
THEOREM LedgerTypeCorrect == BacktestSpec => []BacktestTypeOK
<1>1. LedgerInv => BacktestTypeOK
  BY LenProperties, BacktestAssumption DEF LedgerInv, LedgerTyped, BacktestTypeOK
<1> QED BY <1>1, LedgerCorrect, PTL

-----------------------------------------------------------------------------
(* The files that the local tools change.                                  *)

Contents == Seq(Pieces) \cup {NoFile}
Writing  == {"write", "script"}
Spots    == {"new", "read", "write", "edit", "delete", "script", "command",
             "open", "fill", "copy", "failed", "runs", "ran", "over"}

(* Where a file is as the calls that answered have left it.                *)
Calm == {"write", "edit", "script", "delete", "open", "runs"}

(* The call c changes the file of d.                                       *)
Changes(c, d) ==
  /\ fsPath[c] = d /\ fsCall[c].kind \in Changing
  /\ fsAt[c] \notin {"new", "ran", "over"}

FileTyped ==
  /\ disk \in [Places -> Contents] /\ should \in [Places -> Contents]
  /\ wsRoot \in Places /\ fsPath \in [FileCalls -> Places \cup {"none"}]
  /\ fsAt \in [FileCalls -> Spots]
  /\ fsCall = [c \in FileCalls |-> fsCall[c]] /\ fsText = [c \in FileCalls |-> fsText[c]]
  /\ fsAnswer = [c \in FileCalls |-> fsAnswer[c]]
  /\ temps \subseteq FileCalls /\ tangled \subseteq Places /\ switches \in 0 .. MaxSwitches

(* Each call is where its tool may be, with the arguments of that tool.    *)
Arranged(c) ==
  /\ fsAt[c] = "new" => fsCall[c].kind = "none"
  /\ fsAt[c] \in {"read", "write", "edit", "delete", "script", "command"} => fsCall[c].kind = fsAt[c]
  /\ fsAt[c] \in {"open", "fill"} => fsCall[c].kind \in Writing \cup {"edit"}
  /\ fsAt[c] \in {"copy", "failed"} => fsCall[c].kind \in Writing
  /\ fsAt[c] = "runs" => fsCall[c].kind = "script"
  /\ fsAt[c] = "ran" => fsCall[c].kind \in {"script", "command"}
  /\ fsAt[c] \notin {"new", "over"} => fsPath[c] \in Places
Equipped(c) ==
  /\ fsCall[c].kind \in Writing => fsCall[c].text \in Texts
  /\ fsCall[c].kind = "edit" =>
       /\ fsCall[c].old \in Pieces /\ fsCall[c].new \in Pieces
       /\ fsAt[c] \in {"open", "fill"} => fsText[c] \in Seq(Pieces)

(* A script keeps its path, until the user changes the workspace.          *)
OnItsPath(c) ==
  fsCall[c].kind = "script" /\ fsAt[c] # "new" =>
    /\ fsCall[c].since <= switches /\ fsCall[c].since \in Nat
    /\ fsCall[c].since = switches => fsPath[c] = ResolvePath(fsCall[c].to)

(* One call at a time changes a file that is not tangled.                  *)
Single ==
  \A d \in Places \ tangled : \A b, c \in FileCalls :
    Changes(b, d) /\ Changes(c, d) => b = c

(* Such a file is as it should be unless a call is in the middle of it.    *)
Settled ==
  \A d \in Places \ tangled :
    (\A c \in FileCalls : Changes(c, d) => fsAt[c] \in Calm) => disk[d] = should[d]

(* A script that is about to run is what was written.                      *)
Ready(c) ==
  fsCall[c].kind = "script" /\ fsAt[c] = "runs" =>
    fsPath[c] \in tangled \/ disk[fsPath[c]] = fsCall[c].text
RanRight(c) ==
  fsCall[c].kind = "script" /\ fsAt[c] = "ran" =>
    fsText[c] = fsCall[c].text \/ fsPath[c] \in tangled \/ fsCall[c].since < switches

FileInv ==
  /\ FileTyped /\ Single /\ Settled
  /\ \A c \in FileCalls :
       Arranged(c) /\ Equipped(c) /\ OnItsPath(c) /\ Ready(c) /\ RanRight(c)

-----------------------------------------------------------------------------
(* What a step of the call c leaves of the other calls.                    *)
OthersRest(c) ==
  \A b \in FileCalls \ {c} :
    /\ fsAt'[b] = fsAt[b] /\ fsCall'[b] = fsCall[b] /\ fsPath'[b] = fsPath[b] /\ fsText'[b] = fsText[b]

(* What a step of a call under way does to the disk: nothing, or to the    *)
(* one file that it changes.                                               *)
LeavesDisk == UNCHANGED <<disk, should>>
Touches(c) ==
  \A d \in Places : d # fsPath[c] => disk'[d] = disk[d] /\ should'[d] = should[d]

Outside(c) ==
  /\ LeavesDisk
  /\ \A d \in Places : ~Changes(c, d) /\ ~Changes(c, d)'

Inside(c) ==
  /\ Changes(c, fsPath[c]) /\ fsPath[c] \in Places /\ fsPath'[c] = fsPath[c]
  /\ \/ LeavesDisk /\ fsAt[c] \in Calm
     \/ LeavesDisk /\ fsAt'[c] \in {"copy", "failed"}
     \/ LeavesDisk /\ fsPath[c] \in tangled'
     \/ Touches(c) /\ fsAt'[c] = "fill"
     \/ Touches(c) /\ disk'[fsPath[c]] = should'[fsPath[c]]

Works(c) ==
  /\ OthersRest(c) /\ fsCall'[c] = fsCall[c] /\ fsAt[c] # "new"
  /\ tangled \subseteq tangled' /\ UNCHANGED <<switches, wsRoot>>
  /\ Outside(c) \/ Inside(c)

LEMMA WorkKeepsSingle ==
  ASSUME FileInv, NEW c \in FileCalls, Works(c)
  PROVE  Single'
<1> SUFFICES ASSUME NEW d \in Places, d \notin tangled',
                    NEW a \in FileCalls, NEW b \in FileCalls, Changes(a, d)', Changes(b, d)'
             PROVE  a = b
  BY DEF Single
<1>1. d \notin tangled
  BY DEF Works
<1>2. ASSUME NEW e \in FileCalls, Changes(e, d)' PROVE Changes(e, d)
  <2>1. CASE e # c
    BY <1>2, <2>1 DEF Works, OthersRest, Changes
  <2>2. CASE e = c
    BY <1>2, <2>2 DEF Works, Inside, Outside, Changes
  <2> QED BY <2>1, <2>2
<1> QED BY <1>1, <1>2 DEF FileInv, Single

LEMMA WorkKeepsSettled ==
  ASSUME FileInv, NEW c \in FileCalls, Works(c)
  PROVE  Settled'
<1> SUFFICES ASSUME NEW d \in Places, d \notin tangled',
                    \A b \in FileCalls : Changes(b, d)' => fsAt'[b] \in Calm
             PROVE  disk'[d] = should'[d]
  BY DEF Settled
<1>1. d \notin tangled
  BY DEF Works
<1>2. \A b \in FileCalls \ {c} : Changes(b, d) => fsAt[b] \in Calm
  <2> SUFFICES ASSUME NEW b \in FileCalls \ {c}, Changes(b, d) PROVE fsAt[b] \in Calm
    OBVIOUS
  <2>1. Changes(b, d)' /\ fsAt'[b] = fsAt[b]
    BY DEF Works, OthersRest, Changes
  <2> QED BY <2>1
<1>3. (Changes(c, d) => fsAt[c] \in Calm) => disk[d] = should[d]
  BY <1>1, <1>2 DEF FileInv, Settled
<1>4. CASE Outside(c)
  BY <1>3, <1>4 DEF Outside, LeavesDisk
<1>5. CASE Inside(c) /\ d # fsPath[c]
  <2>1. disk'[d] = disk[d] /\ should'[d] = should[d]
    BY <1>5 DEF Inside, LeavesDisk, Touches
  <2>2. ~Changes(c, d)
    BY <1>5 DEF Changes
  <2> QED BY <1>3, <2>1, <2>2
<1>6. CASE Inside(c) /\ d = fsPath[c]
  <2>1. CASE LeavesDisk /\ fsAt[c] \in Calm
    BY <1>3, <2>1 DEF LeavesDisk
  <2>2. ASSUME fsAt'[c] \in {"copy", "failed", "fill"} PROVE FALSE
    <3>1. Changes(c, d)'
      BY <1>6, <2>2 DEF Works, Inside, Changes
    <3> QED BY <2>2, <3>1 DEF Calm
  <2> QED BY <1>6, <2>1, <2>2 DEF Inside
<1> QED BY <1>4, <1>5, <1>6 DEF Works

(* The other calls keep what they have.                                    *)
LEMMA WorkKeepsOthers ==
  ASSUME FileInv, NEW c \in FileCalls, Works(c), NEW b \in FileCalls \ {c}
  PROVE  Arranged(b)' /\ Equipped(b)' /\ OnItsPath(b)' /\ Ready(b)' /\ RanRight(b)'
<1>1. /\ fsAt'[b] = fsAt[b] /\ fsCall'[b] = fsCall[b] /\ fsPath'[b] = fsPath[b] /\ fsText'[b] = fsText[b]
      /\ tangled \subseteq tangled' /\ UNCHANGED <<switches, wsRoot>>
  BY DEF Works, OthersRest
<1>2. Arranged(b) /\ Equipped(b) /\ OnItsPath(b) /\ Ready(b) /\ RanRight(b)
  BY DEF FileInv
<1>3. Arranged(b)' /\ Equipped(b)' /\ RanRight(b)'
  BY <1>1, <1>2 DEF Arranged, Equipped, RanRight
<1>4. OnItsPath(b)'
  BY <1>1, <1>2 DEF OnItsPath, ResolvePath
<1>5. Ready(b)'
  <2> SUFFICES ASSUME fsCall[b].kind = "script", fsAt[b] = "runs", fsPath[b] \notin tangled'
               PROVE  disk'[fsPath[b]] = fsCall[b].text
    BY <1>1 DEF Ready
  <2> DEFINE d == fsPath[b]
  <2>1. d \in Places /\ d \notin tangled /\ Changes(b, d) /\ disk[d] = fsCall[b].text
    BY <1>1, <1>2 DEF Arranged, Ready, Changes, Changing
  <2>2. ~Changes(c, d)
    BY <2>1 DEF FileInv, Single
  <2>3. disk'[d] = disk[d]
    <3>1. CASE Inside(c)
      <4>1. d # fsPath[c]
        BY <2>2, <3>1 DEF Inside
      <4> QED BY <2>1, <3>1, <4>1 DEF Inside, Touches, LeavesDisk
    <3> QED BY <3>1 DEF Works, Outside, LeavesDisk
  <2> QED BY <2>1, <2>3
<1> QED BY <1>3, <1>4, <1>5

(* A step of the call that leaves its own part in order keeps everything.  *)
LEMMA WorkKeeps ==
  ASSUME FileInv, NEW c \in FileCalls, Works(c), FileTyped',
         Arranged(c)', Equipped(c)', OnItsPath(c)', Ready(c)', RanRight(c)'
  PROVE  FileInv'
BY WorkKeepsSingle, WorkKeepsSettled, WorkKeepsOthers DEF FileInv

(* A step of c moves its counter, and may change what it read and answered.*)
Moves(c, to) ==
  /\ fsAt' = [fsAt EXCEPT ![c] = to] /\ to \in Spots
  /\ UNCHANGED <<wsRoot, fsCall, switches>>

LEMMA Others ==
  ASSUME FileTyped, NEW c \in FileCalls, NEW to \in Spots, Moves(c, to), fsPath' = fsPath,
         \E t : fsText' = [fsText EXCEPT ![c] = t]
  PROVE  /\ OthersRest(c) /\ fsAt'[c] = to /\ fsCall'[c] = fsCall[c] /\ fsPath'[c] = fsPath[c]
         /\ fsAt' \in [FileCalls -> Spots] /\ fsText' = [b \in FileCalls |-> fsText'[b]]
         /\ fsCall' = [b \in FileCalls |-> fsCall'[b]]
BY DEF FileTyped, Moves, OthersRest

LEMMA OneStill ==
  ASSUME FileTyped, NEW c \in FileCalls, fsText' = fsText
  PROVE  \E t : fsText' = [fsText EXCEPT ![c] = t]
BY DEF FileTyped

LEMMA Answers ==
  ASSUME FileTyped, NEW c \in FileCalls, NEW a, Finish(c, a), UNCHANGED <<wsRoot, fsCall, switches>>
  PROVE  Moves(c, "over") /\ fsAnswer' = [b \in FileCalls |-> fsAnswer'[b]]
BY DEF FileTyped, Finish, GoTo, Moves, Spots

LEMMA ReadFileKeeps ==
  ASSUME FileInv, NEW c \in FileCalls, ReadFile(c)
  PROVE  FileInv'
<1> DEFINE t == disk[fsPath[c]]
           a == IF t = NoFile THEN "not found" ELSE "ok"
<1>1. /\ fsAt[c] = "read" /\ fsText' = [fsText EXCEPT ![c] = t] /\ Finish(c, a)
      /\ UNCHANGED <<disk, wsRoot, fsCall, fsPath, temps, switches, should, tangled>>
  BY DEF ReadFile, Is
<1> HIDE DEF t, a
<1>2. FileTyped /\ Arranged(c) /\ Equipped(c) /\ OnItsPath(c)
  BY DEF FileInv
<1>3. Moves(c, "over") /\ fsAnswer' = [b \in FileCalls |-> fsAnswer'[b]]
  BY <1>1, <1>2, Answers
<1>4. /\ OthersRest(c) /\ fsAt'[c] = "over" /\ fsCall'[c] = fsCall[c] /\ fsPath'[c] = fsPath[c]
      /\ fsAt' \in [FileCalls -> Spots] /\ fsText' = [b \in FileCalls |-> fsText'[b]]
      /\ fsCall' = [b \in FileCalls |-> fsCall'[b]]
  BY <1>1, <1>2, <1>3, Others DEF Spots
<1>5. fsCall[c].kind = "read"
  BY <1>1, <1>2 DEF Arranged
<1>6. Works(c)
  BY <1>1, <1>4, <1>5 DEF Works, Outside, LeavesDisk, Changes, Changing
<1>7. FileTyped'
  BY <1>1, <1>2, <1>3, <1>4 DEF FileTyped
<1>8. Arranged(c)' /\ Equipped(c)' /\ OnItsPath(c)' /\ Ready(c)' /\ RanRight(c)'
  BY <1>4, <1>5 DEF Arranged, Equipped, OnItsPath, Ready, RanRight, Writing
<1> QED BY <1>6, <1>7, <1>8, WorkKeeps

LEMMA EditReadsKeeps ==
  ASSUME FileInv, NEW c \in FileCalls, EditReads(c)
  PROVE  FileInv'
<1> DEFINE t == disk[fsPath[c]]
           one == Cardinality(Matches(t, fsCall[c].old)) = 1
<1>1. /\ fsAt[c] = "edit" /\ fsText' = [fsText EXCEPT ![c] = t]
      /\ IF one THEN GoTo(c, "open") /\ UNCHANGED fsAnswer ELSE Finish(c, "error")
      /\ UNCHANGED <<disk, wsRoot, fsCall, fsPath, temps, switches, should, tangled>>
  BY DEF EditReads, Is
<1>2. FileTyped /\ Arranged(c) /\ Equipped(c)
  BY DEF FileInv
<1>3. /\ fsCall[c].kind = "edit" /\ fsPath[c] \in Places /\ fsCall[c].old \in Pieces /\ t \in Contents
  BY <1>1, <1>2 DEF Arranged, Equipped, FileTyped
<1>4. one => t \in Seq(Pieces)
  <2> SUFFICES ASSUME t = NoFile PROVE ~one
    BY <1>3 DEF Contents
  <2>1. DOMAIN NoFile = {1} /\ NoFile[1] = "none"
    BY DEF NoFile
  <2>2. fsCall[c].old # "none"
    BY <1>3, FileAssumption
  <2>3. Matches(t, fsCall[c].old) = {}
    BY <2>1, <2>2 DEF Matches
  <2> QED BY <2>3, FS_EmptySet
<1> HIDE DEF t, one
<1>5. PICK to \in {"open", "over"} :
        /\ Moves(c, to) /\ fsAnswer' = [b \in FileCalls |-> fsAnswer'[b]] /\ (to = "open" => one)
  <2>1. CASE one
    BY <1>1, <1>2, <2>1 DEF GoTo, Moves, Spots, FileTyped
  <2>2. CASE ~one
    BY <1>1, <1>2, <2>2, Answers
  <2> QED BY <2>1, <2>2
<1>6. /\ OthersRest(c) /\ fsAt'[c] = to /\ fsCall'[c] = fsCall[c] /\ fsPath'[c] = fsPath[c]
      /\ fsAt' \in [FileCalls -> Spots] /\ fsText' = [b \in FileCalls |-> fsText'[b]]
      /\ fsCall' = [b \in FileCalls |-> fsCall'[b]]
  BY <1>1, <1>2, <1>5, Others DEF Spots
<1>7. Works(c)
  BY <1>1, <1>3, <1>6 DEF Works, Inside, LeavesDisk, Changes, Changing, Calm
<1>8. FileTyped'
  BY <1>1, <1>2, <1>5, <1>6 DEF FileTyped
<1>9. fsText'[c] = t
  BY <1>1, <1>2 DEF FileTyped
<1>10. Arranged(c)' /\ Equipped(c)' /\ OnItsPath(c)' /\ Ready(c)' /\ RanRight(c)'
  BY <1>2, <1>3, <1>4, <1>5, <1>6, <1>9 DEF Arranged, Equipped, OnItsPath, Ready, RanRight, Writing
<1> QED BY <1>7, <1>8, <1>10, WorkKeeps

LEMMA MakesDirKeeps ==
  ASSUME FileInv, NEW c \in FileCalls, MakesDir(c)
  PROVE  FileInv'
<1>1. /\ fsCall[c].kind \in Writing /\ fsAt[c] = fsCall[c].kind
      /\ GoTo(c, "open") \/ GoTo(c, "failed")
      /\ UNCHANGED <<disk, wsRoot, fsCall, fsPath, fsText, fsAnswer, temps, switches, should, tangled>>
  BY DEF MakesDir, Is, Writing
<1>2. FileTyped /\ Arranged(c) /\ Equipped(c) /\ OnItsPath(c)
  BY DEF FileInv
<1>3. PICK to \in {"open", "failed"} : Moves(c, to)
  BY <1>1 DEF GoTo, Moves, Spots
<1>4. /\ OthersRest(c) /\ fsAt'[c] = to /\ fsCall'[c] = fsCall[c] /\ fsPath'[c] = fsPath[c]
      /\ fsAt' \in [FileCalls -> Spots] /\ fsText' = [b \in FileCalls |-> fsText'[b]]
      /\ fsCall' = [b \in FileCalls |-> fsCall'[b]]
  BY <1>1, <1>2, <1>3, Others, OneStill DEF Spots
<1>5. fsPath[c] \in Places
  BY <1>1, <1>2 DEF Arranged, Writing
<1>6. Works(c)
  BY <1>1, <1>4, <1>5 DEF Works, Inside, LeavesDisk, Changes, Changing, Calm, Writing
<1>7. FileTyped'
  BY <1>1, <1>2, <1>4 DEF FileTyped
<1>8. Arranged(c)' /\ Equipped(c)' /\ OnItsPath(c)' /\ Ready(c)' /\ RanRight(c)'
  BY <1>1, <1>2, <1>3, <1>4, <1>5 DEF Arranged, Equipped, OnItsPath, Ready, RanRight, Writing, ResolvePath
<1> QED BY <1>6, <1>7, <1>8, WorkKeeps

LEMMA OpensKeeps ==
  ASSUME FileInv, NEW c \in FileCalls, Opens(c)
  PROVE  FileInv'
<1> DEFINE empty == << >>
<1>1. /\ fsAt[c] = "open" /\ GoTo(c, "fill")
      /\ disk' = [disk EXCEPT ![fsPath[c]] = empty]
      /\ UNCHANGED <<wsRoot, fsCall, fsPath, fsText, fsAnswer, temps, switches, should, tangled>>
  BY DEF Opens, Is, WritePath
<1>2. FileTyped /\ Arranged(c) /\ Equipped(c) /\ OnItsPath(c)
  BY DEF FileInv
<1>3. empty \in Contents
  BY DEF Contents
<1> HIDE DEF empty
<1>4. Moves(c, "fill")
  BY <1>1 DEF GoTo, Moves, Spots
<1>5. /\ OthersRest(c) /\ fsAt'[c] = "fill" /\ fsCall'[c] = fsCall[c] /\ fsPath'[c] = fsPath[c]
      /\ fsAt' \in [FileCalls -> Spots] /\ fsText' = [b \in FileCalls |-> fsText'[b]]
      /\ fsCall' = [b \in FileCalls |-> fsCall'[b]]
  BY <1>1, <1>2, <1>4, Others, OneStill DEF Spots
<1>6. fsPath[c] \in Places /\ fsCall[c].kind \in Writing \cup {"edit"}
  BY <1>1, <1>2 DEF Arranged
<1>7. Touches(c) /\ disk' \in [Places -> Contents]
  BY <1>1, <1>2, <1>3, <1>6 DEF Touches, FileTyped
<1>8. Works(c)
  BY <1>1, <1>5, <1>6, <1>7 DEF Works, Inside, Changes, Changing, Writing
<1>9. FileTyped'
  BY <1>1, <1>2, <1>5, <1>7 DEF FileTyped
<1>10. Arranged(c)' /\ Equipped(c)' /\ OnItsPath(c)' /\ Ready(c)' /\ RanRight(c)'
  BY <1>1, <1>2, <1>5, <1>6 DEF Arranged, Equipped, OnItsPath, Ready, RanRight, Writing, ResolvePath
<1> QED BY <1>8, <1>9, <1>10, WorkKeeps

(* What a call writes.                                                     *)
LEMMA NewTextTyped ==
  ASSUME FileInv, NEW c \in FileCalls, fsAt[c] \in {"fill", "copy"}
  PROVE  NewText(c) \in Contents
<1>1. Arranged(c) /\ Equipped(c)
  BY DEF FileInv
<1>2. CASE fsCall[c].kind \in Writing
  <2>1. fsCall[c].text \in Seq(Pieces)
    BY <1>1, <1>2, FileAssumption DEF Equipped
  <2> QED BY <1>2, <2>1 DEF NewText, Contents, Writing
<1>3. CASE fsCall[c].kind = "edit"
  <2>1. /\ fsCall[c].new \in Pieces /\ fsText[c] \in Seq(Pieces)
    BY <1>1, <1>3 DEF Arranged, Equipped, Writing
  <2> DEFINE t == fsText[c]
             o == fsCall[c].old
             n == fsCall[c].new
  <2>2. NewText(c) = Replaced(t, o, n)
    BY <1>3 DEF NewText
  <2>3. n \in Pieces /\ t \in Seq(Pieces)
    BY <2>1
  <2> HIDE DEF t, o, n
  <2>4. Replaced(t, o, n) \in Seq(Pieces)
    <3>1. Len(t) \in Nat /\ DOMAIN t = 1..Len(t) /\ \A i \in 1..Len(t) : t[i] \in Pieces
      BY <2>3
    <3>2. Replaced(t, o, n) \in [1..Len(t) -> Pieces]
      BY <2>3, <3>1 DEF Replaced
    <3> QED BY <3>1, <3>2
  <2> QED BY <2>2, <2>4 DEF Contents
<1> QED BY <1>1, <1>2, <1>3 DEF Arranged

(* Fills and Copies write what the call is about.                          *)
LEMMA WrittenKeeps ==
  ASSUME FileInv, NEW c \in FileCalls, fsAt[c] \in {"fill", "copy"}, Written(c),
         temps' \subseteq FileCalls,
         UNCHANGED <<wsRoot, fsCall, fsPath, fsText, switches, tangled>>
  PROVE  FileInv'
<1> DEFINE t == NewText(c)
<1>1. /\ disk' = [disk EXCEPT ![fsPath[c]] = t]
      /\ should' = [should EXCEPT ![fsPath[c]] = t]
      /\ IF fsCall[c].kind = "script" THEN GoTo(c, "runs") /\ UNCHANGED fsAnswer ELSE Finish(c, "ok")
  BY DEF Written, WritePath
<1>2. FileTyped /\ Arranged(c) /\ Equipped(c) /\ OnItsPath(c)
  BY DEF FileInv
<1>3. t \in Contents /\ (fsCall[c].kind = "script" => t = fsCall[c].text)
  BY NewTextTyped DEF NewText
<1> HIDE DEF t
<1>4. PICK to \in {"runs", "over"} :
        /\ Moves(c, to) /\ fsAnswer' = [b \in FileCalls |-> fsAnswer'[b]]
        /\ to = "runs" => fsCall[c].kind = "script"
  <2>1. CASE fsCall[c].kind = "script"
    BY <1>1, <1>2, <2>1 DEF GoTo, Moves, Spots, FileTyped
  <2>2. CASE fsCall[c].kind # "script"
    BY <1>1, <1>2, <2>2, Answers
  <2> QED BY <2>1, <2>2
<1>5. /\ OthersRest(c) /\ fsAt'[c] = to /\ fsCall'[c] = fsCall[c] /\ fsPath'[c] = fsPath[c]
      /\ fsAt' \in [FileCalls -> Spots] /\ fsText' = [b \in FileCalls |-> fsText'[b]]
      /\ fsCall' = [b \in FileCalls |-> fsCall'[b]]
  BY <1>2, <1>4, Others, OneStill DEF Spots
<1>6. fsPath[c] \in Places /\ fsCall[c].kind \in Writing \cup {"edit"}
  BY <1>2 DEF Arranged
<1>7. /\ Touches(c) /\ disk' \in [Places -> Contents] /\ should' \in [Places -> Contents]
      /\ disk'[fsPath[c]] = t /\ should'[fsPath[c]] = t
  BY <1>1, <1>2, <1>3, <1>6 DEF Touches, FileTyped
<1>8. Works(c)
  BY <1>5, <1>6, <1>7 DEF Works, Inside, Changes, Changing, Writing
<1>9. FileTyped'
  BY <1>2, <1>4, <1>5, <1>7 DEF FileTyped
<1>10. Ready(c)'
  BY <1>3, <1>5, <1>7 DEF Ready
<1>11. Arranged(c)' /\ Equipped(c)' /\ OnItsPath(c)' /\ RanRight(c)'
  BY <1>2, <1>4, <1>5, <1>6 DEF Arranged, Equipped, OnItsPath, RanRight, Writing, ResolvePath
<1> QED BY <1>8, <1>9, <1>10, <1>11, WorkKeeps

(* A step of a call that changes its file but leaves the disk alone.       *)
LEMMA StillKeeps ==
  ASSUME FileInv, NEW c \in FileCalls, NEW to, Moves(c, to),
         fsAt[c] \notin {"new", "ran", "over"}, fsCall[c].kind \in Changing,
         UNCHANGED <<disk, should, fsPath, fsText>>,
         fsAnswer' = [b \in FileCalls |-> fsAnswer'[b]],
         temps' \subseteq FileCalls, tangled' \subseteq tangled \cup {fsPath[c]}, tangled \subseteq tangled',
         fsAt[c] \in Calm \/ to \in {"copy", "failed"} \/ fsPath[c] \in tangled',
         to \in {"copy", "failed", "over"},
         to \in {"copy", "failed"} => fsCall[c].kind \in Writing
  PROVE  FileInv'
<1>1. FileTyped /\ Arranged(c) /\ Equipped(c) /\ OnItsPath(c)
  BY DEF FileInv
<1>2. /\ OthersRest(c) /\ fsAt'[c] = to /\ fsCall'[c] = fsCall[c] /\ fsPath'[c] = fsPath[c]
      /\ fsAt' \in [FileCalls -> Spots] /\ fsText' = [b \in FileCalls |-> fsText'[b]]
      /\ fsCall' = [b \in FileCalls |-> fsCall'[b]]
  BY <1>1, Others, OneStill DEF Spots
<1>3. fsPath[c] \in Places
  BY <1>1 DEF Arranged
<1>4. UNCHANGED <<wsRoot, switches>>
  BY DEF Moves
<1>5. Works(c)
  BY <1>2, <1>3, <1>4 DEF Works, Inside, LeavesDisk, Changes
<1>6. FileTyped'
  BY <1>1, <1>2, <1>3, <1>4 DEF FileTyped
<1>7. Arranged(c)' /\ Equipped(c)' /\ OnItsPath(c)' /\ Ready(c)' /\ RanRight(c)'
  BY <1>1, <1>2, <1>3, <1>4 DEF Arranged, Equipped, OnItsPath, Ready, RanRight, Writing, ResolvePath
<1> QED BY <1>5, <1>6, <1>7, WorkKeeps

LEMMA WriteFailsKeeps ==
  ASSUME FileInv, NEW c \in FileCalls, WriteFails(c)
  PROVE  FileInv'
<1>1. /\ fsAt[c] \in {"open", "fill"}
      /\ UNCHANGED <<disk, wsRoot, fsCall, fsPath, fsText, switches, should>>
  BY DEF WriteFails, Is
<1>2. FileTyped /\ fsCall[c].kind \in Writing \cup {"edit"}
  BY <1>1 DEF FileInv, Arranged
<1>3. CASE fsCall[c].kind = "edit"
  <2>1. Finish(c, "error") /\ tangled' = tangled \cup {fsPath[c]} /\ UNCHANGED temps
    BY <1>3 DEF WriteFails, Fails
  <2>2. Moves(c, "over") /\ fsAnswer' = [b \in FileCalls |-> fsAnswer'[b]]
    BY <1>1, <1>2, <2>1, Answers
  <2> QED BY <1>1, <1>2, <1>3, <2>1, <2>2, StillKeeps DEF Changing, FileTyped
<1>4. CASE fsCall[c].kind \in Writing
  <2>1. /\ GoTo(c, "copy") \/ GoTo(c, "failed")
        /\ temps' \in {temps, temps \cup {c}} /\ UNCHANGED <<fsAnswer, tangled>>
    BY <1>4 DEF WriteFails, Writing
  <2>2. PICK to \in {"copy", "failed"} : Moves(c, to)
    BY <1>1, <2>1 DEF GoTo, Moves, Spots
  <2>3. temps' \subseteq FileCalls /\ fsAnswer' = [b \in FileCalls |-> fsAnswer'[b]]
    BY <1>2, <2>1 DEF FileTyped
  <2> QED BY <1>1, <1>2, <1>4, <2>1, <2>2, <2>3, StillKeeps DEF Changing, Writing
<1> QED BY <1>2, <1>3, <1>4

LEMMA CopiesKeeps ==
  ASSUME FileInv, NEW c \in FileCalls, Copies(c)
  PROVE  FileInv'
<1>1. /\ fsAt[c] = "copy" /\ temps' = temps \ {c}
      /\ UNCHANGED <<wsRoot, fsCall, fsPath, fsText, switches, tangled>>
      /\ \/ Written(c)
         \/ GoTo(c, "failed") /\ UNCHANGED <<disk, should, fsAnswer>>
  BY DEF Copies, Is
<1>2. FileTyped /\ fsCall[c].kind \in Writing
  BY <1>1 DEF FileInv, Arranged
<1>3. temps' \subseteq FileCalls
  BY <1>1, <1>2 DEF FileTyped
<1>4. CASE Written(c)
  BY <1>1, <1>3, <1>4, WrittenKeeps
<1>5. CASE GoTo(c, "failed") /\ UNCHANGED <<disk, should, fsAnswer>>
  <2>1. Moves(c, "failed")
    BY <1>1, <1>5 DEF GoTo, Moves, Spots
  <2>2. fsAnswer' = [b \in FileCalls |-> fsAnswer'[b]]
    BY <1>2, <1>5 DEF FileTyped
  <2> QED BY <1>1, <1>2, <1>3, <1>5, <2>1, <2>2, StillKeeps DEF Changing, Writing
<1> QED BY <1>1, <1>4, <1>5

LEMMA FillsKeeps ==
  ASSUME FileInv, NEW c \in FileCalls, Fills(c)
  PROVE  FileInv'
<1>1. /\ fsAt[c] = "fill" /\ Written(c)
      /\ UNCHANGED <<wsRoot, fsCall, fsPath, fsText, temps, switches, tangled>>
  BY DEF Fills, Is
<1>2. temps' \subseteq FileCalls
  BY <1>1 DEF FileInv, FileTyped
<1> QED BY <1>1, <1>2, WrittenKeeps

LEMMA WriteFailedKeeps ==
  ASSUME FileInv, NEW c \in FileCalls, WriteFailed(c)
  PROVE  FileInv'
<1>1. /\ fsAt[c] = "failed" /\ Finish(c, "error") /\ tangled' = tangled \cup {fsPath[c]}
      /\ UNCHANGED <<disk, wsRoot, fsCall, fsPath, fsText, temps, switches, should>>
  BY DEF WriteFailed, Is, Fails
<1>2. FileTyped /\ fsCall[c].kind \in Writing
  BY <1>1 DEF FileInv, Arranged
<1>3. Moves(c, "over") /\ fsAnswer' = [b \in FileCalls |-> fsAnswer'[b]]
  BY <1>1, <1>2, Answers
<1> QED BY <1>1, <1>2, <1>3, StillKeeps DEF Changing, Writing, FileTyped

LEMMA DeleteKeeps ==
  ASSUME FileInv, NEW c \in FileCalls, DeleteFile(c)
  PROVE  FileInv'
<1> DEFINE d == fsPath[c]
<1>1. /\ fsAt[c] = "delete"
      /\ \/ /\ disk' = [disk EXCEPT ![d] = NoFile] /\ should' = [should EXCEPT ![d] = NoFile]
            /\ Finish(c, "ok")
         \/ Finish(c, "error") /\ UNCHANGED <<disk, should>>
      /\ UNCHANGED <<wsRoot, fsCall, fsPath, fsText, temps, switches, tangled>>
  BY DEF DeleteFile, Is
<1>2. FileTyped /\ fsCall[c].kind = "delete" /\ d \in Places
  BY <1>1 DEF FileInv, Arranged
<1> HIDE DEF d
<1>3. Moves(c, "over") /\ fsAnswer' = [b \in FileCalls |-> fsAnswer'[b]]
  BY <1>1, <1>2, Answers
<1>4. CASE UNCHANGED <<disk, should>>
  BY <1>1, <1>2, <1>3, <1>4, StillKeeps DEF Changing, FileTyped, Calm
<1>5. CASE disk' = [disk EXCEPT ![d] = NoFile] /\ should' = [should EXCEPT ![d] = NoFile]
  <2>1. /\ OthersRest(c) /\ fsAt'[c] = "over" /\ fsCall'[c] = fsCall[c] /\ fsPath'[c] = fsPath[c]
        /\ fsAt' \in [FileCalls -> Spots] /\ fsText' = [b \in FileCalls |-> fsText'[b]]
        /\ fsCall' = [b \in FileCalls |-> fsCall'[b]]
    BY <1>1, <1>2, <1>3, Others, OneStill DEF Spots
  <2>2. NoFile \in Contents
    BY DEF Contents
  <2>3. /\ Touches(c) /\ disk' \in [Places -> Contents] /\ should' \in [Places -> Contents]
        /\ disk'[d] = NoFile /\ should'[d] = NoFile
    BY <1>2, <1>5, <2>2 DEF Touches, FileTyped, d
  <2>4. Works(c)
    BY <1>1, <1>2, <2>1, <2>3 DEF Works, Inside, Changes, Changing, d
  <2>5. FileTyped'
    BY <1>1, <1>2, <1>3, <2>1, <2>3 DEF FileTyped
  <2>6. Arranged(c)' /\ Equipped(c)' /\ OnItsPath(c)' /\ Ready(c)' /\ RanRight(c)'
    BY <1>2, <2>1 DEF Arranged, Equipped, OnItsPath, Ready, RanRight, Writing
  <2> QED BY <2>4, <2>5, <2>6, WorkKeeps
<1> QED BY <1>1, <1>4, <1>5

LEMMA RunsScriptKeeps ==
  ASSUME FileInv, NEW c \in FileCalls, RunsScript(c)
  PROVE  FileInv'
<1> DEFINE t == disk[ScriptPath(c)]
<1>1. /\ fsAt[c] = "runs"
      /\ \/ fsText' = [fsText EXCEPT ![c] = t] /\ GoTo(c, "ran") /\ UNCHANGED fsAnswer
         \/ Finish(c, "no directory") /\ UNCHANGED fsText
      /\ UNCHANGED <<disk, wsRoot, fsCall, fsPath, temps, switches, should, tangled>>
  BY DEF RunsScript, Is
<1>2. /\ FileTyped /\ Arranged(c) /\ Equipped(c) /\ OnItsPath(c) /\ Ready(c)
      /\ fsCall[c].kind = "script" /\ fsPath[c] \in Places
  BY <1>1 DEF FileInv, Arranged
<1>3. fsCall[c].since < switches \/ t = disk[fsPath[c]]
  <2>1. fsCall[c].since \in Nat /\ fsCall[c].since <= switches /\ switches \in Nat
    <3>1. switches \in Nat
      BY <1>2, FileAssumption DEF FileTyped
    <3> QED BY <1>1, <1>2, <3>1 DEF OnItsPath
  <2>2. CASE fsCall[c].since = switches
    <3>1. fsPath[c] = ScriptPath(c)
      BY <1>1, <1>2, <2>2 DEF OnItsPath, ScriptPath
    <3> QED BY <3>1
  <2> QED BY <2>1, <2>2
<1> HIDE DEF t
<1>4. PICK to \in {"ran", "over"} :
        /\ Moves(c, to) /\ fsAnswer' = [b \in FileCalls |-> fsAnswer'[b]]
        /\ \E u : fsText' = [fsText EXCEPT ![c] = u]
        /\ to = "ran" => fsText' = [fsText EXCEPT ![c] = t]
  <2>1. CASE fsText' = [fsText EXCEPT ![c] = t] /\ GoTo(c, "ran") /\ UNCHANGED fsAnswer
    BY <1>1, <1>2, <2>1 DEF GoTo, Moves, Spots, FileTyped
  <2>2. CASE Finish(c, "no directory") /\ UNCHANGED fsText
    BY <1>1, <1>2, <2>2, Answers, OneStill
  <2> QED BY <1>1, <2>1, <2>2
<1>5. /\ OthersRest(c) /\ fsAt'[c] = to /\ fsCall'[c] = fsCall[c] /\ fsPath'[c] = fsPath[c]
      /\ fsAt' \in [FileCalls -> Spots] /\ fsText' = [b \in FileCalls |-> fsText'[b]]
      /\ fsCall' = [b \in FileCalls |-> fsCall'[b]]
  BY <1>1, <1>2, <1>4, Others DEF Spots
<1>6. Works(c)
  BY <1>1, <1>2, <1>5 DEF Works, Inside, LeavesDisk, Changes, Changing, Calm
<1>7. FileTyped'
  BY <1>1, <1>2, <1>4, <1>5 DEF FileTyped
<1>8. RanRight(c)'
  <2> SUFFICES ASSUME to = "ran", fsPath[c] \notin tangled, ~(fsCall[c].since < switches)
               PROVE  fsText'[c] = fsCall[c].text
    BY <1>1, <1>5 DEF RanRight
  <2>1. fsText'[c] = t
    BY <1>2, <1>4 DEF FileTyped
  <2> QED BY <1>1, <1>2, <1>3, <2>1 DEF Ready
<1>9. Arranged(c)' /\ Equipped(c)' /\ OnItsPath(c)' /\ Ready(c)'
  BY <1>1, <1>2, <1>4, <1>5 DEF Arranged, Equipped, OnItsPath, Ready, Writing, ResolvePath
<1> QED BY <1>6, <1>7, <1>8, <1>9, WorkKeeps

LEMMA RunsCommandKeeps ==
  ASSUME FileInv, NEW c \in FileCalls, RunsCommand(c)
  PROVE  FileInv'
<1>1. /\ fsAt[c] = "command"
      /\ \/ fsPath' = [fsPath EXCEPT ![c] = wsRoot] /\ GoTo(c, "ran") /\ UNCHANGED fsAnswer
         \/ Finish(c, "no directory") /\ UNCHANGED fsPath
      /\ UNCHANGED <<disk, wsRoot, fsCall, fsText, temps, switches, should, tangled>>
  BY DEF RunsCommand, Is
<1>2. /\ FileTyped /\ Arranged(c) /\ Equipped(c) /\ fsCall[c].kind = "command" /\ fsPath[c] \in Places
  BY <1>1 DEF FileInv, Arranged
<1>3. PICK to \in {"ran", "over"} :
        Moves(c, to) /\ fsAnswer' = [b \in FileCalls |-> fsAnswer'[b]]
  <2>1. CASE fsPath' = [fsPath EXCEPT ![c] = wsRoot] /\ GoTo(c, "ran") /\ UNCHANGED fsAnswer
    BY <1>1, <1>2, <2>1 DEF GoTo, Moves, Spots, FileTyped
  <2>2. CASE Finish(c, "no directory") /\ UNCHANGED fsPath
    BY <1>1, <1>2, <2>2, Answers
  <2> QED BY <1>1, <2>1, <2>2
<1>4. /\ fsPath' \in [FileCalls -> Places \cup {"none"}] /\ fsPath'[c] \in Places
      /\ \A b \in FileCalls \ {c} : fsPath'[b] = fsPath[b]
  BY <1>1, <1>2 DEF FileTyped
<1>5. /\ OthersRest(c) /\ fsAt'[c] = to /\ fsCall'[c] = fsCall[c]
      /\ fsAt' \in [FileCalls -> Spots]
  BY <1>1, <1>2, <1>3, <1>4 DEF FileTyped, Moves, OthersRest
<1>6. Works(c)
  BY <1>1, <1>2, <1>5 DEF Works, Outside, LeavesDisk, Changes, Changing
<1>7. FileTyped'
  BY <1>1, <1>2, <1>3, <1>4, <1>5 DEF FileTyped
<1>8. Arranged(c)' /\ Equipped(c)' /\ OnItsPath(c)' /\ Ready(c)' /\ RanRight(c)'
  BY <1>2, <1>3, <1>4, <1>5 DEF Arranged, Equipped, OnItsPath, Ready, RanRight, Writing
<1> QED BY <1>6, <1>7, <1>8, WorkKeeps

LEMMA RanKeeps ==
  ASSUME FileInv, NEW c \in FileCalls, Ran(c)
  PROVE  FileInv'
<1>1. /\ fsAt[c] = "ran" /\ Finish(c, "ok")
      /\ UNCHANGED <<disk, wsRoot, fsCall, fsPath, fsText, temps, switches, should, tangled>>
  BY DEF Ran, Is
<1>2. FileTyped /\ Arranged(c) /\ Equipped(c) /\ OnItsPath(c)
  BY DEF FileInv
<1>3. Moves(c, "over") /\ fsAnswer' = [b \in FileCalls |-> fsAnswer'[b]]
  BY <1>1, <1>2, Answers
<1>4. /\ OthersRest(c) /\ fsAt'[c] = "over" /\ fsCall'[c] = fsCall[c] /\ fsPath'[c] = fsPath[c]
      /\ fsAt' \in [FileCalls -> Spots] /\ fsText' = [b \in FileCalls |-> fsText'[b]]
      /\ fsCall' = [b \in FileCalls |-> fsCall'[b]]
  BY <1>1, <1>2, <1>3, Others, OneStill DEF Spots
<1>5. Works(c)
  BY <1>1, <1>4 DEF Works, Outside, LeavesDisk, Changes
<1>6. FileTyped'
  BY <1>1, <1>2, <1>3, <1>4 DEF FileTyped
<1>7. Arranged(c)' /\ Equipped(c)' /\ OnItsPath(c)' /\ Ready(c)' /\ RanRight(c)'
  BY <1>1, <1>2, <1>4 DEF Arranged, Equipped, OnItsPath, Ready, RanRight, Writing, ResolvePath
<1> QED BY <1>5, <1>6, <1>7, WorkKeeps

(* The arguments of a call, one by one.                                    *)
LEMMA ArgumentsAre ==
  ASSUME NEW a \in Arguments
  PROVE  /\ a.kind \in {"read", "write", "edit", "delete", "script", "command"}
         /\ a.to \in Places \cup {"relative"} /\ a.since = switches
         /\ a.kind \in Writing => a.text \in Texts
         /\ a.kind = "edit" => a.old \in Pieces /\ a.new \in Pieces
<1> DEFINE to == Places \cup {"relative"}
<1>1. CASE a \in [kind : {"write", "script"}, to : to, text : Texts, since : {switches}]
  BY <1>1 DEF Writing
<1>2. CASE a \in [kind : {"edit"}, to : to, old : Pieces, new : Pieces, since : {switches}]
  BY <1>2 DEF Writing
<1>3. CASE a \in [kind : {"read", "delete"}, to : to, since : {switches}]
  BY <1>3 DEF Writing
<1>4. CASE a \in [kind : {"command"}, to : {"relative"}, since : {switches}]
  BY <1>4 DEF Writing
<1> QED BY <1>1, <1>2, <1>3, <1>4 DEF Arguments

LEMMA CallKeeps ==
  ASSUME FileInv, NEW c \in FileCalls, Call(c)
  PROVE  FileInv'
<1>1. PICK a \in Arguments :
        /\ fsCall' = [fsCall EXCEPT ![c] = a]
        /\ fsPath' = [fsPath EXCEPT ![c] = ResolvePath(a.to)]
        /\ GoTo(c, a.kind)
        /\ tangled' = IF a.kind \in Changing /\ Busy(ResolvePath(a.to)) # {}
                      THEN tangled \cup {ResolvePath(a.to)} ELSE tangled
  BY DEF Call
<1>2. fsAt[c] = "new" /\ UNCHANGED <<disk, wsRoot, fsText, fsAnswer, temps, switches, should>>
  BY DEF Call, Is
<1> DEFINE d == ResolvePath(a.to)
<1>3. FileTyped /\ switches \in Nat
  BY FileAssumption DEF FileInv, FileTyped
<1>4. /\ a.kind \in {"read", "write", "edit", "delete", "script", "command"}
      /\ a.to \in Places \cup {"relative"} /\ a.since = switches
      /\ a.kind \in Writing => a.text \in Texts
      /\ a.kind = "edit" => a.old \in Pieces /\ a.new \in Pieces
  BY <1>1, ArgumentsAre
<1>5. d \in Places
  BY <1>3, <1>4 DEF ResolvePath, FileTyped
<1>6. d = ResolvePath(a.to)
  OBVIOUS
<1> HIDE DEF d
<1>7. /\ fsCall'[c] = a /\ fsPath'[c] = d /\ fsAt'[c] = a.kind
      /\ fsAt' \in [FileCalls -> Spots] /\ fsCall' = [b \in FileCalls |-> fsCall'[b]]
      /\ fsPath' \in [FileCalls -> Places \cup {"none"}]
  BY <1>1, <1>3, <1>4, <1>5, <1>6 DEF GoTo, FileTyped, Spots
<1>8. OthersRest(c)
  BY <1>1, <1>2, <1>3 DEF GoTo, FileTyped, OthersRest
<1>9. /\ tangled \subseteq tangled' /\ tangled' \subseteq Places
      /\ a.kind \in Changing /\ d \notin tangled' => Busy(d) = {}
  BY <1>1, <1>3, <1>5, <1>6 DEF FileTyped
<1>10. Busy(d) = {} => \A b \in FileCalls : ~Changes(b, d)
  BY DEF Busy, Changes
<1>11. \A b \in FileCalls \ {c}, e \in Places : Changes(b, e)' <=> Changes(b, e)
  BY <1>8 DEF OthersRest, Changes
<1>12. \A e \in Places : Changes(c, e)' => e = d /\ a.kind \in Changing
  BY <1>7 DEF Changes
<1>13. \A e \in Places : ~Changes(c, e)
  BY <1>2 DEF Changes
<1>14. FileTyped'
  BY <1>2, <1>3, <1>7, <1>9 DEF FileTyped
<1>15. Single'
  <2> SUFFICES ASSUME NEW e \in Places, e \notin tangled',
                      NEW b \in FileCalls, NEW g \in FileCalls, Changes(b, e)', Changes(g, e)'
               PROVE  b = g
    BY DEF Single
  <2>1. CASE b # c /\ g # c
    BY <1>9, <1>11, <2>1 DEF FileInv, Single
  <2>2. CASE b = c /\ g # c
    BY <1>9, <1>10, <1>11, <1>12, <2>2
  <2>3. CASE b # c /\ g = c
    BY <1>9, <1>10, <1>11, <1>12, <2>3
  <2> QED BY <2>1, <2>2, <2>3
<1>16. Settled'
  <2> SUFFICES ASSUME NEW e \in Places, e \notin tangled',
                      \A b \in FileCalls : Changes(b, e)' => fsAt'[b] \in Calm
               PROVE  disk[e] = should[e]
    BY <1>2 DEF Settled
  <2>1. \A b \in FileCalls : Changes(b, e) => fsAt[b] \in Calm
    <3> SUFFICES ASSUME NEW b \in FileCalls, Changes(b, e) PROVE fsAt[b] \in Calm
      OBVIOUS
    <3>1. b \in FileCalls \ {c}
      BY <1>13
    <3>2. fsAt'[b] \in Calm /\ fsAt'[b] = fsAt[b]
      BY <1>8, <1>11, <3>1 DEF OthersRest
    <3> QED BY <3>2
  <2> QED BY <1>9, <2>1 DEF FileInv, Settled
<1>17. Arranged(c)' /\ Equipped(c)' /\ Ready(c)' /\ RanRight(c)'
  BY <1>4, <1>5, <1>7 DEF Arranged, Equipped, Ready, RanRight
<1>18. OnItsPath(c)'
  BY <1>2, <1>3, <1>4, <1>6, <1>7 DEF OnItsPath, ResolvePath
<1>19. ASSUME NEW b \in FileCalls \ {c}
       PROVE  Arranged(b)' /\ Equipped(b)' /\ OnItsPath(b)' /\ Ready(b)' /\ RanRight(b)'
  <2>1. /\ fsAt'[b] = fsAt[b] /\ fsCall'[b] = fsCall[b] /\ fsPath'[b] = fsPath[b]
        /\ fsText'[b] = fsText[b]
    BY <1>8 DEF OthersRest
  <2>2. Arranged(b) /\ Equipped(b) /\ OnItsPath(b) /\ Ready(b) /\ RanRight(b)
    BY DEF FileInv
  <2>3. Arranged(b)' /\ Equipped(b)' /\ Ready(b)' /\ RanRight(b)'
    BY <1>2, <1>9, <2>1, <2>2 DEF Arranged, Equipped, Ready, RanRight
  <2>4. OnItsPath(b)'
    BY <1>2, <2>1, <2>2 DEF OnItsPath, ResolvePath
  <2> QED BY <2>3, <2>4
<1> QED BY <1>14, <1>15, <1>16, <1>17, <1>18, <1>19 DEF FileInv

LEMMA RefusedKeeps ==
  ASSUME FileInv, NEW c \in FileCalls, Refused(c)
  PROVE  FileInv'
<1>1. /\ fsAt[c] = "new" /\ Finish(c, "refused")
      /\ UNCHANGED <<disk, wsRoot, fsCall, fsPath, fsText, temps, switches, should, tangled>>
  BY DEF Refused, Is
<1>2. FileTyped
  BY DEF FileInv
<1>3. Moves(c, "over") /\ fsAnswer' = [b \in FileCalls |-> fsAnswer'[b]]
  BY <1>1, <1>2, Answers
<1>4. /\ fsAt'[c] = "over" /\ fsAt' \in [FileCalls -> Spots]
      /\ \A b \in FileCalls \ {c} : fsAt'[b] = fsAt[b]
  BY <1>1, <1>2, <1>3 DEF Moves, FileTyped, Spots
<1>5. \A b \in FileCalls, e \in Places : Changes(b, e)' <=> Changes(b, e)
  BY <1>1, <1>4 DEF Changes
<1>6. FileTyped'
  BY <1>1, <1>2, <1>3, <1>4 DEF FileTyped
<1>7. Single'
  BY <1>1, <1>5 DEF FileInv, Single
<1>8. Settled'
  <2>1. \A b \in FileCalls, e \in Places : Changes(b, e) => fsAt'[b] = fsAt[b]
    BY <1>1, <1>4 DEF Changes
  <2> QED BY <1>1, <1>5, <2>1 DEF FileInv, Settled
<1>9. ASSUME NEW b \in FileCalls
      PROVE  Arranged(b)' /\ Equipped(b)' /\ OnItsPath(b)' /\ Ready(b)' /\ RanRight(b)'
  <2>1. Arranged(b) /\ Equipped(b) /\ OnItsPath(b) /\ Ready(b) /\ RanRight(b)
    BY DEF FileInv
  <2>2. CASE b # c
    BY <1>1, <1>4, <2>1, <2>2 DEF Arranged, Equipped, OnItsPath, Ready, RanRight, ResolvePath
  <2>3. CASE b = c
    <3>1. Arranged(c)' /\ Equipped(c)' /\ Ready(c)' /\ RanRight(c)'
      BY <1>1, <1>4, <2>1, <2>3 DEF Arranged, Equipped, Ready, RanRight
    <3>2. fsCall'[c].kind = "none"
      BY <1>1, <2>1, <2>3 DEF Arranged
    <3>3. OnItsPath(c)'
      BY <3>2 DEF OnItsPath
    <3> QED BY <2>3, <3>1, <3>3
  <2> QED BY <2>2, <2>3
<1> QED BY <1>6, <1>7, <1>8, <1>9 DEF FileInv

LEMMA TimesOutKeeps ==
  ASSUME FileInv, NEW c \in FileCalls, TimesOut(c)
  PROVE  FileInv'
<1>1. /\ UNCHANGED <<disk, wsRoot, fsAt, fsCall, fsPath, fsText, temps, switches, should, tangled>>
      /\ fsAnswer' = [fsAnswer EXCEPT ![c] = "time-out"]
  BY DEF TimesOut
<1>2. FileTyped
  BY DEF FileInv
<1>3. fsAnswer' = [b \in FileCalls |-> fsAnswer'[b]]
  BY <1>1, <1>2 DEF FileTyped
<1>4. FileTyped'
  BY <1>1, <1>2, <1>3 DEF FileTyped
<1>5. Single' /\ Settled'
  BY <1>1 DEF FileInv, Single, Settled, Changes
<1>6. \A b \in FileCalls :
        Arranged(b)' /\ Equipped(b)' /\ OnItsPath(b)' /\ Ready(b)' /\ RanRight(b)'
  BY <1>1 DEF FileInv, Arranged, Equipped, OnItsPath, Ready, RanRight, ResolvePath
<1> QED BY <1>4, <1>5, <1>6 DEF FileInv

LEMMA SetCurrentKeeps ==
  ASSUME FileInv, NEW d \in Places, SetCurrent(d)
  PROVE  FileInv'
<1>1. /\ UNCHANGED <<disk, fsAt, fsCall, fsPath, fsText, fsAnswer, temps, should, tangled>>
      /\ switches < MaxSwitches /\ wsRoot' = d /\ switches' = switches + 1
  BY DEF SetCurrent
<1>2. FileTyped /\ switches \in Nat /\ MaxSwitches \in Nat
  BY FileAssumption DEF FileInv, FileTyped
<1>3. switches' \in 0 .. MaxSwitches
  BY <1>1, <1>2
<1>4. FileTyped'
  BY <1>1, <1>2, <1>3 DEF FileTyped
<1>5. Single' /\ Settled'
  BY <1>1 DEF FileInv, Single, Settled, Changes
<1>6. ASSUME NEW b \in FileCalls
      PROVE  Arranged(b)' /\ Equipped(b)' /\ OnItsPath(b)' /\ Ready(b)' /\ RanRight(b)'
  <2>1. Arranged(b) /\ Equipped(b) /\ OnItsPath(b) /\ Ready(b) /\ RanRight(b)
    BY DEF FileInv
  <2>2. Arranged(b)' /\ Equipped(b)' /\ Ready(b)'
    BY <1>1, <2>1 DEF Arranged, Equipped, Ready
  <2>3. fsCall[b].kind = "script" /\ fsAt[b] # "new" =>
          fsCall[b].since \in Nat /\ fsCall[b].since < switches'
    BY <1>1, <1>2, <2>1 DEF OnItsPath
  <2>4. OnItsPath(b)'
    BY <1>1, <1>2, <2>3 DEF OnItsPath
  <2>5. RanRight(b)'
    BY <1>1, <2>3 DEF RanRight
  <2> QED BY <2>2, <2>4, <2>5
<1> QED BY <1>4, <1>5, <1>6 DEF FileInv

LEMMA FilesStepKeeps ==
  ASSUME FileInv, [FileNext]_fsVars
  PROVE  FileInv'
<1>1. ASSUME NEW c \in FileCalls,
             \/ Call(c) \/ Refused(c) \/ ReadFile(c) \/ EditReads(c) \/ MakesDir(c) \/ Opens(c)
             \/ Fills(c) \/ WriteFails(c) \/ Copies(c) \/ WriteFailed(c) \/ DeleteFile(c)
      PROVE  FileInv'
  BY <1>1, CallKeeps, RefusedKeeps, ReadFileKeeps, EditReadsKeeps, MakesDirKeeps, OpensKeeps,
     FillsKeeps, WriteFailsKeeps, CopiesKeeps, WriteFailedKeeps, DeleteKeeps
<1>2. ASSUME NEW c \in FileCalls, RunsScript(c) \/ RunsCommand(c) \/ Ran(c) \/ TimesOut(c)
      PROVE  FileInv'
  BY <1>2, RunsScriptKeeps, RunsCommandKeeps, RanKeeps, TimesOutKeeps
<1>3. CASE UNCHANGED fsVars
  <2>1. UNCHANGED <<disk, wsRoot, fsAt, fsCall, fsPath, fsText, fsAnswer, temps, switches, should, tangled>>
    BY <1>3 DEF fsVars
  <2>2. FileTyped' /\ Single' /\ Settled'
    BY <2>1 DEF FileInv, FileTyped, Single, Settled, Changes
  <2>3. \A b \in FileCalls :
          Arranged(b)' /\ Equipped(b)' /\ OnItsPath(b)' /\ Ready(b)' /\ RanRight(b)'
    BY <2>1 DEF FileInv, Arranged, Equipped, OnItsPath, Ready, RanRight, ResolvePath
  <2> QED BY <2>2, <2>3 DEF FileInv
<1> QED BY <1>1, <1>2, <1>3, SetCurrentKeeps DEF FileNext

LEMMA FilesStart == FileInit => FileInv
<1> SUFFICES ASSUME FileInit PROVE FileInv
  OBVIOUS
<1> USE DEF FileInit
<1>1. wsRoot \in Places
  BY FileAssumption
<1>2. NoFile \in Contents /\ "new" \in Spots
  BY DEF Contents, Spots
<1>3. FileTyped
  BY <1>1, <1>2, FileAssumption DEF FileTyped
<1>4. Single /\ Settled
  BY DEF Single, Settled, Changes
<1>5. ASSUME NEW c \in FileCalls
      PROVE  Arranged(c) /\ Equipped(c) /\ OnItsPath(c) /\ Ready(c) /\ RanRight(c)
  BY DEF Arranged, Equipped, OnItsPath, Ready, RanRight, Writing
<1> QED BY <1>3, <1>4, <1>5 DEF FileInv

(* FileInv is an inductive invariant: one call at a time is in the middle  *)
(* of a file that is not tangled, and all other files are as they should.  *)
THEOREM FilesCorrect == FileSpec => []FileInv
BY FilesStart, FilesStepKeeps, PTL DEF FileSpec

(* FilesAreTrue, for any calls, workspaces and texts: the disk is as the   *)
(* answers of fs.go say, and bash.go runs the script that it has written.  *)
THEOREM FilesTrue == FileSpec => []FilesAreTrue
<1>1. FileInv => FilesAreTrue
  <2> SUFFICES ASSUME FileInv PROVE FilesFollowTheCalls /\ RanWhatItWrote
    BY DEF FilesAreTrue
  <2>1. FilesFollowTheCalls
    <3> SUFFICES ASSUME NEW d \in Places \ tangled, Busy(d) = {} PROVE disk[d] = should[d]
      BY DEF FilesFollowTheCalls
    <3>1. \A c \in FileCalls : ~Changes(c, d)
      BY DEF Busy, Changes
    <3> QED BY <3>1 DEF FileInv, Settled
  <2>2. RanWhatItWrote
    BY DEF FileInv, RanRight, RanWhatItWrote, Is
  <2> QED BY <2>1, <2>2
<1> QED BY <1>1, FilesCorrect, PTL

(* Every file is a text or absent, and every call works in a workspace.    *)
THEOREM FilesTyped == FileSpec => []FileTypeOK
<1>1. FileInv => FileTypeOK
  BY DEF FileInv, FileTyped, FileTypeOK, Contents
<1> QED BY <1>1, FilesCorrect, PTL

-----------------------------------------------------------------------------
(* The services side by side: a step of one is a stutter of the others.    *)
LEMMA EachService ==
  MCSpec => /\ StartSpec /\ SettingsSpec /\ McpSpec /\ FileSpec /\ BatchSpec /\ RateSpec
            /\ BacktestSpec
<1> DEFINE Vars == <<part, startVars, settingsVars, mcpVars, fsVars, batchVars, rateVars, testVars>>
<1>1. MCInit => /\ StartInit /\ SettingsInit /\ McpInit /\ FileInit /\ BatchInit /\ RateInit
                /\ BacktestInit
  BY DEF MCInit
<1>2. [MCNext]_Vars => [StartNext]_startVars
  BY DEF MCNext
<1>3. [MCNext]_Vars => [SettingsNext]_settingsVars
  BY DEF MCNext
<1>4. [MCNext]_Vars => [McpNext]_mcpVars
  BY DEF MCNext
<1>5. [MCNext]_Vars => [FileNext]_fsVars
  BY DEF MCNext
<1>6. [MCNext]_Vars => [BatchNext]_batchVars
  BY DEF MCNext
<1>7. [MCNext]_Vars => [RateNext]_rateVars
  BY DEF MCNext
<1>8. [MCNext]_Vars => [NextBar]_testVars
  BY DEF MCNext
<1> QED BY <1>1, <1>2, <1>3, <1>4, <1>5, <1>6, <1>7, <1>8, PTL
       DEF MCSpec, StartSpec, SettingsSpec, McpSpec, FileSpec, BatchSpec, RateSpec, BacktestSpec

(* Every variable of every service has its type, for any constants of each.*)
THEOREM ServicesTyped == MCSpec => []TypesHold
<1>1. MCSpec => /\ []StartTypeOK /\ []SettingsTypeOK /\ []McpTypeOK /\ []FileTypeOK
                /\ []BatchTypeOK /\ []RateTypeOK /\ []BacktestTypeOK
  BY EachService, StartTyped, SettingsTyped, McpTypeCorrect, FilesTyped, BatchTypeCorrect,
     RateTypeCorrect, LedgerTypeCorrect, PTL
<1>2. StartTypeOK /\ SettingsTypeOK /\ McpTypeOK /\ FileTypeOK
      /\ BatchTypeOK /\ RateTypeOK /\ BacktestTypeOK => TypesHold
  BY DEF TypesHold
<1> QED BY <1>1, <1>2, PTL

(* What TLC checks of each service on its instance, for any constants.     *)
THEOREM ServicesSafe ==
  MCSpec => [](/\ StartIsConsistent /\ CurrentHasTools /\ SettingsAreSaved
               /\ EntriesRunTheirUpload /\ FilesAreTrue /\ BatchReportIsTrue
               /\ NoStretchIsTooBusy /\ LedgerIsSound)
<1>1. MCSpec => /\ []StartIsConsistent /\ []CurrentHasTools /\ []SettingsAreSaved
                /\ []EntriesRunTheirUpload
  BY EachService, ConsistentStart, ModelsHaveTools, SettingsSaved, EntriesSound
<1>2. MCSpec => /\ []FilesAreTrue /\ []BatchReportIsTrue /\ []NoStretchIsTooBusy
                /\ []LedgerIsSound
  BY EachService, FilesTrue, BatchToldTrue, StretchesAreFair, LedgerSound
<1> QED BY <1>1, <1>2, PTL

=============================================================================
