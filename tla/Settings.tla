------------------------------ MODULE Settings ------------------------------
(***************************************************************************)
(* What users set at run time: custom models (internal/service/            *)
(* modelstore.go), skills (skillstore.go) and MCP servers (mcp_store.go),  *)
(* each a list in memory and a JSON file, and the model that serves        *)
(* (internal/component/modelmanager/manager.go), which the model handler   *)
(* switches.                                                               *)
(*                                                                         *)
(* Actors: the handlers of the settings, one change at a time per store,   *)
(* which its mutex orders; the requests to switch; crashes and restarts.   *)
(*                                                                         *)
(* Abstractions: an entry is its name and, in the stores that update, a    *)
(* value; the window of a model is a number of its name.  os.WriteFile     *)
(* truncates the file before it writes it.                                 *)
(***************************************************************************)
EXTENDS Integers, FiniteSets

CONSTANTS
  Listed,        \* model_list of the configuration
  Names,         \* names of custom models, skills and servers
  Window,        \* [model |-> its context window]
  Switchers,     \* the requests to switch
  MaxChanges     \* bound: changes of settings, and restarts

ASSUME SettingsAssumption ==
  Listed # {} /\ Listed \cap Names = {} /\ Window \in [Listed \cup Names -> Nat] /\ MaxChanges \in Nat

Stores == {"models", "skills", "servers"}
Values == 1..2
None   == "none"
Torn   == {<<None, 0>>}    \* a truncated file

VARIABLES
  entries,     \* custom, skills, data.Servers: sets of <<name, value>>
  files,       \* their JSON files
  saving,      \* the stores whose file is truncated and not yet written
  changes,     \* bound: changes and restarts so far
  unsaved,     \* history: stores of which a write failed since the last save
  current,     \* ModelManager.current, and whether it has the tools bound
  name,        \* ModelManager.name
  budget,      \* ChatService.contextWindow
  switcher,    \* where each request to switch is
  chosen       \* the model that it switches to

settingsVars == <<entries, files, saving, changes, unsaved, current, name, budget, switcher, chosen>>
modelVars    == <<current, name, budget, switcher, chosen>>

NamesOf(s) == {e[1] : e \in entries[s]}
Bound(m)   == [model |-> m, tools |-> TRUE]

(* NewModelManager and ProvideAgentGraph, which binds the tools;           *)
(* ProvideChatService takes the window of the model of the start.          *)
Begin(m) ==
  /\ current' = Bound(m) /\ name' = m /\ budget' = Window[m]
  /\ switcher' = [w \in Switchers |-> "new"] /\ chosen' = [w \in Switchers |-> None]

SettingsInit ==
  /\ entries = [s \in Stores |-> {}] /\ files = entries
  /\ saving = {} /\ changes = 0 /\ unsaved = {}
  /\ \E m \in Listed : current = Bound(m) /\ name = m /\ budget = Window[m]
  /\ switcher = [w \in Switchers |-> "new"] /\ chosen = [w \in Switchers |-> None]

-----------------------------------------------------------------------------
(* save: under the mutex of the store, the change and the truncated file.  *)
F_Change(s, new) ==
  /\ changes < MaxChanges /\ changes' = changes + 1
  /\ s \notin saving
  /\ entries' = [entries EXCEPT ![s] = new]
  /\ UNCHANGED <<files, saving, unsaved, modelVars>>

Change(s, new) ==
  /\ changes < MaxChanges /\ changes' = changes + 1
  /\ s \notin saving
  /\ entries' = [entries EXCEPT ![s] = new]
  /\ files' = [files EXCEPT ![s] = Torn]
  /\ saving' = saving \cup {s}
  /\ UNCHANGED <<unsaved, modelVars>>

Put(s, n, v) == Change(s, {e \in entries[s] : e[1] # n} \cup {<<n, v>>})
Drop(s, n)   == n \in NamesOf(s) /\ Change(s, {e \in entries[s] : e[1] # n})

(* A custom model may not have the name of another one.                    *)
AddModel    == \E n \in Names : n \notin NamesOf("models") /\ Put("models", n, 1)
RemoveModel == \E n \in Names : Drop("models", n)
PutSkill    == \E n \in Names, v \in Values : Put("skills", n, v)
RemoveSkill == \E n \in Names : Drop("skills", n)
PutServer   == \E n \in Names, v \in Values : Put("servers", n, v)
DropServer  == \E n \in Names : Drop("servers", n)

(* The write ends; or it fails, and the handler answers with the error     *)
(* of a change that is in memory all the same.                             *)
Saved(s) ==
  /\ s \in saving /\ saving' = saving \ {s}
  /\ \/ files' = [files EXCEPT ![s] = entries[s]] /\ unsaved' = unsaved \ {s}
     \/ unsaved' = unsaved \cup {s} /\ UNCHANGED files
  /\ UNCHANGED <<entries, changes, modelVars>>

-----------------------------------------------------------------------------
(* findEntry, NewOpenAIChatModel and BindTools: the configured models      *)
(* first, then the custom ones; an unknown name is an error.               *)
F_FindModel(w) ==
  /\ switcher[w] = "new"
  /\ \E m \in Listed \cup NamesOf("models") :
       /\ chosen' = [chosen EXCEPT ![w] = m] /\ current' = [model |-> m, tools |-> FALSE]
  /\ switcher' = [switcher EXCEPT ![w] = "found"]
  /\ UNCHANGED <<entries, files, saving, changes, unsaved, name, budget>>

FindModel(w) ==
  /\ switcher[w] = "new"
  /\ \E m \in Listed \cup NamesOf("models") : chosen' = [chosen EXCEPT ![w] = m]
  /\ switcher' = [switcher EXCEPT ![w] = "found"]
  /\ UNCHANGED <<entries, files, saving, changes, unsaved, current, name, budget>>

(* Two atomic values, one store after the other.                           *)
StoreModel(w) ==
  /\ switcher[w] = "found" /\ switcher' = [switcher EXCEPT ![w] = "stored"]
  /\ current' = Bound(chosen[w])
  /\ UNCHANGED <<entries, files, saving, changes, unsaved, name, budget, chosen>>

StoreName(w) ==
  /\ switcher[w] = "stored" /\ switcher' = [switcher EXCEPT ![w] = "over"]
  /\ name' = chosen[w]
  /\ UNCHANGED <<entries, files, saving, changes, unsaved, current, budget, chosen>>

(* A crash and a restart: load leaves the list empty when the file is not  *)
(* JSON, and the next save writes that.                                    *)
Restart ==
  /\ changes < MaxChanges /\ changes' = changes + 1
  /\ entries' = [s \in Stores |-> IF files[s] = Torn THEN {} ELSE files[s]]
  /\ unsaved' = unsaved \cup saving /\ saving' = {}
  /\ \E m \in Listed : Begin(m)
  /\ UNCHANGED files

SettingsNext ==
  \/ AddModel \/ RemoveModel \/ PutSkill \/ RemoveSkill \/ PutServer \/ DropServer
  \/ \E s \in Stores : Saved(s)
  \/ \E w \in Switchers : FindModel(w) \/ StoreModel(w) \/ StoreName(w)
  \/ Restart

SettingsSpec == SettingsInit /\ [][SettingsNext]_settingsVars

-----------------------------------------------------------------------------
(* Every variable has its type. *)
SettingsTypeOK ==
  /\ \A s \in Stores : entries[s] \subseteq Names \X Values
  /\ \A s \in Stores : files[s] \subseteq Names \X Values \/ files[s] = Torn
  /\ saving \subseteq Stores /\ unsaved \subseteq Stores /\ changes \in 0..MaxChanges
  /\ current.model \in Listed \cup Names /\ current.tools \in BOOLEAN
  /\ name \in Listed \cup Names
  /\ switcher \in [Switchers -> {"new", "found", "stored", "over"}]

(* While no change is being written a restart finds what the users see,    *)
(* but for a store of which a write failed or was torn by a crash.         *)
SettingsAreSaved == \A s \in Stores \ (saving \cup unsaved) : files[s] = entries[s]

(* A request never meets a model without tools: Switch binds them before   *)
(* the model can be found, also when two requests switch at one time.      *)
CurrentHasTools == current.tools

(* ChatService calls its budget the context window of the current model,   *)
(* and manager.go warns of one that is too large.                          *)
BudgetFits ==
  (\A w \in Switchers : switcher[w] \in {"new", "over"}) => budget <= Window[current.model]

(* The name that is shown as active is that of the model that answers.     *)
NameIsCurrent ==
  (\A w \in Switchers : switcher[w] \in {"new", "over"}) => name = current.model

=============================================================================
