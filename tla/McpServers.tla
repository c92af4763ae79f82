----------------------------- MODULE McpServers -----------------------------
(***************************************************************************)
(* MCP servers at run time: the handler that imports, edits, removes and   *)
(* reconnects them (internal/handler/mcp_handler.go), their list           *)
(* (service/mcp_store.go), the connector that dials them and keeps its     *)
(* clients to close (component/mcp/connector.go) and the registry of tools *)
(* (component/tool/registry.go).                                           *)
(*                                                                         *)
(* Actors: one goroutine per request.  The list and the registry have a    *)
(* mutex each; the project directories and the connector's clients have    *)
(* none.                                                                   *)
(*                                                                         *)
(* Abstractions: a file is its name and the import that wrote it; of the   *)
(* manifests there is one of each shape; an archive with an illegal path   *)
(* is one that cannot be unpacked; the JSON file of the list is in         *)
(* Settings.                                                               *)
(***************************************************************************)
EXTENDS Naturals, FiniteSets

CONSTANTS
  Requests,      \* the requests of users
  Projects       \* the names that they give

(* No request is called as the entries that users write and that are none. *)
ASSUME McpAssumption == Requests \cap {"user", "none"} = {}

Manifests == {"main.py", "index.ts", "go.mod"}

VARIABLES
  folder,        \* the files of each project directory: <<file, import>>
  mcpList,       \* the entry of each name in the store
  mcpAt,         \* where each request is
  job,           \* its name and the files of its archive
  unpacking,     \* the files that it has yet to write
  found,         \* the entry that it saves or connects
  dialed,        \* the servers that are connected, by request
  clients,       \* c.clients
  seen,          \* c.clients, as each request read it to append
  mcpTools,      \* globalRegistry: whose tools were registered, by request
  muddled,       \* history: projects of which an import failed or met another
  closed         \* the connector is closed

mcpVars == <<folder, mcpList, mcpAt, job, unpacking, found, dialed, clients, seen, mcpTools,
             muddled, closed>>

NoServer == [transport |-> "none", file |-> "none", absolute |-> 0, by |-> "none"]

McpInit ==
  /\ folder = [n \in Projects |-> {}] /\ mcpList = [n \in Projects |-> NoServer]
  /\ mcpAt = [r \in Requests |-> "new"]
  /\ job \in [Requests -> [name : Projects, files : SUBSET Manifests]]
  /\ unpacking = [r \in Requests |-> {}] /\ found = [r \in Requests |-> NoServer]
  /\ dialed = {} /\ clients = {} /\ seen = [r \in Requests |-> {}]
  /\ mcpTools = {} /\ muddled = {} /\ closed = FALSE

-----------------------------------------------------------------------------
Goes(r, from, to) == mcpAt[r] = from /\ mcpAt' = [mcpAt EXCEPT ![r] = to]
Importing(n) == {r \in Requests : job[r].name = n /\ mcpAt[r] \in {"unpack", "detect", "save"}}

F_RemoveAll(n) == {}
RemoveAll(n)   == folder[n]

(* ImportZip: the directory is emptied, where an error is ignored, and the *)
(* archive is written.                                                     *)
BeginImport(r) ==
  LET n == job[r].name IN
  /\ Goes(r, "new", "unpack")
  /\ unpacking' = [unpacking EXCEPT ![r] = job[r].files]
  /\ \/ /\ folder' = [folder EXCEPT ![n] = @ \ RemoveAll(n)]
        /\ muddled' = IF Importing(n) = {} THEN muddled \ {n} ELSE muddled \cup {n}
     \/ /\ folder[n] # {} /\ UNCHANGED folder
        /\ muddled' = muddled \cup {n}
  /\ UNCHANGED <<mcpList, job, found, dialed, clients, seen, mcpTools, closed>>

(* unzip, one file after the other.                                        *)
Unpack(r) ==
  /\ mcpAt[r] = "unpack"
  /\ \E f \in unpacking[r] :
       /\ unpacking' = [unpacking EXCEPT ![r] = @ \ {f}]
       /\ folder' = [folder EXCEPT ![job[r].name] = {g \in @ : g[1] # f} \cup {<<f, r>>}]
  /\ UNCHANGED <<mcpList, mcpAt, job, found, dialed, clients, seen, mcpTools, muddled, closed>>

Unpacked(r) ==
  /\ unpacking[r] = {} /\ Goes(r, "unpack", "detect")
  /\ UNCHANGED <<folder, mcpList, job, unpacking, found, dialed, clients, seen, mcpTools, muddled, closed>>

(* Any error answers the request: that of the archive, which leaves the    *)
(* directory as it is and the old entry, or that of the write of the list, *)
(* whose entry has been replaced in memory by then.                        *)
ImportFails(r) ==
  /\ \/ Goes(r, "unpack", "over") /\ UNCHANGED mcpList
     \/ Goes(r, "save", "over") /\ mcpList' = [mcpList EXCEPT ![job[r].name] = found[r]]
  /\ muddled' = muddled \cup {job[r].name}
  /\ UNCHANGED <<folder, job, unpacking, found, dialed, clients, seen, mcpTools, closed>>

(* detectProject: main.py; npx tsx index.ts; go run . ; the argument that  *)
(* names the project.                                                      *)
First(S) == IF "main.py" \in S THEN "main.py" ELSE IF "index.ts" \in S THEN "index.ts" ELSE "go.mod"
EntryArg(f) == IF f = "main.py" THEN 1 ELSE 2

(* The first argument is made absolute; a project of no known kind is left *)
(* to the agent.                                                           *)
Detect(r) ==
  LET S == {f[1] : f \in folder[job[r].name]} IN
  /\ Goes(r, "detect", "save")
  /\ found' = [found EXCEPT ![r] =
       IF S = {} THEN [transport |-> "agent", file |-> "none", absolute |-> 0, by |-> r]
       ELSE [transport |-> "stdio", file |-> First(S), absolute |-> 1, by |-> r]]
  /\ UNCHANGED <<folder, mcpList, job, unpacking, dialed, clients, seen, mcpTools, muddled, closed>>

SaveServer(r) ==
  /\ Goes(r, "save", "dial")
  /\ mcpList' = [mcpList EXCEPT ![job[r].name] = found[r]]
  /\ UNCHANGED <<folder, job, unpacking, found, dialed, clients, seen, mcpTools, muddled, closed>>

-----------------------------------------------------------------------------
(* UpsertServer: the entry as the user wrote it, connected but without a   *)
(* look at its tools; after a failed write of the list it is not connected.*)
UpsertServer(r) ==
  /\ Goes(r, "new", "dial") \/ Goes(r, "new", "over")
  /\ \E t \in {"sse", "stdio", "agent"} :
       found' = [found EXCEPT ![r] = [transport |-> t, file |-> "none", absolute |-> 0, by |-> "user"]]
  /\ mcpList' = [mcpList EXCEPT ![job[r].name] = found'[r]]
  /\ UNCHANGED <<folder, job, unpacking, dialed, clients, seen, mcpTools, muddled, closed>>

(* Connect: the entry of the list, with the tools registered for r.        *)
Reconnect(r) ==
  /\ mcpList[job[r].name] # NoServer
  /\ Goes(r, "new", "dial")
  /\ found' = [found EXCEPT ![r] = [mcpList[job[r].name] EXCEPT !.by = r]]
  /\ UNCHANGED <<folder, mcpList, job, unpacking, dialed, clients, seen, mcpTools, muddled, closed>>

(* RemoveServer: the directory, the connection and the tools stay.         *)
RemoveServer(r) ==
  /\ Goes(r, "new", "over")
  /\ mcpList' = [mcpList EXCEPT ![job[r].name] = NoServer]
  /\ UNCHANGED <<folder, job, unpacking, found, dialed, clients, seen, mcpTools, muddled, closed>>

-----------------------------------------------------------------------------
(* dialSSE and dialStdio: connected, with an append without a lock to      *)
(* come; or an error, after which nothing is left open.                    *)
Dial(r) ==
  /\ found[r].transport # "agent"
  /\ \/ Goes(r, "dial", "append") /\ dialed' = dialed \cup {r}
     \/ Goes(r, "dial", "over") /\ UNCHANGED dialed
  /\ seen' = [seen EXCEPT ![r] = clients]
  /\ UNCHANGED <<folder, mcpList, job, unpacking, found, clients, mcpTools, muddled, closed>>

(* An agent-managed project has nothing to connect.                        *)
NoDial(r) ==
  /\ found[r].transport = "agent" /\ Goes(r, "dial", "over")
  /\ UNCHANGED <<folder, mcpList, job, unpacking, found, dialed, clients, seen, mcpTools, muddled, closed>>

KeepClient(r) ==
  /\ Goes(r, "append", "tools")
  /\ clients' = seen[r] \cup {r}
  /\ UNCHANGED <<folder, mcpList, job, unpacking, found, dialed, seen, mcpTools, muddled, closed>>

(* Initialize and GetTools fail, with the client kept; or their tools are  *)
(* registered, once more for a server that was connected before.           *)
RegisterTools(r) ==
  /\ Goes(r, "tools", "over")
  /\ mcpTools' \in {mcpTools, IF found[r].by = "user" THEN mcpTools ELSE mcpTools \cup {r}}
  /\ UNCHANGED <<folder, mcpList, job, unpacking, found, dialed, clients, seen, muddled, closed>>

(* The end of the server: Close, where fx registered it.                   *)
CloseAll ==
  /\ ~closed /\ \A r \in Requests : mcpAt[r] \in {"new", "over"}
  /\ closed' = TRUE
  /\ dialed' = dialed \ clients /\ clients' = {}
  /\ UNCHANGED <<folder, mcpList, mcpAt, job, unpacking, found, seen, mcpTools, muddled>>

-----------------------------------------------------------------------------
McpNext ==
  \/ ~closed /\ \E r \in Requests :
       \/ BeginImport(r) \/ Unpack(r) \/ Unpacked(r) \/ ImportFails(r) \/ Detect(r) \/ SaveServer(r)
       \/ UpsertServer(r) \/ Reconnect(r) \/ RemoveServer(r)
       \/ Dial(r) \/ NoDial(r) \/ KeepClient(r) \/ RegisterTools(r)
  \/ CloseAll

McpSpec == McpInit /\ [][McpNext]_mcpVars

-----------------------------------------------------------------------------
(* Every variable has its type. *)
McpTypeOK ==
  /\ \A n \in Projects : folder[n] \subseteq Manifests \X Requests
  /\ \A n \in Projects : mcpList[n].transport \in {"none", "stdio", "sse", "agent"}
  /\ dialed \subseteq Requests /\ clients \subseteq Requests /\ mcpTools \subseteq Requests
  /\ muddled \subseteq Projects

(* The entry of an imported project starts what its archive held: with     *)
(* imports, edits and removals one after the other, in any order, nothing  *)
(* of an earlier archive of that name is run or left behind.               *)
EntriesRunTheirUpload ==
  \A n \in Projects : mcpList[n].by \in Requests /\ Importing(n) = {} /\ n \notin muddled =>
    LET r == mcpList[n].by IN
    /\ folder[n] = job[r].files \X {r}
    /\ mcpList[n].file = IF job[r].files = {} THEN "none" ELSE First(job[r].files)

(* The entry file of a stdio project is made absolute, as the client       *)
(* starts from another directory (the comment in ImportZip).               *)
EntryIsAbsolute ==
  \A n \in Projects : mcpList[n].by \in Requests /\ mcpList[n].transport = "stdio" =>
    mcpList[n].absolute = EntryArg(mcpList[n].file)

=============================================================================
