------------------------------ MODULE Startup -------------------------------
(***************************************************************************)
(* The start of the server: cmd/server/main.go and the providers and       *)
(* invokes of internal/server/fx.go, with the defaults of internal/config. *)
(*                                                                         *)
(* fx builds a provider when an invoke needs it, after all that it takes   *)
(* as parameters, and runs the invokes in their order.  Init chooses the   *)
(* settings and which of the outside services answer; the choice of every  *)
(* back end is an operator of them, and the providers that work by side    *)
(* effect (the registry of tools, the graphs that read it) are steps.      *)
(*                                                                         *)
(* Abstractions: providers that only construct are left out; "local" and   *)
(* "expert" stand for the tools of ProvideToolRegistry, the second one for *)
(* those that a sub-agent's configuration names, "mcp" for the tools of    *)
(* the configured MCP servers.                                             *)
(***************************************************************************)
EXTENDS Integers, Sequences, FiniteSets

CONSTANTS
  StorageTypes,    \* values of conversation.storage_type
  VectorTypes      \* values of vector_store.type

ASSUME StartupAssumption ==
  /\ StorageTypes \subseteq {"mysql", "es", "elasticsearch"}
  /\ VectorTypes \subseteq {"mysql", "elasticsearch"}

VARIABLES
  set,         \* the settings
  up,          \* the services that answer during the start
  built,       \* the providers that were built
  stage,       \* the invoke that fx runs
  registry,    \* globalRegistry: the tools that are registered
  subTools,    \* the tools of the sub-agents' graphs
  mainTools,   \* the tools of the agent's graph
  startOutcome      \* "starting", "running" or "failed"

startVars == <<set, up, built, stage, registry, subTools, mainTools, startOutcome>>

Settings == [mode : {"cloud", "local", "auto"}, cloud : BOOLEAN, local : BOOLEAN,
             named : BOOLEAN, vector : VectorTypes, storage : StorageTypes,
             mysql : BOOLEAN, subAgents : BOOLEAN, mcp : BOOLEAN]

-----------------------------------------------------------------------------
(* resolveModelProvider; without a model the server runs with a stub.      *)
Ollama == IF set.local /\ "ollama" \in up THEN "local" ELSE "stub"
ChatModel ==
  CASE set.mode = "cloud"               -> "cloud"
    [] set.mode = "local"               -> Ollama
    [] set.mode = "auto" /\ set.cloud   -> "cloud"
    [] set.mode = "auto" /\ ~set.cloud  -> Ollama

(* resolveEmbeddingProvider and ProvideEmbedder. *)
Embedder == IF Ollama = "local" THEN "local" ELSE IF set.cloud THEN "cloud" ELSE "stub"

(* ProvideMySQLDB: nil when it cannot connect. *)
Db == set.mysql /\ "mysql" \in up

F_Indexer == IF set.vector = "mysql" THEN "mysql" ELSE "es"

(* ProvideIndexer and ProvideRetriever, which fall back on Elasticsearch.  *)
Indexer   == IF set.vector = "mysql" /\ Db THEN "mysql" ELSE "es"
Retriever == IF set.vector = "mysql" /\ Db THEN "mysql" ELSE "es"

(* ProvideDocChain: in mysql mode the chunks are not embedded.             *)
IngestEmbedder == IF set.vector = "mysql" THEN "stub" ELSE Embedder

(* ProvideDocumentStore and ProvideDocStoreAdapter. *)
DocStore ==
  IF set.vector = "mysql" THEN (IF Db THEN "mysql" ELSE "none")
  ELSE IF "es" \in up THEN "es" ELSE "none"

(* ProvideMemoryStore and ProvideMemoryService. *)
MemoryStore == IF set.vector = "mysql" /\ Db THEN "mysql" ELSE IF "es" \in up THEN "es" ELSE "none"

(* ProvideConvService, and ProvideFeedbackService in the same way: any     *)
(* other storage type keeps conversations in memory.                       *)
Elastic == IF "es" \in up THEN "es" ELSE "memory"
ConvStore     == CASE set.storage = "mysql" -> (IF Db THEN "mysql" ELSE Elastic)
                   [] set.storage = "es"    -> Elastic
                   [] OTHER                 -> "memory"
FeedbackStore == CASE set.storage = "mysql" -> (IF Db THEN "mysql" ELSE Elastic)
                   [] set.storage = "es"    -> Elastic
                   [] OTHER                 -> "memory"

-----------------------------------------------------------------------------
(* What the providers with side effects take as parameters.                *)
Providers == {"modelManager", "subAgents", "delegate", "toolRegistry", "ragChain",
              "agentGraph", "batchPipeline", "connector", "engine"}
Needs == [p \in Providers |->
  CASE p = "subAgents"     -> {"modelManager"}
    [] p = "delegate"      -> {"subAgents"}
    [] p = "ragChain"      -> {"modelManager"}
    [] p = "toolRegistry"  -> {"ragChain", "delegate"}
    [] p = "agentGraph"    -> {"modelManager", "toolRegistry"}
    [] p = "batchPipeline" -> {"agentGraph"}
    [] p = "engine"        -> {"agentGraph", "batchPipeline", "connector"}
    [] OTHER               -> {}]

(* The invokes: SetBatchPipeline, the MCP connector, startServer.          *)
Invokes == <<"batchPipeline", "connector", "engine">>

WithNeeds(S) == S \cup UNION {Needs[p] : p \in S}
Wanted == LET once == WithNeeds({Invokes[stage]}) IN
          WithNeeds(WithNeeds(WithNeeds(WithNeeds(once))))

(* ModelManager.name: none when the model is not in model_list.            *)
Named == ChatModel # "stub" /\ set.named

(* ProvideSubAgentGraphs: Derive fails without a current model, and with   *)
(* it the start; the tools are those that are registered at this moment.   *)
BuildSubAgents ==
  IF set.subAgents /\ ~Named THEN startOutcome' = "failed" /\ UNCHANGED <<registry, subTools, mainTools>>
  ELSE subTools' = registry \cap {"expert"} /\ UNCHANGED <<registry, mainTools, startOutcome>>

Build(p) ==
  /\ startOutcome = "starting" /\ stage \in DOMAIN Invokes
  /\ p \in Wanted \ built /\ Needs[p] \subseteq built
  /\ built' = built \cup {p}
  /\ CASE p = "subAgents" -> BuildSubAgents
       [] p = "toolRegistry" -> registry' = registry \cup {"local", "expert"}
                                /\ UNCHANGED <<subTools, mainTools, startOutcome>>
       [] p = "agentGraph" -> mainTools' = registry /\ UNCHANGED <<registry, subTools, startOutcome>>
       [] OTHER -> UNCHANGED <<registry, subTools, mainTools, startOutcome>>
  /\ UNCHANGED <<set, up, stage>>

(* The body of an invoke; Connect fails when every server does.            *)
Invoke ==
  /\ startOutcome = "starting" /\ stage \in DOMAIN Invokes
  /\ Invokes[stage] \in built
  /\ stage' = stage + 1
  /\ registry' = IF Invokes[stage] = "connector" /\ set.mcp /\ "mcp" \in up
                 THEN registry \cup {"mcp"} ELSE registry
  /\ UNCHANGED <<set, up, built, subTools, mainTools, startOutcome>>

(* OnStart: the server listens. *)
Serve ==
  /\ startOutcome = "starting" /\ stage \notin DOMAIN Invokes
  /\ startOutcome' = "running"
  /\ UNCHANGED <<set, up, built, stage, registry, subTools, mainTools>>

StartInit ==
  /\ set \in Settings /\ up \in SUBSET {"mysql", "es", "ollama", "mcp"}
  /\ built = {} /\ stage = 1
  /\ registry = {} /\ subTools = {} /\ mainTools = {}
  /\ startOutcome = "starting"

StartNext == (\E p \in Providers : Build(p)) \/ Invoke \/ Serve

StartSpec == StartInit /\ [][StartNext]_startVars

-----------------------------------------------------------------------------
(* Every variable has its type. *)
StartTypeOK ==
  /\ set \in Settings /\ built \subseteq Providers /\ stage \in 1..(Len(Invokes) + 1)
  /\ registry \subseteq {"local", "expert", "mcp"}
  /\ subTools \subseteq registry /\ mainTools \subseteq registry
  /\ startOutcome \in {"starting", "running", "failed"}

(* Whatever is configured and whatever is down, a server that runs searches*)
(* the documents where it writes them, lists them there or nowhere, and    *)
(* its agent has every local tool, though only an unused parameter makes   *)
(* the registry come before the graph that reads it.                       *)
StartIsConsistent ==
  startOutcome = "running" =>
    /\ Indexer = Retriever /\ DocStore \in {Indexer, "none"}
    /\ {"local", "expert"} \subseteq mainTools

(* A sub-agent sees the tools that its configuration names                 *)
(* (SubAgentConfig.Tools).                                                 *)
SubAgentsHaveTheirTools ==
  startOutcome = "running" /\ set.subAgents => subTools = {"expert"}

(* docs/mcp-connector-plan.md: once it is connected the agent calls an MCP *)
(* tool like a local one.                                                  *)
McpToolsReachTheAgent ==
  startOutcome = "running" /\ "mcp" \in registry => "mcp" \in mainTools

(* The fallback on Elasticsearch: what is written there can be found there *)
(* only if documents and questions are embedded in the same way.           *)
VectorsMatch ==
  startOutcome = "running" /\ Indexer = "es" => IngestEmbedder = Embedder

=============================================================================
