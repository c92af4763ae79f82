------------------------------ MODULE MCServices ------------------------------
(* An instance for TLC of the services around the chat: the start-up, the  *)
(* settings, MCP servers, the file tools, the batch pipeline, the rate     *)
(* limiter and the backtest.  They share no state, so a behaviour is one   *)
(* of a single component, which part names; the others rest in one of      *)
(* their initial states.                                                   *)
EXTENDS Startup, Settings, McpServers, FileTools, BatchPipeline, RateLimiter, Backtest, TLC

CONSTANTS driveC, bigModel, smallModel, ownModel, someText, otherText

VARIABLE part

Parts == {"start", "settings", "mcp", "files", "batch", "limiter", "backtest"}

(* Two models of the configuration with windows of their own, and a custom *)
(* model.                                                                  *)
Windows == [m \in {bigModel, smallModel, ownModel} |-> IF m = smallModel THEN 32 ELSE 64]

(* A text, and another one that begins with it.                            *)
TwoTexts == {<<someText>>, <<someText, someText>>}

(* Switchers and FileCalls are the same values in the cfg as Requests.     *)
Symmetric == Permutations(Requests)

AnyOf(S) == CHOOSE e \in S : TRUE

MCInit ==
  /\ part \in Parts
  /\ IF part = "start" THEN StartInit
     ELSE set = AnyOf(Settings) /\ up = {} /\ StartInit
  /\ SettingsInit /\ (part # "settings" => name = bigModel)
  /\ IF part = "mcp" THEN McpInit
     ELSE job = [r \in Requests |-> AnyOf([name : Projects, files : {{}}])] /\ McpInit
  /\ FileInit /\ BatchInit /\ RateInit
  /\ BacktestInit
  /\ part # "backtest" => capital = AnyOf(Capitals) /\ bars = <<AnyOf(Prices)>>

MCNext ==
  \/ part = "start" /\ StartNext
     /\ UNCHANGED <<part, settingsVars, mcpVars, fsVars, batchVars, rateVars, testVars>>
  \/ part = "settings" /\ SettingsNext
     /\ UNCHANGED <<part, startVars, mcpVars, fsVars, batchVars, rateVars, testVars>>
  \/ part = "mcp" /\ McpNext
     /\ UNCHANGED <<part, startVars, settingsVars, fsVars, batchVars, rateVars, testVars>>
  \/ part = "files" /\ FileNext
     /\ UNCHANGED <<part, startVars, settingsVars, mcpVars, batchVars, rateVars, testVars>>
  \/ part = "batch" /\ BatchNext
     /\ UNCHANGED <<part, startVars, settingsVars, mcpVars, fsVars, rateVars, testVars>>
  \/ part = "limiter" /\ RateNext
     /\ UNCHANGED <<part, startVars, settingsVars, mcpVars, fsVars, batchVars, testVars>>
  \/ part = "backtest" /\ NextBar
     /\ UNCHANGED <<part, startVars, settingsVars, mcpVars, fsVars, batchVars, rateVars>>

MCSpec ==
  MCInit /\ [][MCNext]_<<part, startVars, settingsVars, mcpVars, fsVars, batchVars,
                         rateVars, testVars>>
-----------------------------------------------------------------------------
(* The variables of every service have their types.                        *)
TypesHold ==
  /\ StartTypeOK /\ SettingsTypeOK /\ McpTypeOK /\ FileTypeOK /\ BatchTypeOK
  /\ RateTypeOK /\ BacktestTypeOK

=============================================================================
