---------------------------- MODULE ModelStream -----------------------------
(***************************************************************************)
(* One streamed answer on its way from the model to its reader: the        *)
(* goroutine that scans the HTTP response (OpenAIChatModel.Stream), the    *)
(* pump of HighConcurrencyManager.Stream, the goroutine of the graph node  *)
(* parse_tool_calls, and the reader behind it.  Each stage is written for  *)
(* a reader that closes its end early: handleStream of the plain chat does *)
(* when its client is gone, handleAgent reads on to the end.               *)
(*                                                                         *)
(* They are joined by the bounded pipes of the eino library: Send blocks   *)
(* on a full pipe and reports a closed reader, Recv blocks on an empty     *)
(* one and reports the end once the writer has closed.  Nobody ever closes *)
(* the reading end of the first pipe.                                      *)
(*                                                                         *)
(* A piece of text is its number; the fragments of the tool calls, which   *)
(* the scanner collects and sends as one message, are one piece.  The      *)
(* message chunks all come from the scanner and have one role, so          *)
(* ConcatMessages does not fail; tool calls written as text in a           *)
(* <tool_code> block are left out.                                         *)
(***************************************************************************)
EXTENDS Integers, Sequences, SequencesExt, Loops

CONSTANTS
  Pieces,          \* the most pieces of text an answer has
  ModelCap,        \* capacity of the pipe of the model (64)
  PumpCap,         \* capacity of the pipe of the pump (64)
  ParseCap         \* capacity of the pipe of parse_tool_calls (32)

ASSUME ModelStreamAssumption ==
  /\ Pieces \in Nat
  /\ ModelCap \in Nat \ {0} /\ PumpCap \in Nat \ {0} /\ ParseCap \in Nat \ {0}

VARIABLES
  spc, sHold,        \* the scanner, and the message it is about to send
  made, toolCalls,   \* pieces of text scanned so far; tool calls scanned?
  finish,            \* how the response ended: none yet, done or cut
  ctxDone,           \* the context of the call is done
  ppc, pHold,        \* the pump
  slot,              \* the pump's slot in the semaphore is taken
  tpc, tHold,        \* parse_tool_calls
  seen,              \* it has received the tool calls
  modelPipe, pumpPipe, parsePipe,   \* the three pipes
  ended,             \* the pipes whose writer has closed
  pumpReaderClosed, parseReaderClosed,
  rpc, got           \* the reader and what it received

scanner == <<spc, sHold, made, toolCalls, finish>>
pump    == <<ppc, pHold, slot>>
parser  == <<tpc, tHold, seen>>
readers == <<rpc, got>>
shut    == <<pumpReaderClosed, parseReaderClosed>>
streamVars == <<scanner, ctxDone, pump, parser, readers,
          modelPipe, pumpPipe, parsePipe, ended, shut>>

Empty     == 0             \* a message without text
ToolCalls == -1            \* the message with the tool calls
Messages  == -1..Pieces
Nothing   == <<>>          \* no message held

Text(s) == Filter(s, 1..Pieces)

StreamInit ==
  /\ spc = "scan" /\ sHold = Nothing /\ made = 0 /\ toolCalls = FALSE
  /\ finish = "none" /\ ctxDone = FALSE
  /\ ppc = "recv" /\ pHold = Nothing /\ slot = TRUE
  /\ tpc = "recv" /\ tHold = Nothing /\ seen = FALSE
  /\ modelPipe = <<>> /\ pumpPipe = <<>> /\ parsePipe = <<>>
  /\ ended = {} /\ pumpReaderClosed = FALSE /\ parseReaderClosed = FALSE
  /\ rpc = "recv" /\ got = <<>>

-----------------------------------------------------------------------------
(* OpenAIChatModel.Stream: the scanner *)

OnlyScanner == UNCHANGED <<pump, parser, readers, pumpPipe, parsePipe, shut, ctxDone>>

ScanText ==
  /\ spc = "scan" /\ ~toolCalls /\ made < Pieces
  /\ made' = made + 1
  /\ sHold' = <<made + 1>>
  /\ spc' = "send"
  /\ OnlyScanner /\ UNCHANGED <<toolCalls, finish, modelPipe, ended>>

(* finish_reason "tool_calls": the collected fragments become one message. *)
ScanToolCalls ==
  /\ spc = "scan" /\ ~toolCalls
  /\ toolCalls' = TRUE
  /\ sHold' = <<ToolCalls>>
  /\ spc' = "send"
  /\ OnlyScanner /\ UNCHANGED <<made, finish, modelPipe, ended>>

(* [DONE], or the body ends early: the connection breaks, the line is too  *)
(* long, or the context is done.  An answer without messages gets one.     *)
ScanEnds(how) ==
  /\ spc = "scan"
  /\ finish' = how
  /\ IF made = 0 /\ ~toolCalls
     THEN sHold' = <<Empty>> /\ spc' = "sendLast"
     ELSE UNCHANGED sHold    /\ spc' = "close"
  /\ OnlyScanner /\ UNCHANGED <<made, toolCalls, modelPipe, ended>>

F_ScannerSends ==
  /\ spc \in {"send", "sendLast"}
  /\ modelPipe' = IF Len(modelPipe) < ModelCap THEN modelPipe \o sHold ELSE modelPipe
  /\ sHold' = Nothing
  /\ spc' = IF spc = "send" THEN "scan" ELSE "close"
  /\ OnlyScanner /\ UNCHANGED <<made, toolCalls, finish, ended>>

ScannerSends ==
  /\ spc \in {"send", "sendLast"}
  /\ Len(modelPipe) < ModelCap
  /\ modelPipe' = modelPipe \o sHold
  /\ sHold' = Nothing
  /\ spc' = IF spc = "send" THEN "scan" ELSE "close"
  /\ OnlyScanner /\ UNCHANGED <<made, toolCalls, finish, ended>>

ScannerCloses ==
  /\ spc = "close"
  /\ ended' = ended \cup {"model"}
  /\ spc' = "done"
  /\ OnlyScanner /\ UNCHANGED <<sHold, made, toolCalls, finish, modelPipe>>

Scanner ==
  \/ ScanText \/ ScanToolCalls \/ ScanEnds("done") \/ ScanEnds("cut")
  \/ ScannerSends \/ ScannerCloses

(* The deadline, the dispatcher or the client ends the context; the body   *)
(* is closed, which the scanner notices when it next reads.                *)
ContextEnds ==
  /\ ~ctxDone
  /\ ctxDone' = TRUE
  /\ UNCHANGED <<scanner, pump, parser, readers, modelPipe, pumpPipe, parsePipe,
                 ended, shut>>

-----------------------------------------------------------------------------
(* HighConcurrencyManager.Stream: the pump *)

OnlyPump == UNCHANGED <<scanner, parser, readers, parsePipe, shut, ctxDone>>

PumpReceives ==
  /\ ppc = "recv" /\ modelPipe # <<>>
  /\ pHold' = <<Head(modelPipe)>>
  /\ modelPipe' = Tail(modelPipe)
  /\ ppc' = "send"
  /\ OnlyPump /\ UNCHANGED <<slot, pumpPipe, ended>>

F_ModelEnded == "model" \in ended

(* Recv reports the end, of whatever kind, only on an empty pipe.          *)
ModelEnded   == modelPipe = <<>> /\ "model" \in ended

PumpSeesEnd ==
  /\ ppc = "recv" /\ ModelEnded
  /\ ppc' = "close"
  /\ OnlyPump /\ UNCHANGED <<pHold, slot, modelPipe, pumpPipe, ended>>

F_PumpSends ==
  /\ ppc = "send" /\ ~pumpReaderClosed
  /\ pumpPipe' = pumpPipe \o pHold
  /\ pHold' = Nothing
  /\ ppc' = "recv"
  /\ OnlyPump /\ UNCHANGED <<slot, modelPipe, ended>>

PumpSends ==
  /\ ppc = "send" /\ ~pumpReaderClosed /\ Len(pumpPipe) < PumpCap
  /\ pumpPipe' = pumpPipe \o pHold
  /\ pHold' = Nothing
  /\ ppc' = "recv"
  /\ OnlyPump /\ UNCHANGED <<slot, modelPipe, ended>>

(* The reader closed: the pump returns without closing the model's pipe.   *)
PumpGivesUp ==
  /\ ppc = "send" /\ pumpReaderClosed
  /\ pHold' = Nothing
  /\ ppc' = "close"
  /\ OnlyPump /\ UNCHANGED <<slot, modelPipe, pumpPipe, ended>>

PumpCloses ==
  /\ ppc = "close"
  /\ ended' = ended \cup {"pump"}
  /\ ppc' = "release"
  /\ OnlyPump /\ UNCHANGED <<pHold, slot, modelPipe, pumpPipe>>

PumpReleases ==
  /\ ppc = "release"
  /\ slot' = FALSE
  /\ ppc' = "done"
  /\ OnlyPump /\ UNCHANGED <<pHold, modelPipe, pumpPipe, ended>>

Pump == PumpReceives \/ PumpSeesEnd \/ PumpSends \/ PumpGivesUp \/ PumpCloses
        \/ PumpReleases

-----------------------------------------------------------------------------
(* parse_tool_calls *)

OnlyParser == UNCHANGED <<scanner, pump, readers, modelPipe, parseReaderClosed, ctxDone>>

F_PassOn(x) == x
(* The copy that is passed on has its tool calls removed.                  *)
PassOn(x)   == IF x = ToolCalls THEN Empty ELSE x

ParserReceives ==
  /\ tpc = "recv" /\ pumpPipe # <<>>
  /\ tHold' = <<PassOn(Head(pumpPipe))>>
  /\ seen' = (seen \/ Head(pumpPipe) = ToolCalls)
  /\ pumpPipe' = Tail(pumpPipe)
  /\ tpc' = "send"
  /\ OnlyParser /\ UNCHANGED <<parsePipe, ended, pumpReaderClosed>>

(* The collected tool calls follow once, after everything else.            *)
ParserSeesEnd ==
  /\ tpc = "recv" /\ pumpPipe = <<>> /\ "pump" \in ended
  /\ IF seen THEN tHold' = <<ToolCalls>> /\ tpc' = "sendLast"
             ELSE UNCHANGED tHold        /\ tpc' = "close"
  /\ OnlyParser /\ UNCHANGED <<seen, pumpPipe, parsePipe, ended, pumpReaderClosed>>

ParserSends ==
  /\ tpc \in {"send", "sendLast"} /\ ~parseReaderClosed
  /\ Len(parsePipe) < ParseCap
  /\ parsePipe' = parsePipe \o tHold
  /\ tHold' = Nothing
  /\ tpc' = IF tpc = "send" THEN "recv" ELSE "close"
  /\ OnlyParser /\ UNCHANGED <<seen, pumpPipe, ended, pumpReaderClosed>>

F_CloseUpstream == pumpReaderClosed
CloseUpstream   == TRUE

(* The reader closed: so does parse_tool_calls upstream, and returns.      *)
ParserGivesUp ==
  /\ tpc \in {"send", "sendLast"} /\ parseReaderClosed
  /\ pumpReaderClosed' = CloseUpstream
  /\ tHold' = Nothing
  /\ tpc' = "close"
  /\ OnlyParser /\ UNCHANGED <<seen, pumpPipe, parsePipe, ended>>

ParserCloses ==
  /\ tpc = "close"
  /\ ended' = ended \cup {"parse"}
  /\ tpc' = "done"
  /\ OnlyParser /\ UNCHANGED <<tHold, seen, pumpPipe, parsePipe, pumpReaderClosed>>

Parser == ParserReceives \/ ParserSeesEnd \/ ParserSends \/ ParserGivesUp
          \/ ParserCloses

-----------------------------------------------------------------------------
(* The reader *)

OnlyReader == UNCHANGED <<scanner, pump, parser, modelPipe, pumpPipe, ended,
                          pumpReaderClosed, ctxDone>>

ReaderReceives ==
  /\ rpc = "recv" /\ parsePipe # <<>>
  /\ got' = Append(got, Head(parsePipe))
  /\ parsePipe' = Tail(parsePipe)
  /\ OnlyReader /\ UNCHANGED <<rpc, parseReaderClosed>>

ReaderSeesEnd ==
  /\ rpc = "recv" /\ parsePipe = <<>> /\ "parse" \in ended
  /\ rpc' = "eof"
  /\ OnlyReader /\ UNCHANGED <<got, parsePipe, parseReaderClosed>>

(* The client is gone: the deferred Close of the handler.                  *)
ReaderLeaves ==
  /\ rpc = "recv"
  /\ rpc' = "closed"
  /\ parseReaderClosed' = TRUE
  /\ OnlyReader /\ UNCHANGED <<got, parsePipe>>

Reader == ReaderReceives \/ ReaderSeesEnd

-----------------------------------------------------------------------------
StreamNext == Scanner \/ ContextEnds \/ Pump \/ Parser \/ Reader \/ ReaderLeaves

StreamSpec == StreamInit /\ [][StreamNext]_streamVars

(* Goroutines that can run do run, and the response ends at the latest     *)
(* when the context does; the reader reads on until it closes, if it does. *)
StreamFairSpec ==
  /\ StreamSpec
  /\ WF_streamVars(Scanner) /\ WF_streamVars(Pump) /\ WF_streamVars(Parser)
  /\ WF_streamVars(Reader) /\ WF_streamVars(ContextEnds)

-----------------------------------------------------------------------------
(* Every variable has its type, and no pipe holds more than it can.        *)
StreamTypeOK ==
  /\ spc \in {"scan", "send", "sendLast", "close", "done"}
  /\ ppc \in {"recv", "send", "close", "release", "done"}
  /\ tpc \in {"recv", "send", "sendLast", "close", "done"}
  /\ rpc \in {"recv", "eof", "closed"}
  /\ {sHold, pHold, tHold} \subseteq {Nothing} \cup {<<x>> : x \in Messages}
  /\ made \in 0..Pieces /\ finish \in {"none", "done", "cut"}
  /\ {toolCalls, ctxDone, slot, seen, pumpReaderClosed, parseReaderClosed}
       \subseteq BOOLEAN
  /\ modelPipe \in Seq(Messages) /\ Len(modelPipe) <= ModelCap
  /\ pumpPipe \in Seq(Messages) /\ Len(pumpPipe) <= PumpCap
  /\ parsePipe \in Seq(Messages) /\ Len(parsePipe) <= ParseCap
  /\ ended \subseteq {"model", "pump", "parse"}
  /\ got \in Seq(Messages)

(* The text under way, the oldest piece first.                             *)
UnderWay ==
  Text(parsePipe \o tHold \o pumpPipe \o pHold \o modelPipe \o sHold)

(* Three goroutines and three bounded pipes lose, repeat and reorder       *)
(* nothing: what was received and what is under way is the text scanned,   *)
(* and a reader that sees the end has received all of it, and the tool     *)
(* calls if there are any.                                                 *)
NothingLost ==
  /\ rpc # "closed" => Text(got) \o UnderWay = [i \in 1..made |-> i]
  /\ rpc = "eof" => /\ Len(Text(got)) = made
                    /\ toolCalls <=> got # <<>> /\ Last(got) = ToolCalls

(* The router behind parse_tool_calls starts the tools when it sees the    *)
(* tool calls: they come once, complete, and after all of the text.        *)
ToolCallsOnceAndLast ==
  \A i \in DOMAIN got :
    got[i] = ToolCalls => /\ i = Len(got)
                          /\ toolCalls
                          /\ Len(Text(got)) = made

(* The slot in the semaphore comes back, with a slow reader and with one   *)
(* that closes early; and unless it closes early the reader sees the end   *)
(* and every goroutine returns.                                            *)
EveryoneFinishes ==
  <>(~slot /\ (rpc = "closed" \/ (spc = "done" /\ ppc = "done" /\ tpc = "done"
                                  /\ rpc = "eof")))

(* A reader is not left with a truncated answer that looks complete (the   *)
(* comment on the Recv loop of handleAgent).                               *)
NoSilentTruncation == rpc = "eof" => finish = "done"

(* The whole chain implements one closable pipe.                           *)
Pipe == INSTANCE ClosablePipe WITH
          sent     <- made,
          queue    <- UnderWay,
          received <- Len(Text(got)),
          writer   <- IF finish = "none" THEN "open" ELSE "closed",
          reader   <- IF rpc = "recv" THEN "open" ELSE rpc

(* Every behaviour of the chain is one of a single pipe.                   *)
RefinesPipe == Pipe!Spec

(* Nothing is lost, nothing comes twice, and the tool calls come last.     *)
StreamIsSound == StreamTypeOK /\ NothingLost /\ ToolCallsOnceAndLast

=============================================================================
