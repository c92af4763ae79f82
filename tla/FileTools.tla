----------------------------- MODULE FileTools ------------------------------
(***************************************************************************)
(* The tools that touch the disk and the shell: read_file, write_file,     *)
(* edit_file, delete_file (internal/component/tool/fs.go), execute_command *)
(* and write_and_execute (bash.go), and the workspace in which they work   *)
(* (tool/workspace.go, handler/workspace.go).                              *)
(*                                                                         *)
(* Actors: the goroutine of each call, which goes on when the wrapper      *)
(* (ToolWrapper) has told the agent that its time is over, and the user,   *)
(* who changes the workspace.  Only the workspace has a mutex.             *)
(*                                                                         *)
(* Abstractions: each directory holds one file, whose text is a sequence   *)
(* of pieces; a path is relative, or names its directory.  Paths and       *)
(* commands that the tools refuse are a call that fails at once.           *)
(***************************************************************************)
EXTENDS Naturals, Sequences, FiniteSets

CONSTANTS
  FileCalls,     \* the calls of file tools
  Drives,        \* the workspaces on a drive (D:\...), and
  Folders,       \* those that are Unix paths
  Texts,         \* the texts that are written, sequences of Pieces
  Pieces,        \* what files are made of
  OnWindows,     \* runtime.GOOS = "windows"
  MaxSwitches    \* bound: changes of the workspace

Places   == Drives \cup Folders
NoFile   == <<"none">>
Changing == {"write", "edit", "delete", "script"}

ASSUME FileAssumption ==
  /\ Places # {} /\ "none" \notin Places /\ "relative" \notin Places
  /\ Texts \subseteq Seq(Pieces) /\ "none" \notin Pieces
  /\ MaxSwitches \in Nat

VARIABLES
  disk,          \* the file of each directory
  wsRoot,        \* the workspace
  fsAt,          \* where each call is
  fsCall,        \* its arguments
  fsPath,        \* the path that it resolved
  fsText,        \* edit_file: what it read; a script: what ran
  fsAnswer,      \* what the agent was told
  temps,         \* the calls whose temporary file is in the project
  switches,      \* history: changes of the workspace
  should,        \* history: each file, as the successful calls made it
  tangled        \* history: files of which a change failed or met another

fsVars == <<disk, wsRoot, fsAt, fsCall, fsPath, fsText, fsAnswer, temps, switches, should, tangled>>

FileInit ==
  /\ disk = [d \in Places |-> NoFile] /\ should = disk
  /\ wsRoot = CHOOSE d \in Places : TRUE
  /\ fsAt = [c \in FileCalls |-> "new"] /\ fsPath = [c \in FileCalls |-> "none"]
  /\ fsCall = [c \in FileCalls |-> [kind |-> "none"]]
  /\ fsText = [c \in FileCalls |-> NoFile] /\ fsAnswer = [c \in FileCalls |-> "none"]
  /\ temps = {} /\ switches = 0 /\ tangled = {}

-----------------------------------------------------------------------------
Is(c, from) == fsAt[c] = from
GoTo(c, to) == fsAt' = [fsAt EXCEPT ![c] = to]

(* The goroutine ends; its answer counts unless the wrapper gave one.      *)
Finish(c, a) ==
  /\ GoTo(c, "over")
  /\ fsAnswer' = [fsAnswer EXCEPT ![c] = IF @ = "none" THEN a ELSE @]

(* resolvePath.                                                            *)
ResolvePath(to) == IF to = "relative" THEN wsRoot ELSE to

Busy(d) == {c \in FileCalls : fsPath[c] = d /\ fsCall[c].kind \in Changing
                              /\ fsAt[c] \notin {"new", "ran", "over"}}

(* The arguments of each tool.                                             *)
Arguments ==
  LET to == Places \cup {"relative"} IN
  [kind : {"write", "script"}, to : to, text : Texts, since : {switches}]
  \cup [kind : {"edit"}, to : to, old : Pieces, new : Pieces, since : {switches}]
  \cup [kind : {"read", "delete"}, to : to, since : {switches}]
  \cup [kind : {"command"}, to : {"relative"}, since : {switches}]

Call(c) ==
  /\ Is(c, "new")
  /\ \E a \in Arguments :
       LET d == ResolvePath(a.to) IN
       /\ fsCall' = [fsCall EXCEPT ![c] = a]
       /\ fsPath' = [fsPath EXCEPT ![c] = d]
       /\ GoTo(c, a.kind)
       /\ tangled' = IF a.kind \in Changing /\ Busy(d) # {} THEN tangled \cup {d} ELSE tangled
  /\ UNCHANGED <<disk, wsRoot, fsText, fsAnswer, temps, switches, should>>

(* A path or a command that is not allowed.                                *)
Refused(c) ==
  /\ Is(c, "new") /\ Finish(c, "refused")
  /\ UNCHANGED <<disk, wsRoot, fsCall, fsPath, fsText, temps, switches, should, tangled>>

(* read_file.                                                              *)
ReadFile(c) ==
  /\ Is(c, "read")
  /\ fsText' = [fsText EXCEPT ![c] = disk[fsPath[c]]]
  /\ Finish(c, IF disk[fsPath[c]] = NoFile THEN "not found" ELSE "ok")
  /\ UNCHANGED <<disk, wsRoot, fsCall, fsPath, temps, switches, should, tangled>>

-----------------------------------------------------------------------------
Matches(t, p)      == {i \in DOMAIN t : t[i] = p}
Replaced(t, p, q)  == [i \in DOMAIN t |-> IF t[i] = p THEN q ELSE t[i]]
NewText(c)         == IF fsCall[c].kind = "edit" THEN Replaced(fsText[c], fsCall[c].old, fsCall[c].new)
                      ELSE fsCall[c].text
Fails(c)           == /\ Finish(c, "error")
                      /\ tangled' = tangled \cup {fsPath[c]}

(* edit_file reads, and needs exactly one match.                           *)
EditReads(c) ==
  /\ Is(c, "edit")
  /\ fsText' = [fsText EXCEPT ![c] = disk[fsPath[c]]]
  /\ IF Cardinality(Matches(disk[fsPath[c]], fsCall[c].old)) = 1
     THEN GoTo(c, "open") /\ UNCHANGED fsAnswer
     ELSE Finish(c, "error")
  /\ UNCHANGED <<disk, wsRoot, fsCall, fsPath, temps, switches, should, tangled>>

(* write_file makes the directory.                                         *)
MakesDir(c) ==
  /\ fsCall[c].kind \in {"write", "script"} /\ Is(c, fsCall[c].kind)
  /\ GoTo(c, "open") \/ GoTo(c, "failed")
  /\ UNCHANGED <<disk, wsRoot, fsCall, fsPath, fsText, fsAnswer, temps, switches, should, tangled>>

F_WritePath(c) == ResolvePath(fsCall[c].to)
WritePath(c)   == fsPath[c]

(* os.WriteFile empties the file,                                          *)
Opens(c) ==
  /\ Is(c, "open") /\ GoTo(c, "fill")
  /\ disk' = [disk EXCEPT ![WritePath(c)] = <<>>]
  /\ UNCHANGED <<wsRoot, fsCall, fsPath, fsText, fsAnswer, temps, switches, should, tangled>>

(* and writes; then a script is run.                                       *)
Written(c) ==
  /\ disk' = [disk EXCEPT ![WritePath(c)] = NewText(c)]
  /\ should' = [should EXCEPT ![fsPath[c]] = NewText(c)]
  /\ IF fsCall[c].kind = "script" THEN GoTo(c, "runs") /\ UNCHANGED fsAnswer ELSE Finish(c, "ok")

Fills(c) ==
  /\ Is(c, "fill") /\ Written(c)
  /\ UNCHANGED <<wsRoot, fsCall, fsPath, fsText, temps, switches, tangled>>

(* Either of the two fails: the end for edit_file, while write_file copies *)
(* a temporary file.                                                       *)
WriteFails(c) ==
  /\ Is(c, "open") \/ Is(c, "fill")
  /\ IF fsCall[c].kind = "edit" THEN Fails(c) /\ UNCHANGED temps
     ELSE \/ /\ GoTo(c, "copy") /\ temps' = temps \cup {c} /\ UNCHANGED <<fsAnswer, tangled>>
          \/ /\ GoTo(c, "failed") /\ UNCHANGED <<temps, fsAnswer, tangled>>
  /\ UNCHANGED <<disk, wsRoot, fsCall, fsPath, fsText, switches, should>>

Copies(c) ==
  /\ Is(c, "copy")
  /\ temps' = temps \ {c}
  /\ \/ Written(c)
     \/ GoTo(c, "failed") /\ UNCHANGED <<disk, should, fsAnswer>>
  /\ UNCHANGED <<wsRoot, fsCall, fsPath, fsText, switches, tangled>>

(* write_file and with it write_and_execute answers an error.              *)
WriteFailed(c) ==
  /\ Is(c, "failed") /\ Fails(c)
  /\ UNCHANGED <<disk, wsRoot, fsCall, fsPath, fsText, temps, switches, should>>

(* delete_file.                                                            *)
DeleteFile(c) ==
  LET d == fsPath[c] IN
  /\ Is(c, "delete")
  /\ \/ disk[d] # NoFile /\ disk' = [disk EXCEPT ![d] = NoFile] /\ should' = [should EXCEPT ![d] = NoFile]
        /\ Finish(c, "ok")
     \/ Finish(c, "error") /\ UNCHANGED <<disk, should>>
  /\ UNCHANGED <<wsRoot, fsCall, fsPath, fsText, temps, switches, tangled>>

-----------------------------------------------------------------------------
(* The shell is started in GetWorkspaceWinPath, which on Linux turns the   *)
(* path of a drive into one that does not exist there.                     *)
WorkDirExists == OnWindows \/ wsRoot \in Folders

(* write_and_execute resolves its path a second time.                      *)
F_ScriptPath(c) == wsRoot
ScriptPath(c)   == ResolvePath(fsCall[c].to)

RunsScript(c) ==
  /\ Is(c, "runs")
  /\ IF WorkDirExists
     THEN /\ fsText' = [fsText EXCEPT ![c] = disk[ScriptPath(c)]]
          /\ GoTo(c, "ran") /\ UNCHANGED fsAnswer
     ELSE Finish(c, "no directory") /\ UNCHANGED fsText
  /\ UNCHANGED <<disk, wsRoot, fsCall, fsPath, temps, switches, should, tangled>>

RunsCommand(c) ==
  /\ Is(c, "command")
  /\ IF WorkDirExists
     THEN fsPath' = [fsPath EXCEPT ![c] = wsRoot] /\ GoTo(c, "ran") /\ UNCHANGED fsAnswer
     ELSE Finish(c, "no directory") /\ UNCHANGED fsPath
  /\ UNCHANGED <<disk, wsRoot, fsCall, fsText, temps, switches, should, tangled>>

(* The process ends, or is killed at its time-out or at the wrapper's.     *)
Ran(c) ==
  /\ Is(c, "ran")
  /\ Finish(c, "ok")
  /\ UNCHANGED <<disk, wsRoot, fsCall, fsPath, fsText, temps, switches, should, tangled>>

(* After 15 s the wrapper answers; the goroutine of a file tool goes on.   *)
TimesOut(c) ==
  /\ fsAt[c] \notin {"new", "over"} /\ fsAnswer[c] = "none"
  /\ fsAnswer' = [fsAnswer EXCEPT ![c] = "time-out"]
  /\ UNCHANGED <<disk, wsRoot, fsAt, fsCall, fsPath, fsText, temps, switches, should, tangled>>

-----------------------------------------------------------------------------
(* SetCurrent.                                                             *)
SetCurrent(d) ==
  /\ switches < MaxSwitches
  /\ wsRoot' = d /\ switches' = switches + 1
  /\ UNCHANGED <<disk, fsAt, fsCall, fsPath, fsText, fsAnswer, temps, should, tangled>>

FileNext ==
  \/ \E c \in FileCalls :
       \/ Call(c) \/ Refused(c) \/ ReadFile(c) \/ EditReads(c) \/ MakesDir(c) \/ Opens(c) \/ Fills(c)
       \/ WriteFails(c) \/ Copies(c) \/ WriteFailed(c) \/ DeleteFile(c)
       \/ RunsScript(c) \/ RunsCommand(c) \/ Ran(c) \/ TimesOut(c)
  \/ \E d \in Places : SetCurrent(d)

FileSpec == FileInit /\ [][FileNext]_fsVars

-----------------------------------------------------------------------------
(* Every variable has its type. *)
FileTypeOK ==
  /\ \A d \in Places : {disk[d], should[d]} \subseteq Seq(Pieces) \cup {NoFile}
  /\ wsRoot \in Places /\ fsPath \in [FileCalls -> Places \cup {"none"}]
  /\ temps \subseteq FileCalls /\ tangled \subseteq Places /\ switches \in 0 .. MaxSwitches

(* A file holds what the calls that answered made of it, one after the     *)
(* other, in whatever workspace the user is by then: a call works to its   *)
(* end on the path that it resolved at its start.  Files of which a change *)
(* failed half-way or ran next to another are not meant.                   *)
FilesFollowTheCalls ==
  \A d \in Places \ tangled : Busy(d) = {} => disk[d] = should[d]

(* What write_and_execute runs is what it has written, unless another      *)
(* change meets it or the user changes the workspace meanwhile.            *)
RanWhatItWrote ==
  \A c \in FileCalls : fsCall[c].kind = "script" /\ Is(c, "ran") =>
    fsText[c] = fsCall[c].text \/ fsPath[c] \in tangled \/ fsCall[c].since < switches

(* A command runs in the workspace: work_dir is "the current working       *)
(* directory by default" (the description of execute_command).             *)
CommandsRunInTheWorkspace == \A c \in FileCalls : fsAnswer[c] # "no directory"

(* The files are as the answers say, and scripts are what was written.     *)
FilesAreTrue == FilesFollowTheCalls /\ RanWhatItWrote

=============================================================================
