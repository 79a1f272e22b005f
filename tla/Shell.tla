-------------------------------- MODULE Shell --------------------------------
(***************************************************************************)
(* proj2_MakingShell/MyShell.c: a process that waits for the shell, the    *)
(* shell, and the child it forks for each line of its input.               *)
(*                                                                         *)
(* The shell reads through a stdio buffer and the child inherits a copy of *)
(* it, with the file offset shared: a child that leaves by exit() gives    *)
(* back what it has not read if the input is a file, one that execs does   *)
(* not.  A line is one unit of the offset.  The shell reads nothing while  *)
(* it has a child, so the child's copy is the shell's own buffer.          *)
(***************************************************************************)
EXTENDS Integers, Sequences, FiniteSetsExt

CONSTANTS
  Inputs,     (* the inputs: sequences of lines [cmd, to]                  *)
  Block,      (* lines that one read(2) brings into the buffer             *)
  Seekable    (* stdin is a file, not a terminal or a pipe                 *)

(* cmd: a program found in PATH that succeeds or fails, a name not found,   *)
(* one found that execv will not run, cd to a directory or to none, exit,   *)
(* nothing but '\n', nothing but ' '.                                       *)
(* to: where the line redirects its output.                                 *)
Lines == [cmd : {"run", "fail", "missing", "noexec", "cd", "badcd", "exit", "empty", "spaces"},
          to : {"", ">", ">>"}]
Programs == {"run", "fail"}
Absent == <<0>>   (* no line has number 0 *)

ASSUME ShellAssumption ==
  Inputs \subseteq Seq(Lines) /\ Block \in Nat \ {0} /\ Seekable \in BOOLEAN

VARIABLES
  input,    (* what stdin holds, fixed                                     *)
  offset,   (* lines before the file offset, shared by all processes       *)
  got,      (* lines the shell has taken, of those up to filled            *)
  filled,   (* ... that its buffer holds                                   *)
  outer,    (* the process main started as                                 *)
  pc,       (* the shell                                                   *)
  child,    (* the child of the line under way                             *)
  status,   (* the status the child left with                              *)
  exitStatus,  (* the shell's exitStatus                                   *)
  cwd,      (* the shell's working directory: the line of the cd to it     *)
  failed,   (* lines of which the shell reported "error occured"           *)
  unforked, (* the lines no process could be created for                  *)
  ran, file (* see Interpreter                                             *)

vars == <<input, offset, got, filled, outer, pc, child, status, exitStatus, cwd, failed, unforked, ran, file>>
stdin == <<input, offset, got, filled>>
effects == <<cwd, failed, unforked, ran, file>>

Cmd == input[got].cmd

Init ==
  /\ input \in Inputs
  /\ offset = 0 /\ got = 0 /\ filled = 0
  /\ outer = "start" /\ pc = "unborn" /\ child = "none"
  /\ status = 0 /\ exitStatus \in {0, 1}   (* exitStatus is not initialised *)
  /\ cwd = 0 /\ failed = {} /\ unforked = {} /\ ran = <<>> /\ file = Absent

(* A fork that fails returns -1, which both tests of its result take for    *)
(* the parent's.                                                            *)
Start ==
  /\ outer = "start"
  /\ outer' = "wait"
  /\ \/ pc' = "read" /\ UNCHANGED unforked
     \/ pc' = "ended" /\ unforked' = DOMAIN input
  /\ UNCHANGED <<stdin, child, status, exitStatus, cwd, failed, ran, file>>

WaitForShell ==
  /\ outer = "wait" /\ pc \in {"ended", "crashed"}
  /\ outer' = "gone"
  /\ UNCHANGED <<stdin, pc, child, status, exitStatus, effects>>

-----------------------------------------------------------------------------
(* fgets, from the buffer or through read(2), and strtok(userCmd, "\n"). *)
Buffered == got < filled
AtEof == ~Buffered /\ offset >= Len(input)

FilledPastEnd == offset + Block  (* mutant *)
Refill == Min({offset + Block, Len(input)})

Fgets ==
  /\ pc = "read" /\ ~AtEof
  /\ \/ /\ Buffered
        /\ got' = got + 1
        /\ UNCHANGED <<filled, offset>>
     \/ /\ ~Buffered
        /\ got' = offset + 1
        /\ filled' = Refill
        /\ offset' = filled'
  /\ pc' = IF input[got'].cmd = "empty" THEN "read" ELSE "fork"
  /\ UNCHANGED <<input, outer, child, status, exitStatus, effects>>

EndOfInput ==
  /\ pc = "read" /\ AtEof
  /\ pc' = "ended"
  /\ UNCHANGED <<stdin, outer, child, status, exitStatus, effects>>

Fork ==
  /\ pc = "fork"
  /\ pc' = "parent"
  /\ \/ child' = "start" /\ UNCHANGED unforked
     \/ child' = "none" /\ unforked' = unforked \cup {got}
  /\ UNCHANGED <<stdin, outer, status, exitStatus, cwd, failed, ran, file>>

(* exit(): stdio gives a seekable stdin the unread part of the buffer back, *)
(* relative to wherever the shared offset is by now.                        *)
GiveBack ==
  LET back == offset - (filled - got)
  IN  offset' = IF Seekable /\ back >= 0 THEN back ELSE offset

(* The parent's branch up to waitpid.  strtok(" ") of a line of spaces is   *)
(* NULL, and strcmp is handed it.  cd changes the shell's directory, which   *)
(* the child of its line has no use for, or reports that it could not.      *)
Builtin ==
  /\ pc = "parent"
  /\ \/ /\ Cmd = "spaces"
        /\ pc' = "crashed" /\ UNCHANGED offset
     \/ /\ Cmd = "exit"
        /\ pc' = "ended" /\ GiveBack
     \/ /\ Cmd \notin {"spaces", "exit"}
        /\ pc' = "wait" /\ UNCHANGED offset
  /\ cwd' = IF Cmd = "cd" THEN got ELSE cwd
  /\ failed' = IF Cmd = "badcd" THEN failed \cup {got} ELSE failed
  /\ UNCHANGED <<input, got, filled, outer, child, status, exitStatus, unforked, ran, file>>

(* waitpid of the child, or of -1 when there is none: exitStatus is then    *)
(* what it was.                                                             *)
NoHang == TRUE  (* mutant *)
ChildOnly == child = "zombie"  (* mutant *)
WaitReturns == child \in {"zombie", "none"}
StatusForgotten == exitStatus  (* mutant *)
StatusAfterWait == IF child = "zombie" THEN status ELSE exitStatus

WaitForChild ==
  /\ pc = "wait" /\ WaitReturns
  /\ exitStatus' = StatusAfterWait
  /\ failed' = IF exitStatus' # 0 THEN failed \cup {got} ELSE failed
  /\ child' = (IF child = "zombie" THEN "none" ELSE child) /\ pc' = "read"
  /\ UNCHANGED <<stdin, outer, status, cwd, unforked, ran, file>>

-----------------------------------------------------------------------------
(* The child leaves with status s. *)
Leave(s) == child' = "zombie" /\ status' = s

ChildCrash ==
  /\ child = "start" /\ Cmd = "spaces"
  /\ Leave(-1)
  /\ UNCHANGED <<stdin, outer, pc, exitStatus, effects>>

(* exit(EXIT_SUCCESS) for cd; exit(EXIT_FAIL) for a name, such as exit, not *)
(* found in PATH.                                                           *)
ChildExit ==
  /\ child = "start" /\ Cmd \in {"cd", "badcd", "missing", "exit"}
  /\ Leave(IF Cmd \in {"cd", "badcd"} THEN 0 ELSE -1)
  /\ GiveBack
  /\ UNCHANGED <<input, got, filled, outer, pc, exitStatus, effects>>

(* The search of PATH, the redirection and execv.  > creates or empties the *)
(* file; >> on a file that is not there leaves stdout where it was.         *)
Opened == IF input[got].to = ">" THEN <<>> ELSE file

ChildExec ==
  /\ child = "start" /\ Cmd \in Programs
  /\ child' = "program"
  /\ file' = Opened
  /\ UNCHANGED <<stdin, outer, pc, status, exitStatus, cwd, failed, unforked, ran>>

ExecFails ==
  /\ child = "start" /\ Cmd = "noexec"
  /\ Leave(-1)
  /\ file' = Opened
  /\ GiveBack
  /\ UNCHANGED <<input, got, filled, outer, pc, exitStatus, cwd, failed, unforked, ran>>

RedirectedAlways == input[got].to # ""  (* mutant *)
Redirected == input[got].to # "" /\ file # Absent

Program ==
  /\ child = "program"
  /\ Leave(IF Cmd = "run" THEN 0 ELSE 1)
  /\ ran' = Append(ran, [line |-> got, in |-> cwd])
  /\ file' = IF Redirected THEN Append(file, got) ELSE file
  /\ UNCHANGED <<stdin, outer, pc, exitStatus, cwd, failed, unforked>>

Parent == Start \/ WaitForShell
ShellStep == Fgets \/ EndOfInput \/ Fork \/ Builtin \/ WaitForChild
ChildStep == ChildCrash \/ ChildExit \/ ChildExec \/ ExecFails \/ Program

Next == Parent \/ ShellStep \/ ChildStep

(* Each process runs when it can, and the programs it runs end. *)
Spec == Init /\ [][Next]_vars
FairSpec == Spec /\ WF_vars(Parent) /\ WF_vars(ShellStep) /\ WF_vars(ChildStep)

-----------------------------------------------------------------------------
TypeOK ==
  /\ input \in Inputs
  /\ offset \in 0 .. Len(input) /\ filled \in 0 .. Len(input) /\ got \in 0 .. filled
  /\ outer \in {"start", "wait", "gone"}
  /\ pc \in {"unborn", "read", "fork", "parent", "wait", "ended", "crashed"}
  /\ child \in {"none", "start", "program", "zombie"}
  /\ {status, exitStatus} \subseteq {-1, 0, 1}
  /\ cwd \in 0 .. Len(input) /\ failed \cup unforked \subseteq DOMAIN input
  /\ ran \in Seq([line : DOMAIN input, in : 0 .. Len(input)])
  /\ file \in Seq(0 .. Len(input))

(* The shell runs its commands in the foreground: it asks for the next line *)
(* only when nothing of the last one is left, running or unreaped.          *)
Foreground == pc \in {"read", "fork", "unborn"} => child = "none"

(* Of the lines it could create a process for, the shell reports those that *)
(* failed, a cd to nowhere among them, or were never run, and no other: the *)
(* status it tests belongs to the line it names, also behind a line whose   *)
(* fork failed and left exitStatus as it was.                               *)
Failed(k) ==
  \/ input[k].cmd \in {"fail", "missing", "noexec", "badcd"}
  \/ input[k].cmd = "run" /\ \A j \in DOMAIN ran : ran[j].line # k

FailuresReported ==
  pc = "read" => failed \ unforked = {k \in 1 .. got : Failed(k)} \ unforked

NoSpaces == \A k \in DOMAIN input : input[k].cmd # "spaces"

(* Fed from a terminal or a pipe, the shell runs every program of its input *)
(* it can create a process for once and in order, each in the directory of  *)
(* the last cd before it, and redirects as the lines say; and it gets to    *)
(* the end of them unless it is handed a line of spaces.                    *)
Contract == INSTANCE Interpreter WITH skipped <- {k \in unforked : input[k].cmd \in Programs}
ContractSpec == Contract!Safety /\ (NoSpaces => Contract!Progress)

(* "always run until the user or the system kills it": without a line of    *)
(* spaces the shell goes on to the end of its input or to exit, and the     *)
(* process main started as is told so.  Such a line crashes the shell.      *)
ShellEnds == NoSpaces => <>(outer = "gone" /\ pc = "ended")

(* One process is created "to run the program" of a line: no line is run a  *)
(* second time.                                                             *)
RunOnce == \A i, j \in DOMAIN ran : ran[i].line = ran[j].line => i = j

=============================================================================
