----------------------------- MODULE Interpreter -----------------------------
(***************************************************************************)
(* What a user of the shell is promised: the programs named by the lines   *)
(* of the input are run one after another, each once, in the order of the  *)
(* lines and up to the first "exit", in the directory the last "cd" before *)
(* it named, and the file they are redirected to holds what they wrote to  *)
(* it in that order.  A program no process can be created for is skipped.  *)
(***************************************************************************)
EXTENDS Integers, Sequences, FiniteSetsExt

CONSTANTS
  Lines,   (* the lines of input: [cmd, to]                                *)
  Absent   (* the file does not exist                                      *)

VARIABLES
  input,   (* the lines, fixed                                             *)
  ran,     (* the lines whose programs have run, and in which directory    *)
  skipped, (* the lines whose programs are not going to run                *)
  file     (* the numbers of the lines whose output is in the file         *)

Programs == {"run", "fail"}

(* The file after the program of line k has written its output. *)
Written(f, k) ==
  CASE input[k].to = ">" -> <<k>>
    [] input[k].to = ">>" /\ f # Absent -> Append(f, k)
    [] OTHER -> f

vars == <<input, ran, skipped, file>>

(* The lines still to run: programs before the first exit. *)
Unrun ==
  {k \in DOMAIN input :
     /\ input[k].cmd \in Programs /\ k \notin skipped
     /\ \A j \in DOMAIN ran : ran[j].line # k}
Pending == {k \in Unrun : \A j \in 1 .. k : input[j].cmd # "exit"}

Directory(k) == Max({0} \cup {j \in 1 .. k : input[j].cmd = "cd"})

Init == input \in Seq(Lines) /\ ran = <<>> /\ skipped = {} /\ file = Absent

Run ==
  /\ Pending # {}
  /\ ran' = Append(ran, [line |-> Min(Pending), in |-> Directory(Min(Pending))])
  /\ file' = Written(file, Min(Pending))
  /\ UNCHANGED <<input, skipped>>

(* A line that redirects to > empties the file in its turn, before its      *)
(* program writes, also if that is one that cannot be executed.             *)
Turn(k) ==
  /\ k \notin skipped
  /\ \A j \in DOMAIN ran : ran[j].line < k
  /\ \A j \in Pending : k <= j
  /\ \A j \in 1 .. k : input[j].cmd # "exit"

Open ==
  /\ \E k \in DOMAIN input :
       Turn(k) /\ input[k].cmd \in Programs \cup {"noexec"} /\ input[k].to = ">"
  /\ file' = <<>>
  /\ UNCHANGED <<input, ran, skipped>>

Skip ==
  /\ \E K \in SUBSET Unrun : K # {} /\ skipped' = skipped \cup K
  /\ UNCHANGED <<input, ran, file>>

Next == Run \/ Open \/ Skip
Safety == Init /\ [][Next]_vars
Progress == WF_vars(Run \/ (Pending # {} /\ Skip))
Spec == Safety /\ Progress
=============================================================================
