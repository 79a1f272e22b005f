------------------------------ MODULE WordCount ------------------------------
(***************************************************************************)
(* miscCode/my-wc.c: lines, words and characters counted in one pass over  *)
(* a file that ends anywhere and of which a read may fail.  A failed read  *)
(* is not end of file: fscanf leaves ent as it was, and the loop takes it  *)
(* for the next character.                                                 *)
(***************************************************************************)
EXTENDS Integers, Sequences, FiniteSets

CONSTANTS
  MaxLen,     (* bytes of the file                                         *)
  MaxErrors   (* reads that fail                                           *)

ASSUME WordCountAssumption == MaxLen \in Nat /\ MaxErrors \in Nat

Chars == {"x", "space", "newline"}  (* "x" is any other one *)

VARIABLES
  argv,       (* the arguments: none, or a file (-l prints less)           *)
  pc,
  ent,        (* "nul" before the first byte                               *)
  insideWord, newLine, lcount, wcount, acount,
  seen,       (* the characters the loop has been through, each once       *)
  errors      (* reads that have failed                                    *)

counters == <<insideWord, newLine, lcount, wcount, acount>>
vars == <<argv, pc, ent, counters, seen, errors>>

Init ==
  /\ argv \in {"none", "file"} /\ pc = "open" /\ ent = "nul"
  /\ insideWord = FALSE /\ newLine = TRUE
  /\ lcount = 0 /\ wcount = 0 /\ acount = 0
  /\ seen = <<>> /\ errors = 0

(* Without arguments the file is the program itself. *)
Fopen ==
  /\ pc = "open"
  /\ pc' \in {"loop", "failed"}
  /\ UNCHANGED <<argv, ent, counters, seen, errors>>

(* What the loop does with a character. *)
InWord(c) == c \notin {"space", "newline"}

BlankEndsLine(c) == ~InWord(c)  (* mutant *)
EndsLine(c) == c = "newline"
AnyCharacter(c) == TRUE  (* mutant: the test is gone *)
StartsLine(c) == InWord(c) /\ newLine

Count(c) ==
  /\ insideWord' = InWord(c)
  /\ newLine' = (EndsLine(c) \/ (newLine /\ ~InWord(c)))
  /\ wcount' = IF InWord(c) /\ ~insideWord THEN wcount + 1 ELSE wcount
  /\ lcount' = IF StartsLine(c) THEN lcount + 1 ELSE lcount
  /\ acount' = acount + 1

Scan ==
  /\ pc = "loop" /\ Len(seen) < MaxLen
  /\ ent' \in Chars /\ Count(ent') /\ seen' = Append(seen, ent')
  /\ UNCHANGED <<argv, pc, errors>>

ScanFails ==
  /\ pc = "loop" /\ errors < MaxErrors
  /\ Count(ent)
  /\ seen' = IF seen = <<>> THEN <<ent>> ELSE seen
  /\ errors' = errors + 1
  /\ UNCHANGED <<argv, pc, ent>>

Feof ==
  /\ pc = "loop"
  /\ pc' = "print"
  /\ UNCHANGED <<argv, ent, counters, seen, errors>>

(* strcmp is handed argv[1], which is NULL if there is no argument. *)
PrintCounts ==
  /\ pc = "print"
  /\ pc' = IF argv = "none" THEN "crashed" ELSE "done"
  /\ UNCHANGED <<argv, ent, counters, seen, errors>>

Next == Fopen \/ Scan \/ ScanFails \/ Feof \/ PrintCounts
Spec == Init /\ [][Next]_vars

-----------------------------------------------------------------------------
TypeOK ==
  /\ argv \in {"none", "file"}
  /\ pc \in {"open", "loop", "print", "done", "failed", "crashed"}
  /\ ent \in Chars \cup {"nul"} /\ seen \in Seq(Chars \cup {"nul"})
  /\ insideWord \in BOOLEAN /\ newLine \in BOOLEAN
  /\ acount \in Nat /\ wcount \in 0 .. acount /\ lcount \in 0 .. wcount
  /\ errors \in 0 .. MaxErrors

(* Where a word starts in s, and where the text of a line does.             *)
StartsWord(s, k) == InWord(s[k]) /\ (k = 1 \/ ~InWord(s[k - 1]))

StartsText(s, k) ==
  /\ InWord(s[k])
  /\ \A j \in 1 .. k - 1 : InWord(s[j]) => \E m \in j + 1 .. k - 1 : s[m] = "newline"

Words(s) == {k \in DOMAIN s : StartsWord(s, k)}
Texts(s) == {k \in DOMAIN s : StartsText(s, k)}

StartedByError == seen # <<>> /\ seen[1] = "nul"

(* The words are the runs of characters other than ' ' and '\n', and the    *)
(* lines those that have any.  A read that fails counts no word or line     *)
(* twice: what the loop takes again is the character it has just taken.     *)
(* One that fails before the first byte makes a word of the 0 in ent; every *)
(* other one counts a character more.                                       *)
CountsMatch ==
  /\ wcount = Cardinality(Words(seen))
  /\ lcount = Cardinality(Texts(seen))
  /\ acount = Len(seen) + errors - (IF StartedByError THEN 1 ELSE 0)
=============================================================================
