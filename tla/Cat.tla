--------------------------------- MODULE Cat ---------------------------------
(***************************************************************************)
(* miscCode/my-cat.c: the named files printed one after the other, a line, *)
(* or as much of one as buf holds, at a time.                              *)
(***************************************************************************)
EXTENDS Integers, Sequences

CONSTANTS
  MAX_LINE_SIZE,  (* bytes of buf, more than 1                             *)
  CHAR_MAX,       (* of a char with a sign                                 *)
  Arguments       (* what may follow the program's name: texts of files    *)

Chars == {"x", "newline", "nul"}  (* "x" is any other one *)

VARIABLES
  argv,     (* the files, from argv[1] on                                  *)
  loop,     (* the one that is printed                                     *)
  pc,       (* "wild": argv is indexed with a negative number              *)
  pos,      (* bytes of it that have been read                             *)
  out,      (* stdout: of each byte the argument and the position in it    *)
  ioError   (* a read has failed                                           *)

vars == <<argv, loop, pc, pos, out, ioError>>

Init ==
  /\ argv \in Arguments
  /\ loop = 1 /\ pc = "loop" /\ pos = 0 /\ out = <<>> /\ ioError = FALSE

(* loop++ on a char. *)
Incr(i) == IF i = CHAR_MAX THEN -CHAR_MAX - 1 ELSE i + 1

Usage ==
  /\ pc = "loop" /\ argv = <<>>
  /\ pc' = "usage"
  /\ UNCHANGED <<argv, loop, pos, out, ioError>>

OneLess(i) == i < Len(argv)  (* mutant *)
Remains(i) == i <= Len(argv)

Fopen ==
  /\ pc = "loop" /\ argv # <<>> /\ Remains(loop)
  /\ IF loop < 1 THEN pc' = "wild" ELSE pc' \in {"read", "failed"}
  /\ UNCHANGED <<argv, loop, pos, out, ioError>>

(* fgets reads on up to byte e: to the end of a line or of the file, or     *)
(* until buf has only the place of the '\0' left.                           *)
EndsAt(text, k) ==
  text[k] = "newline" \/ k = Len(text) \/ k = pos + MAX_LINE_SIZE - 1

PieceEnd(text, e) == EndsAt(text, e) /\ \A j \in pos + 1 .. e - 1 : ~EndsAt(text, j)

(* "%s" prints up to the first '\0'. *)
Printed(text, e, p) ==
  /\ \A j \in pos + 1 .. p : text[j] # "nul"
  /\ p < e => text[p + 1] = "nul"

Fgets ==
  /\ pc = "read"
  /\ LET text == argv[loop]
     IN  /\ pos < Len(text)
         /\ \E e \in pos + 1 .. Len(text), p \in pos .. Len(text) :
              /\ p <= e /\ PieceEnd(text, e) /\ Printed(text, e, p)
              /\ pos' = e
              /\ out' = out \o [k \in 1 .. p - pos |-> <<loop, pos + k>>]
  /\ UNCHANGED <<argv, loop, pc, ioError>>

(* fgets returns NULL at the end of the file, and also when a read fails.   *)
NextFile == pc' = "loop" /\ loop' = Incr(loop) /\ pos' = 0

FgetsEof ==
  /\ pc = "read" /\ pos = Len(argv[loop])
  /\ NextFile
  /\ UNCHANGED <<argv, out, ioError>>

FgetsFails ==
  /\ pc = "read"
  /\ NextFile /\ ioError' = TRUE
  /\ UNCHANGED <<argv, out>>

Return ==
  /\ pc = "loop" /\ argv # <<>> /\ ~Remains(loop)
  /\ pc' = "done"
  /\ UNCHANGED <<argv, loop, pos, out, ioError>>

Next == Usage \/ Fopen \/ Fgets \/ FgetsEof \/ FgetsFails \/ Return
Spec == Init /\ [][Next]_vars

-----------------------------------------------------------------------------
(* What there is to see of a file: its lines, each up to its first '\0'.    *)
Hidden(text, k) ==
  \E n \in 1 .. k : text[n] = "nul" /\ \A m \in n .. k - 1 : text[m] # "newline"
Shown(args, i, len) == {<<i, k>> : k \in {j \in 1 .. len : ~Hidden(args[i], j)}}
ShownUpTo(args, i) == UNION {Shown(args, j, Len(args[j])) : j \in 1 .. i}

(* With a '\0' in a line that buf does not hold, more of the line shows.    *)
FitsBuf(text) == Len(text) < MAX_LINE_SIZE \/ \A k \in DOMAIN text : text[k] # "nul"

(* The output is the bytes of S, each once, in the order of the arguments.  *)
Comes(a, b) == a[1] < b[1] \/ (a[1] = b[1] /\ a[2] < b[2])
Prints(output, S) ==
  /\ \A i, j \in DOMAIN output : i < j => Comes(output[i], output[j])
  /\ {output[i] : i \in DOMAIN output} = S

(* Unless a read fails, my-cat has printed, when it ends, every file it was *)
(* given, and when it gives up every one before the one it cannot open;     *)
(* and it never looks outside argv, unless there are more arguments than a  *)
(* char counts.                                                             *)
CopiesFiles ==
  /\ ~ioError /\ (\A i \in DOMAIN argv : FitsBuf(argv[i])) =>
       /\ pc = "done" => Prints(out, ShownUpTo(argv, Len(argv)))
       /\ pc = "failed" => Prints(out, ShownUpTo(argv, loop - 1))
  /\ pc = "wild" => Len(argv) >= CHAR_MAX
=============================================================================
