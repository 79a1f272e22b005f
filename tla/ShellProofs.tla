----------------------------- MODULE ShellProofs -----------------------------
(***************************************************************************)
(* Proofs about Shell, for every input and every size of the buffer: its   *)
(* types, that it runs commands in the foreground, and, if the input is    *)
(* not a file, that it reports the lines that failed and no other and      *)
(* implements Interpreter.                                                 *)
(***************************************************************************)
EXTENDS Shell, SequenceTheorems, TLAPS

Live == pc \in {"fork", "parent", "wait"}

(* Where the shell and its child can be together, and with which line. *)
Places ==
  /\ outer = "start" => pc = "unborn"
  /\ Live => got # 0 /\ Cmd # "empty"
  /\ child # "none" => got # 0 /\ pc \in {"parent", "wait", "ended", "crashed"}
  /\ pc = "wait" => Cmd \notin {"spaces", "exit"}
  /\ child = "program" => Cmd \in Programs

(* The shell stays in step with the offset if nothing is given back, so     *)
(* that it takes each line once; a line is run, and reported, only after it *)
(* was taken.  A cd that fails is reported before its child is waited for.  *)
Running == pc \in {"unborn", "read", "fork", "parent", "wait"}
Settled == IF Live THEN got - 1 ELSE got
CdFailed == pc = "wait" /\ Cmd = "badcd"

Reported ==
  /\ \A k \in failed : k \in 1 .. Settled \/ (CdFailed /\ k = got)
  /\ \A k \in 1 .. Settled : k \in unforked \/ (k \in failed <=> Failed(k))
  /\ CdFailed => got \in failed

Told ==
  /\ offset = filled
  /\ \A j \in DOMAIN ran : ran[j].line \in 1 .. got
  /\ pc = "fork" \/ child \in {"start", "program"} => \A j \in DOMAIN ran : ran[j].line # got
  /\ pc \in {"parent", "wait"} => child # "none" \/ got \in unforked
  /\ child = "zombie" /\ Cmd \notin {"spaces", "exit", "badcd"} => (status # 0 <=> Failed(got))
  /\ Running => Reported

(* What is run, and where, is what the lines up to the one under way say;   *)
(* what was not run no process could be created for.                        *)
Before == IF pc = "fork" \/ child \in {"start", "program"} THEN got - 1 ELSE got
HasRun(k) == \E j \in DOMAIN ran : ran[j].line = k
LastCd(lines, d, n) ==
  /\ d = 0 \/ (d \in 1 .. n /\ lines[d].cmd = "cd")
  /\ \A j \in 1 .. n : lines[j].cmd = "cd" => j <= d

Ran ==
  /\ outer = "start" => got = 0
  /\ Running => unforked \subseteq 1 .. got
  /\ pc = "fork" \/ child \in {"start", "program"} => got \notin unforked
  /\ child # "none" /\ pc \in {"ended", "crashed"} => Cmd \in {"exit", "spaces"}
  /\ Running => \A k \in 1 .. Before : input[k].cmd \in Programs => k \in unforked \/ HasRun(k)
  /\ Running => \A k \in 1 .. Settled : input[k].cmd # "exit"
  /\ Running => LastCd(input, cwd, IF pc \in {"fork", "parent"} THEN got - 1 ELSE got)
  /\ child = "program" /\ input[got].to = ">" => file = <<>>

Safe == TypeOK /\ Places
IInv == Safe /\ (~Seekable => Told /\ Ran)

-----------------------------------------------------------------------------
LEMMA MinOfTwo ==
  ASSUME NEW a \in Int, NEW b \in Int
  PROVE  Min({a, b}) = IF a <= b THEN a ELSE b
BY DEF Min

(* What the type invariant says of the input and of the numbers. *)
LEMMA InputFacts ==
  ASSUME TypeOK
  PROVE  /\ Len(input) \in Nat /\ DOMAIN input = 1 .. Len(input)
         /\ \A k \in DOMAIN input : input[k] \in Lines
         /\ offset \in Nat /\ filled \in Nat /\ got \in Nat /\ got <= filled
         /\ offset <= Len(input) /\ filled <= Len(input)
         /\ got # 0 => got \in DOMAIN input
<1>1. input \in Seq(Lines)
  BY ShellAssumption DEF TypeOK
<1>2. Len(input) \in Nat /\ DOMAIN input = 1 .. Len(input) /\ \A k \in DOMAIN input : input[k] \in Lines
  BY <1>1, LenProperties, ElementOfSeq
<1> QED
  BY <1>2 DEF TypeOK

LEMMA GiveBackType ==
  ASSUME TypeOK, GiveBack
  PROVE  offset' \in 0 .. Len(input) /\ (~Seekable => offset' = offset)
BY InputFacts DEF GiveBack

LEMMA InitSafe == Init => Safe
<1> SUFFICES ASSUME Init PROVE Safe
  OBVIOUS
<1>1. input \in Seq(Lines) /\ Len(input) \in Nat
  BY ShellAssumption, LenProperties DEF Init
<1>2. Absent \in Seq(0 .. Len(input))
  BY <1>1 DEF Absent
<1> QED
  BY <1>1, <1>2 DEF Init, Safe, TypeOK, Places, Live

(* The buffer after a line has been read. *)
LEMMA FgetsType ==
  ASSUME TypeOK, Fgets
  PROVE  /\ offset' \in 0 .. Len(input) /\ filled' \in 0 .. Len(input)
         /\ got' \in 0 .. filled' /\ got' # 0
         /\ UNCHANGED <<input, outer, child, status, exitStatus, effects>>
         /\ ~Seekable /\ offset = filled => offset' = filled' /\ got' = got + 1
<1>1. CASE Buffered /\ got' = got + 1 /\ UNCHANGED <<filled, offset>>
  BY <1>1, InputFacts DEF Buffered, Fgets
<1>2. CASE ~Buffered /\ got' = offset + 1 /\ filled' = Refill /\ offset' = filled'
  <2>1. Refill = IF offset + Block <= Len(input) THEN offset + Block ELSE Len(input)
    BY InputFacts, ShellAssumption, MinOfTwo DEF Refill
  <2>2. offset < Len(input)
    BY <1>2, InputFacts DEF Fgets, AtEof
  <2>3. offset \in Nat /\ Block \in Nat /\ Block >= 1 /\ Len(input) \in Nat /\ got \in Nat /\ filled \in Nat /\ got <= filled
    BY InputFacts, ShellAssumption
  <2>4. filled' \in 0 .. Len(input) /\ offset' = filled' /\ got' \in 0 .. filled' /\ got' # 0
    BY <1>2, <2>1, <2>2, <2>3
  <2>5. offset = filled => got' = got + 1
    BY <1>2, <2>3 DEF Buffered
  <2> QED
    BY <2>4, <2>5 DEF Fgets
<1> QED
  BY <1>1, <1>2 DEF Fgets

LEMMA ShellSafe == Safe /\ ShellStep => Safe'
<1> SUFFICES ASSUME Safe, ShellStep PROVE Safe'
  OBVIOUS
<1> USE InputFacts
<1>1. CASE Fgets
  <2>1. TypeOK'
    BY <1>1, FgetsType DEF Safe, TypeOK, Fgets, effects
  <2>2. child = "none"
    BY <1>1 DEF Safe, Places, Fgets
  <2>3. Places'
    BY <1>1, <2>2, FgetsType DEF Safe, Places, Live, Fgets, Cmd
  <2> QED
    BY <2>1, <2>3 DEF Safe
<1>2. CASE EndOfInput
  BY <1>2 DEF Safe, TypeOK, Places, Live, EndOfInput, stdin, effects, Cmd
<1>3. CASE Fork
  <2>1. got \in DOMAIN input
    BY <1>3 DEF Safe, Places, Live, Fork
  <2>2. TypeOK'
    BY <1>3, <2>1 DEF Safe, TypeOK, Fork, stdin
  <2>3. Places'
    BY <1>3 DEF Safe, TypeOK, Places, Live, Fork, stdin, Cmd
  <2> QED
    BY <2>2, <2>3 DEF Safe
<1>4. CASE Builtin
  <2>1. offset' \in 0 .. Len(input)
    BY <1>4, GiveBackType DEF Safe, TypeOK, Builtin
  <2>4. got \in DOMAIN input
    BY <1>4 DEF Safe, Places, Live, Builtin
  <2>2. TypeOK'
    BY <1>4, <2>1, <2>4 DEF Safe, TypeOK, Builtin
  <2>3. Places'
    BY <1>4 DEF Safe, Places, Live, Builtin, Cmd
  <2> QED
    BY <2>2, <2>3 DEF Safe
<1>5. CASE WaitForChild
  <2>1. got \in DOMAIN input
    BY <1>5 DEF Safe, Places, Live, WaitForChild
  <2>2. TypeOK'
    BY <1>5, <2>1 DEF Safe, TypeOK, WaitForChild, StatusAfterWait, stdin
  <2>3. Places'
    BY <1>5 DEF Safe, TypeOK, Places, Live, WaitForChild, WaitReturns, stdin, Cmd
  <2> QED
    BY <2>2, <2>3 DEF Safe
<1> QED
  BY <1>1, <1>2, <1>3, <1>4, <1>5 DEF ShellStep

LEMMA ParentSafe == Safe /\ Parent => Safe'
<1> SUFFICES ASSUME Safe, Parent PROVE Safe'
  OBVIOUS
<1>1. CASE Start
  <2>1. unforked' \subseteq DOMAIN input
    BY <1>1 DEF Safe, TypeOK, Start
  <2>2. TypeOK'
    BY <1>1, <2>1 DEF Safe, TypeOK, Start, stdin
  <2>3. child = "none" \/ pc' = "ended"
    BY <1>1 DEF Safe, Places, Start
  <2>4. Places'
    BY <1>1, <2>3 DEF Safe, TypeOK, Places, Live, Start, stdin, Cmd
  <2> QED
    BY <2>2, <2>4 DEF Safe
<1>2. CASE WaitForShell
  BY <1>2 DEF Safe, TypeOK, Places, Live, WaitForShell, stdin, effects, Cmd
<1> QED
  BY <1>1, <1>2 DEF Parent

LEMMA ChildSafe == Safe /\ ChildStep => Safe'
<1> SUFFICES ASSUME Safe, ChildStep PROVE Safe'
  OBVIOUS
<1> USE InputFacts
<1>0. child \in {"start", "program"}
  BY DEF ChildStep, ChildCrash, ChildExit, ChildExec, ExecFails, Program
<1>1. TypeOK /\ Places /\ got \in DOMAIN input
  BY <1>0 DEF Safe, Places
<1>2. ChildCrash \/ ChildExit \/ ExecFails \/ Program => Places'
  BY <1>1 DEF Places, Live, ChildCrash, ChildExit, ExecFails, Program, Leave, stdin, effects, Cmd
<1>3. ChildExec => Places'
  BY <1>1 DEF Places, Live, ChildExec, stdin, Cmd
<1>4. ChildCrash => TypeOK'
  BY <1>1 DEF TypeOK, ChildCrash, Leave, stdin, effects
<1>5. ChildExit => TypeOK'
  BY <1>1, GiveBackType DEF TypeOK, ChildExit, Leave, effects
<1>6. Opened \in Seq(0 .. Len(input))
  <2>1. Opened = <<>> \/ Opened = file
    BY DEF Opened
  <2>2. file \in Seq(0 .. Len(input)) /\ <<>> \in Seq(0 .. Len(input))
    BY <1>1 DEF TypeOK
  <2> QED
    BY <2>1, <2>2
<1>7. ASSUME ExecFails PROVE TypeOK'
  <2>1. offset' \in 0 .. Len(input)
    BY <1>1, <1>7, GiveBackType DEF ExecFails
  <2>2. file' \in Seq(0 .. Len(input))
    BY <1>6, <1>7 DEF ExecFails
  <2> QED
    BY <1>1, <1>7, <2>1, <2>2 DEF TypeOK, ExecFails, Leave
<1>8. ASSUME ChildExec PROVE TypeOK'
  <2>1. file' \in Seq(0 .. Len(input))
    BY <1>6, <1>8 DEF ChildExec
  <2> QED
    BY <1>1, <1>8, <2>1 DEF TypeOK, ChildExec, stdin
<1>9. ASSUME Program PROVE TypeOK'
  <2>1. ran' \in Seq([line : DOMAIN input, in : 0 .. Len(input)])
    BY <1>1, <1>9 DEF TypeOK, Program
  <2>2. file' \in Seq(0 .. Len(input))
    <3>1. file \in Seq(0 .. Len(input)) /\ got \in 0 .. Len(input)
      BY <1>1 DEF TypeOK
    <3>2. Append(file, got) \in Seq(0 .. Len(input))
      BY <3>1, AppendProperties
    <3>3. file' = Append(file, got) \/ file' = file
      BY <1>9 DEF Program
    <3> QED
      BY <3>1, <3>2, <3>3
  <2> QED
    BY <1>1, <1>9, <2>1, <2>2 DEF TypeOK, Program, Leave, stdin
<1> QED
  BY <1>2, <1>3, <1>4, <1>5, <1>7, <1>8, <1>9 DEF Safe, ChildStep

LEMMA NextSafe == Safe /\ [Next]_vars => Safe'
<1>1. Safe /\ UNCHANGED vars => Safe'
  BY DEF Safe, TypeOK, Places, Live, Cmd, vars
<1> QED
  BY <1>1, ParentSafe, ShellSafe, ChildSafe DEF Next

(* Every variable keeps its type, whatever is given back to the input.      *)
THEOREM ShellTypeCorrect == Spec => []TypeOK
<1>1. Safe => TypeOK
  BY DEF Safe
<1> QED
  BY <1>1, InitSafe, NextSafe, PTL DEF Spec

(* The shell asks for a line only when nothing of the last one is left.     *)
THEOREM RunsInForeground == Spec => []Foreground
<1>1. Safe => Foreground
  BY DEF Safe, Places, Foreground
<1> QED
  BY <1>1, InitSafe, NextSafe, PTL DEF Spec

-----------------------------------------------------------------------------
(* The lines that failed are the same when no line has been run. *)
LEMMA SameFailed ==
  ASSUME UNCHANGED <<input, ran>>, NEW k
  PROVE  Failed(k)' <=> Failed(k)
BY DEF Failed

LEMMA FgetsTold ==
  ASSUME Safe, Told, ~Seekable, Fgets
  PROVE  Told'
<1>1. TypeOK /\ pc = "read" /\ child = "none" /\ got \in Nat
  BY InputFacts DEF Safe, Places, Fgets
<1>2. /\ offset' = filled' /\ got' = got + 1 /\ pc' \in {"read", "fork"}
      /\ pc' = "read" => Cmd' = "empty"
      /\ UNCHANGED <<input, child, ran, failed, unforked>>
  BY <1>1, FgetsType DEF Fgets, Told, Cmd, effects
<1>3. Settled' = (IF pc' = "fork" THEN got ELSE got + 1) /\ Settled = got
  BY <1>1, <1>2 DEF Settled, Live
<1>4. \A k : Failed(k)' <=> Failed(k)
  BY <1>2, SameFailed
<1>5. pc' = "read" => ~Failed(got + 1)
  BY <1>2 DEF Failed, Cmd
<1>6. Reported'
  <2>1. /\ \A k \in failed : k \in 1 .. got
        /\ \A k \in 1 .. got : k \in unforked \/ (k \in failed <=> Failed(k))
    BY <1>1, <1>3 DEF Told, Running, Reported, CdFailed
  <2>2. ~CdFailed'
    BY <1>2 DEF CdFailed
  <2>3. CASE pc' = "fork"
    BY <1>2, <1>3, <1>4, <2>1, <2>2, <2>3 DEF Reported
  <2>4. CASE pc' = "read"
    <3>1. \A k : k \in 1 .. got + 1 <=> k \in 1 .. got \/ k = got + 1
      BY <1>1
    <3>2. got + 1 \notin 1 .. got
      BY <1>1
    <3> QED
      BY <1>2, <1>3, <1>4, <1>5, <2>1, <2>2, <2>4, <3>1, <3>2 DEF Reported
  <2> QED
    BY <1>2, <2>3, <2>4
<1>7. \A j \in DOMAIN ran' : ran'[j].line \in 1 .. got /\ ran'[j].line \in 1 .. got' /\ ran'[j].line # got'
  BY <1>1, <1>2 DEF Told
<1> QED
  BY <1>1, <1>2, <1>6, <1>7 DEF Told

(* Steps that run nothing, report nothing and take no line. *)
LEMMA QuietTold ==
  ASSUME Safe, Told, UNCHANGED <<input, offset, filled, got, ran, failed>>,
         unforked \subseteq unforked',
         pc' \in {"fork", "parent", "wait"} => pc \in {"fork", "parent", "wait"},
         pc' \in {"unborn", "read"} => pc \in {"unborn", "read"},
         Running' => (pc' = "wait" <=> pc = "wait"),
         pc' = "fork" \/ child' \in {"start", "program"} => pc = "fork" \/ child \in {"start", "program"},
         pc' \in {"parent", "wait"} => child' # "none" \/ got \in unforked',
         child' = "zombie" /\ Cmd \notin {"spaces", "exit", "badcd"} => (status' # 0 <=> Failed(got))
  PROVE  Told'
<1>1. \A k : Failed(k)' <=> Failed(k)
  BY SameFailed
<1>2. got' = got /\ Cmd' = Cmd
  BY DEF Cmd
<1>3. Running' => Running /\ Settled' = Settled /\ (CdFailed' <=> CdFailed)
  BY <1>2 DEF Running, Settled, Live, CdFailed
<1>4. Running' => Reported'
  BY <1>1, <1>2, <1>3 DEF Told, Reported
<1>5. child' = "zombie" /\ Cmd' \notin {"spaces", "exit", "badcd"} => (status' # 0 <=> Failed(got)')
  BY <1>1, <1>2
<1>6. /\ offset' = filled'
      /\ \A j \in DOMAIN ran' : ran'[j].line \in 1 .. got'
      /\ pc' = "fork" \/ child' \in {"start", "program"} => \A j \in DOMAIN ran' : ran'[j].line # got'
      /\ pc' \in {"parent", "wait"} => child' # "none" \/ got' \in unforked'
  BY DEF Told
<1> QED
  BY <1>4, <1>5, <1>6 DEF Told

LEMMA BuiltinTold ==
  ASSUME Safe, Told, ~Seekable, Builtin
  PROVE  Told'
<1>1. TypeOK /\ pc = "parent" /\ got \in Nat /\ got # 0
  BY InputFacts DEF Safe, Places, Live, Builtin
<1>2. /\ UNCHANGED <<input, offset, filled, got, child, status, unforked, ran>> /\ Cmd' = Cmd
      /\ failed' = IF Cmd = "badcd" THEN failed \cup {got} ELSE failed
      /\ pc' \in {"wait", "ended", "crashed"}
  BY DEF Builtin, GiveBack, Told, Cmd
<1>3. \A k : Failed(k)' <=> Failed(k)
  BY <1>2, SameFailed
<1>4. ASSUME pc' = "wait"
      PROVE  Reported'
  <2>1. Settled' = got - 1 /\ Settled = got - 1
    BY <1>1, <1>2, <1>4 DEF Settled, Live
  <2>2. (CdFailed' <=> Cmd = "badcd") /\ ~CdFailed
    BY <1>1, <1>2, <1>4 DEF CdFailed
  <2>3. /\ \A k \in failed : k \in 1 .. got - 1
        /\ \A k \in 1 .. got - 1 : k \in unforked \/ (k \in failed <=> Failed(k))
    BY <1>1, <2>1, <2>2 DEF Told, Running, Reported
  <2>4. got \notin 1 .. got - 1
    BY <1>1
  <2>5. \A k \in 1 .. got - 1 : k \in failed' <=> k \in failed
    BY <1>2, <2>4
  <2> QED
    BY <1>2, <1>3, <2>1, <2>2, <2>3, <2>5 DEF Reported
<1>5. child' = "zombie" /\ Cmd' \notin {"spaces", "exit", "badcd"} => (status' # 0 <=> Failed(got)')
  BY <1>2, <1>3 DEF Told
<1>6. /\ offset' = filled'
      /\ \A j \in DOMAIN ran' : ran'[j].line \in 1 .. got'
      /\ pc' = "fork" \/ child' \in {"start", "program"} => \A j \in DOMAIN ran' : ran'[j].line # got'
      /\ pc' \in {"parent", "wait"} => child' # "none" \/ got' \in unforked'
  BY <1>1, <1>2 DEF Told
<1> QED
  BY <1>2, <1>4, <1>5, <1>6 DEF Told, Running

LEMMA WaitTold ==
  ASSUME Safe, Told, ~Seekable, WaitForChild
  PROVE  Told'
<1>1. TypeOK /\ pc = "wait" /\ pc' = "read" /\ got \in Nat /\ got # 0 /\ Cmd \notin {"spaces", "exit"}
  BY InputFacts DEF Safe, Places, Live, WaitForChild
<1>2. /\ UNCHANGED <<input, offset, filled, got, ran, unforked>>
      /\ child' = "none" /\ child \in {"zombie", "none"}
      /\ failed' = failed \cup {got} \/ failed' = failed
      /\ child = "zombie" => failed' = IF status # 0 THEN failed \cup {got} ELSE failed
  BY DEF WaitForChild, WaitReturns, StatusAfterWait, stdin
<1>3. \A k : Failed(k)' <=> Failed(k)
  BY <1>2, SameFailed
<1>4. Settled' = got /\ Settled = got - 1 /\ ~CdFailed'
  BY <1>1, <1>2 DEF Settled, Live, CdFailed
<1>5. \A k : k \in 1 .. got <=> k \in 1 .. got - 1 \/ k = got
  BY <1>1
<1>6. got \notin 1 .. got - 1
  BY <1>1
<1>7. /\ \A k \in failed : k \in 1 .. got - 1 \/ (k = got /\ Cmd = "badcd")
      /\ \A k \in 1 .. got - 1 : k \in unforked \/ (k \in failed <=> Failed(k))
      /\ Cmd = "badcd" => got \in failed
  BY <1>1, <1>4 DEF Told, Running, Reported, CdFailed
<1>8. got \in unforked \/ (got \in failed' <=> Failed(got))
  <2>1. CASE Cmd = "badcd"
    BY <1>2, <1>7, <2>1 DEF Failed, Cmd
  <2>2. CASE Cmd # "badcd" /\ child = "zombie"
    BY <1>1, <1>2, <1>6, <1>7, <2>2 DEF Told
  <2>3. CASE child = "none"
    BY <1>1, <2>3 DEF Told
  <2> QED
    BY <1>2, <2>1, <2>2, <2>3
<1>9. Reported'
  BY <1>2, <1>3, <1>4, <1>5, <1>6, <1>7, <1>8 DEF Reported
<1>10. \A j \in DOMAIN ran' : ran'[j].line \in 1 .. got'
  BY <1>2 DEF Told
<1> QED
  BY <1>1, <1>2, <1>9, <1>10 DEF Told

LEMMA Appended ==
  ASSUME TypeOK, got # 0, Program
  PROVE  /\ DOMAIN ran = 1 .. Len(ran) /\ Len(ran) \in Nat /\ DOMAIN ran' = 1 .. Len(ran) + 1
         /\ ran'[Len(ran) + 1].line = got
         /\ \A j \in DOMAIN ran : ran'[j] = ran[j]
<1>1. ran \in Seq([line : DOMAIN input, in : 0 .. Len(input)]) /\ cwd \in 0 .. Len(input) /\ got \in DOMAIN input
  BY InputFacts DEF TypeOK
<1>2. DOMAIN ran = 1 .. Len(ran) /\ Len(ran) \in Nat
  BY <1>1, LenProperties
<1>3. ran' = Append(ran, [line |-> got, in |-> cwd])
  BY DEF Program
<1> QED
  BY <1>1, <1>2, <1>3, AppendProperties

LEMMA ProgramTold ==
  ASSUME Safe, Told, ~Seekable, Program
  PROVE  Told'
<1>1. /\ TypeOK /\ got \in Nat /\ got # 0 /\ Cmd \in Programs
      /\ pc \in {"parent", "wait", "ended", "crashed"} /\ child = "program"
  BY InputFacts DEF Safe, Places, Program
<1>2. /\ UNCHANGED <<input, offset, filled, got, pc, failed, unforked>> /\ Cmd' = Cmd
      /\ child' = "zombie" /\ status' = (IF Cmd = "run" THEN 0 ELSE 1)
      /\ ran' = Append(ran, [line |-> got, in |-> cwd])
  BY DEF Program, Leave, stdin, Cmd
<1>3. /\ DOMAIN ran = 1 .. Len(ran) /\ Len(ran) \in Nat /\ DOMAIN ran' = 1 .. Len(ran) + 1
      /\ ran'[Len(ran) + 1].line = got
      /\ \A j \in DOMAIN ran : ran'[j] = ran[j]
  BY <1>1, Appended
<1>4. \A k \in 1 .. got - 1 : Failed(k)' <=> Failed(k)
  BY <1>1, <1>2, <1>3 DEF Failed
<1>5. status' # 0 <=> Failed(got)'
  <2>1. CASE Cmd = "run"
    BY <1>2, <1>3, <2>1 DEF Failed, Cmd
  <2>2. CASE Cmd = "fail"
    BY <1>2, <2>2 DEF Failed, Cmd
  <2> QED
    BY <1>1, <2>1, <2>2 DEF Programs
<1>6. ASSUME pc \in {"parent", "wait"}
      PROVE  Reported'
  <2>1. Settled' = got - 1 /\ Settled = got - 1 /\ ~CdFailed /\ ~CdFailed'
    BY <1>1, <1>2, <1>6 DEF Settled, Live, CdFailed, Programs
  <2>2. /\ \A k \in failed : k \in 1 .. got - 1
        /\ \A k \in 1 .. got - 1 : k \in unforked \/ (k \in failed <=> Failed(k))
    BY <1>6, <2>1 DEF Told, Running, Reported
  <2> QED
    BY <1>2, <1>4, <2>1, <2>2 DEF Reported
<1>7. \A j \in DOMAIN ran' : ran'[j].line \in 1 .. got
  BY <1>1, <1>3 DEF Told
<1> QED
  BY <1>1, <1>2, <1>5, <1>6, <1>7 DEF Told, Running

LEMMA NextTold ==
  ASSUME Safe, Told, ~Seekable, [Next]_vars
  PROVE  Told'
<1>1. GiveBack => offset' = offset
  BY DEF GiveBack
<1>2. CASE Start \/ WaitForShell \/ EndOfInput \/ Fork \/ UNCHANGED vars
  BY <1>2, QuietTold DEF Safe, Places, Live, Running, Told, Start, WaitForShell, EndOfInput, Fork, stdin, effects, vars
<1>4. CASE ChildCrash \/ ChildExit \/ ChildExec \/ ExecFails
  BY <1>1, <1>4, QuietTold DEF Safe, Running, Told, Failed, Cmd, Programs, ChildCrash, ChildExit, ChildExec, ExecFails, Leave, stdin, effects
<1> QED
  BY <1>2, <1>4, FgetsTold, BuiltinTold, WaitTold, ProgramTold DEF Next, Parent, ShellStep, ChildStep

LEMMA InitTold == Init => Told
<1> SUFFICES ASSUME Init PROVE Told
  OBVIOUS
<1>1. DOMAIN ran = {} /\ 1 .. Settled = {}
  BY DEF Init, Settled, Live
<1>2. Reported
  BY <1>1 DEF Init, Reported, CdFailed
<1> QED
  BY <1>1, <1>2 DEF Init, Told

-----------------------------------------------------------------------------
LEMMA SameRan ==
  ASSUME UNCHANGED ran
  PROVE  \A k : HasRun(k)' <=> HasRun(k)
BY DEF HasRun

LEMMA FgetsRan ==
  ASSUME Safe, Told, Ran, ~Seekable, Fgets
  PROVE  Ran'
<1>1. TypeOK /\ pc = "read" /\ child = "none" /\ got \in Nat /\ outer # "start"
  BY InputFacts DEF Safe, Places, Fgets
<1>2. /\ got' = got + 1 /\ pc' \in {"read", "fork"}
      /\ pc' = "read" => input[got + 1].cmd = "empty"
      /\ UNCHANGED <<input, outer, child, cwd, ran, unforked>>
  BY <1>1, FgetsType DEF Fgets, Told, effects
<1>3. /\ Before' = (IF pc' = "fork" THEN got ELSE got + 1) /\ Before = got
      /\ Settled' = (IF pc' = "fork" THEN got ELSE got + 1) /\ Settled = got
  BY <1>1, <1>2 DEF Settled, Live, Before
<1>4. \A k \in 1 .. got + 1 : k \in 1 .. got \/ k = got + 1
  BY <1>1
<1>5. \A k : HasRun(k)' <=> HasRun(k)
  BY <1>2, SameRan
<1>6. unforked' \subseteq 1 .. got' /\ got' \notin unforked'
  BY <1>1, <1>2 DEF Ran, Running
<1>7. \A k \in 1 .. Before' : input'[k].cmd \in Programs => k \in unforked' \/ HasRun(k)'
  BY <1>1, <1>2, <1>3, <1>4, <1>5 DEF Ran, Running, Programs
<1>8. \A k \in 1 .. Settled' : input'[k].cmd # "exit"
  BY <1>1, <1>2, <1>3, <1>4 DEF Ran, Running
<1>9. LastCd(input, cwd, IF pc' = "fork" THEN got ELSE got + 1)
  <2>1. LastCd(input, cwd, got)
    BY <1>1 DEF Ran, Running
  <2>2. CASE pc' = "read"
    <3>1. \A k \in 1 .. got : k \in 1 .. got + 1
      BY <1>1
    <3> QED
      BY <1>2, <1>4, <2>1, <2>2, <3>1 DEF LastCd
  <2> QED
    BY <1>2, <2>1, <2>2
<1>11. LastCd(input', cwd', IF pc' \in {"fork", "parent"} THEN got' - 1 ELSE got')
  <2>1. CASE pc' = "fork"
    BY <1>1, <1>2, <1>9, <2>1
  <2>2. CASE pc' = "read"
    BY <1>1, <1>2, <1>9, <2>2
  <2> QED
    BY <1>2, <2>1, <2>2
<1> QED
  BY <1>1, <1>2, <1>6, <1>7, <1>8, <1>11 DEF Ran

(* The steps of the first process, the end of the input, and fork. *)
LEMMA StartRan ==
  ASSUME Safe, Told, Ran, Start
  PROVE  Ran'
<1>1. /\ outer' = "wait" /\ child = "none" /\ pc = "unborn"
      /\ UNCHANGED <<input, got, child, cwd, ran, file>>
      /\ pc' = "ended" \/ (pc' = "read" /\ UNCHANGED unforked)
  BY DEF Start, Safe, Places, stdin
<1>2. CASE pc' = "ended"
  BY <1>1, <1>2 DEF Ran, Running
<1>3. CASE pc' = "read" /\ UNCHANGED unforked
  <2>1. Before' = Before /\ Settled' = Settled
    BY <1>1, <1>3 DEF Before, Settled, Live
  <2>2. \A k : HasRun(k)' <=> HasRun(k)
    BY <1>1, SameRan
  <2> QED
    BY <1>1, <1>3, <2>1, <2>2 DEF Ran, Running
<1> QED
  BY <1>1, <1>2, <1>3

LEMMA EndRan ==
  ASSUME Safe, Ran, WaitForShell \/ EndOfInput \/ UNCHANGED vars
  PROVE  Ran'
<1>1. CASE UNCHANGED vars
  BY <1>1 DEF Ran, Running, HasRun, Before, Settled, Live, Cmd, vars
<1>2. CASE WaitForShell
  BY <1>2 DEF Ran, Running, Cmd, WaitForShell, stdin, effects
<1>3. CASE EndOfInput
  BY <1>3 DEF Safe, Places, Ran, Running, EndOfInput, stdin, effects
<1> QED
  BY <1>1, <1>2, <1>3

LEMMA ForkRan ==
  ASSUME Safe, Ran, Fork
  PROVE  Ran'
<1>1. got \in Nat /\ got # 0 /\ pc = "fork" /\ child = "none" /\ outer # "start"
  BY InputFacts DEF Safe, Places, Live, Fork
<1>2. /\ pc' = "parent" /\ UNCHANGED <<input, got, outer, cwd, ran, file>>
      /\ \/ child' = "start" /\ UNCHANGED unforked
         \/ child' = "none" /\ unforked' = unforked \cup {got}
  BY DEF Fork, stdin
<1>3. Settled' = got - 1 /\ Settled = got - 1 /\ Before = got - 1
  BY <1>1, <1>2 DEF Before, Settled, Live
<1>4. Before' = IF child' = "start" THEN got - 1 ELSE got
  BY <1>2 DEF Before
<1>5. \A k : HasRun(k)' <=> HasRun(k)
  BY <1>2, SameRan
<1>6. \A k \in 1 .. got : k \in 1 .. got - 1 \/ k = got
  BY <1>1
<1>7. unforked' \subseteq 1 .. got' /\ (child' = "start" => got' \notin unforked')
  BY <1>1, <1>2 DEF Ran, Running
<1>8. \A k \in 1 .. Before' : input'[k].cmd \in Programs => k \in unforked' \/ HasRun(k)'
  BY <1>1, <1>2, <1>3, <1>4, <1>5, <1>6 DEF Ran, Running
<1>9. /\ \A k \in 1 .. Settled' : input'[k].cmd # "exit"
      /\ LastCd(input', cwd', got' - 1)
  BY <1>1, <1>2, <1>3 DEF Ran, Running
<1> QED
  BY <1>1, <1>2, <1>7, <1>8, <1>9 DEF Ran

LEMMA BuiltinRan ==
  ASSUME Safe, Ran, Builtin
  PROVE  Ran'
<1>1. got \in Nat /\ got # 0 /\ pc = "parent" /\ outer # "start"
  BY InputFacts DEF Safe, Places, Live, Builtin
<1>2. /\ UNCHANGED <<input, got, outer, child, unforked, ran, file>> /\ Cmd' = Cmd
      /\ cwd' = IF Cmd = "cd" THEN got ELSE cwd
      /\ pc' = "wait" \/ (pc' \in {"ended", "crashed"} /\ Cmd \in {"spaces", "exit"})
  BY DEF Builtin, Cmd
<1>3. CASE pc' \in {"ended", "crashed"} /\ Cmd \in {"spaces", "exit"}
  BY <1>1, <1>2, <1>3 DEF Ran, Running
<1>4. CASE pc' = "wait"
  <2>1. Settled' = got - 1 /\ Settled = got - 1 /\ Before' = Before
    BY <1>1, <1>2, <1>4 DEF Before, Settled, Live
  <2>2. \A k : HasRun(k)' <=> HasRun(k)
    BY <1>2, SameRan
  <2>3. LastCd(input, cwd, got - 1)
    BY <1>1 DEF Ran, Running
  <2>4. \A k : k \in 1 .. got <=> k \in 1 .. got - 1 \/ k = got
    BY <1>1
  <2>5. \A j \in 1 .. got : j <= got
    BY <1>1
  <2>6. LastCd(input, cwd', got)
    BY <1>1, <1>2, <2>3, <2>4, <2>5 DEF LastCd, Cmd
  <2> QED
    BY <1>1, <1>2, <1>4, <2>1, <2>2, <2>6 DEF Ran, Running
<1> QED
  BY <1>2, <1>3, <1>4

LEMMA WaitRan ==
  ASSUME Safe, Ran, WaitForChild
  PROVE  Ran'
<1>1. got \in Nat /\ got # 0 /\ pc = "wait" /\ outer # "start" /\ Cmd # "exit"
  BY InputFacts DEF Safe, Places, Live, WaitForChild
<1>2. /\ pc' = "read" /\ child' = "none" /\ child \in {"zombie", "none"}
      /\ UNCHANGED <<input, got, outer, cwd, unforked, ran, file>>
  BY DEF WaitForChild, WaitReturns, stdin
<1>3. Settled' = got /\ Settled = got - 1 /\ Before' = got /\ Before = got
  BY <1>1, <1>2 DEF Before, Settled, Live
<1>4. \A k : HasRun(k)' <=> HasRun(k)
  BY <1>2, SameRan
<1>5. \A k \in 1 .. got : k \in 1 .. got - 1 \/ k = got
  BY <1>1
<1>6. \A k \in 1 .. Settled' : input'[k].cmd # "exit"
  BY <1>1, <1>2, <1>3, <1>5 DEF Ran, Running, Cmd
<1> QED
  BY <1>1, <1>2, <1>3, <1>4, <1>6 DEF Ran, Running

LEMMA ChildRan ==
  ASSUME Safe, Told, Ran, ChildStep
  PROVE  Ran'
<1>1. /\ TypeOK /\ got \in Nat /\ got # 0 /\ child \in {"start", "program"}
      /\ pc \in {"parent", "wait", "ended", "crashed"} /\ outer # "start"
  BY InputFacts DEF Safe, Places, ChildStep, ChildCrash, ChildExit, ChildExec, ExecFails, Program
<1>2. UNCHANGED <<input, got, outer, pc, cwd, unforked>> /\ Cmd' = Cmd
  BY DEF ChildStep, ChildCrash, ChildExit, ChildExec, ExecFails, Program, stdin, effects, Cmd
<1>3. Settled' = Settled /\ Before = got - 1
  BY <1>1, <1>2 DEF Settled, Live, Before
<1>4. \/ UNCHANGED ran /\ child' = "zombie" /\ Cmd \notin Programs
      \/ UNCHANGED ran /\ child' = "program" /\ child = "start" /\ file' = Opened
      \/ child' = "zombie" /\ HasRun(got)' /\ \A k : HasRun(k) => HasRun(k)'
  <2>1. CASE ChildCrash \/ ChildExit \/ ChildExec \/ ExecFails
    BY <2>1 DEF ChildCrash, ChildExit, ChildExec, ExecFails, Leave, effects, Programs
  <2>2. CASE Program
    <3>1. /\ Len(ran) \in Nat /\ DOMAIN ran = 1 .. Len(ran) /\ DOMAIN ran' = 1 .. Len(ran) + 1
          /\ ran'[Len(ran) + 1].line = got /\ \A j \in DOMAIN ran : ran'[j] = ran[j]
      BY <1>1, <2>2, Appended
    <3>2. got' = got /\ Len(ran) + 1 \in DOMAIN ran' /\ DOMAIN ran \subseteq DOMAIN ran'
      BY <1>2, <3>1
    <3>3. HasRun(got)' /\ \A k : HasRun(k) => HasRun(k)'
      BY <3>1, <3>2 DEF HasRun
    <3> QED
      BY <2>2, <3>3 DEF Program, Leave
  <2> QED
    BY <2>1, <2>2 DEF ChildStep
<1>5. Before' = IF child' = "program" THEN got - 1 ELSE got
  BY <1>1, <1>2, <1>4 DEF Before
<1>6. \A k \in 1 .. got : k \in 1 .. got - 1 \/ k = got
  BY <1>1
<1>7. Running => \A k \in 1 .. Before' : input'[k].cmd \in Programs => k \in unforked' \/ HasRun(k)'
  <2>1. Running => \A k \in 1 .. got - 1 : input[k].cmd \in Programs => k \in unforked \/ HasRun(k)
    BY <1>3 DEF Ran
  <2>2. \A k : HasRun(k) => HasRun(k)'
    BY <1>4, SameRan
  <2>3. child' = "program" \/ Cmd \notin Programs \/ HasRun(got)'
    BY <1>4
  <2> QED
    BY <1>2, <1>5, <1>6, <2>1, <2>2, <2>3 DEF Cmd
<1>8. child' = "program" /\ input'[got'].to = ">" => file' = <<>>
  BY <1>2, <1>4 DEF Opened
<1>9. Running' = Running
  BY <1>2 DEF Running
<1> QED
  BY <1>1, <1>2, <1>3, <1>4, <1>7, <1>8, <1>9 DEF Ran

LEMMA NextRan ==
  ASSUME Safe, Told, Ran, ~Seekable, [Next]_vars
  PROVE  Ran'
BY FgetsRan, StartRan, EndRan, ForkRan, BuiltinRan, WaitRan, ChildRan DEF Next, Parent, ShellStep

LEMMA InitRan == Init => Ran
<1> SUFFICES ASSUME Init PROVE Ran
  OBVIOUS
<1>1. Before = 0 /\ Settled = 0 /\ 1 .. 0 = {}
  BY DEF Init, Before, Settled, Live
<1>2. LastCd(input, 0, 0)
  BY <1>1 DEF LastCd
<1> QED
  BY <1>1, <1>2 DEF Init, Ran

(* IInv holds of every reachable state. *)
THEOREM ShellInvariance == Spec => []IInv
<1>1. Init => IInv
  BY InitSafe, InitTold, InitRan DEF IInv
<1>2. IInv /\ [Next]_vars => IInv'
  BY NextSafe, NextTold, NextRan DEF IInv
<1> QED
  BY <1>1, <1>2, PTL DEF Spec

(* Fed from a terminal or a pipe, the shell reports, of the lines it could  *)
(* create a process for, those that failed and no other: a cd to nowhere    *)
(* among them, and however the forks of other lines went.                   *)
THEOREM ReportsFailures == Spec => [](~Seekable => FailuresReported)
<1>1. IInv => (~Seekable => FailuresReported)
  BY DEF IInv, Told, Running, Reported, CdFailed, Settled, Live, FailuresReported
<1> QED
  BY <1>1, ShellInvariance, PTL

-----------------------------------------------------------------------------
(* Shell implements Interpreter.  A line whose child has it in hand is the  *)
(* next one to run: those before it have run or are skipped.                *)
LEMMA LeastIs ==
  ASSUME NEW S \in SUBSET Int, NEW m \in S, \A y \in S : m <= y
  PROVE  Contract!Min(S) = m
<1>1. \A x \in S : (\A y \in S : x <= y) => x = m
  OBVIOUS
<1>2. \E x \in S : \A y \in S : x <= y
  OBVIOUS
<1>3. Contract!Min(S) \in S /\ \A y \in S : Contract!Min(S) <= y
  BY <1>2 DEF Contract!Min
<1> QED
  BY <1>1, <1>3

LEMMA GreatestIs ==
  ASSUME NEW S \in SUBSET Int, NEW m \in S, \A y \in S : y <= m
  PROVE  Contract!Max(S) = m
<1>1. \A x \in S : (\A y \in S : x >= y) => x = m
  OBVIOUS
<1>2. \E x \in S : \A y \in S : x >= y
  OBVIOUS
<1>3. Contract!Max(S) \in S /\ \A y \in S : Contract!Max(S) >= y
  BY <1>2 DEF Contract!Max
<1> QED
  BY <1>1, <1>3

LEMMA InTurn ==
  ASSUME IInv, ~Seekable, child \in {"start", "program"}, Cmd \in Programs \cup {"noexec"}
  PROVE  /\ got \in DOMAIN input /\ Contract!Turn(got)
         /\ Cmd \in Programs => /\ got \in Contract!Pending
                               /\ Contract!Min(Contract!Pending) = got
                               /\ Contract!Directory(got) = cwd
<1>1. /\ TypeOK /\ got \in DOMAIN input /\ got \in Nat /\ DOMAIN input = 1 .. Len(input)
      /\ pc \in {"parent", "wait"} /\ got \notin unforked
  BY InputFacts DEF IInv, Safe, Places, Ran, Programs
<1>2. Settled = got - 1 /\ Before = got - 1
  BY <1>1 DEF Settled, Before, Live
<1>3. \A k \in 1 .. got : k \in 1 .. got - 1 \/ k = got
  BY <1>1
<1>4. \A j \in DOMAIN ran : ran[j].line \in 1 .. got /\ ran[j].line # got
  BY DEF IInv, Told
<1>5. \A j \in DOMAIN ran : ran[j].line < got
  BY <1>1, <1>4
<1>6. \A j \in 1 .. got : input[j].cmd # "exit"
  BY <1>1, <1>2, <1>3 DEF IInv, Ran, Running, Cmd, Programs
<1>7. \A k \in 1 .. got - 1 : k \notin Contract!Pending
  <2>1. \A k \in 1 .. got - 1 : input[k].cmd \in Programs => k \in unforked \/ HasRun(k)
    BY <1>1, <1>2 DEF IInv, Ran, Running
  <2> QED
    BY <2>1 DEF Contract!Pending, Contract!Unrun, Contract!Programs, Programs, HasRun
<1>8. Contract!Pending \in SUBSET Int /\ \A k \in Contract!Pending : got <= k
  <2>1. Contract!Pending \subseteq 1 .. Len(input)
    BY <1>1 DEF Contract!Pending, Contract!Unrun
  <2>2. \A k \in 1 .. Len(input) : k \in 1 .. got - 1 \/ got <= k
    BY <1>1
  <2> QED
    BY <1>7, <2>1, <2>2
<1>9. Contract!Turn(got)
  BY <1>1, <1>5, <1>6, <1>8 DEF Contract!Turn
<1>10. ASSUME Cmd \in Programs
       PROVE  /\ got \in Contract!Pending /\ Contract!Min(Contract!Pending) = got
              /\ Contract!Directory(got) = cwd
  <2>1. got \in Contract!Pending
    BY <1>1, <1>4, <1>6, <1>10 DEF Contract!Pending, Contract!Unrun, Contract!Programs, Programs, Cmd
  <2>2. Contract!Min(Contract!Pending) = got
    BY <1>8, <2>1, LeastIs
  <2>3. LastCd(input, cwd, got - 1) \/ LastCd(input, cwd, got)
    BY <1>1 DEF IInv, Ran, Running
  <2>4. input[got].cmd # "cd"
    BY <1>10 DEF Cmd, Programs
  <2> DEFINE S == {0} \cup {j \in 1 .. got : input[j].cmd = "cd"}
  <2>5. \A k \in 1 .. got - 1 : k \in 1 .. got
    BY <1>1
  <2>6. S \in SUBSET Int /\ cwd \in S /\ 0 <= cwd
    BY <1>1, <2>3, <2>5 DEF LastCd, TypeOK
  <2>7. \A y \in S : y <= cwd
    BY <1>1, <1>3, <2>3, <2>4, <2>6 DEF LastCd
  <2>8. Contract!Max(S) = cwd
    <3> HIDE DEF S
    <3> QED
      BY <2>6, <2>7, GreatestIs
  <2>9. Contract!Directory(got) = cwd
    BY <2>8 DEF Contract!Directory
  <2> QED
    BY <2>1, <2>2, <2>9
<1> QED
  BY <1>1, <1>9, <1>10

LEMMA ExecRefines ==
  ASSUME IInv, ~Seekable, ChildExec \/ ExecFails
  PROVE  [Contract!Next]_(Contract!vars)
<1>1. /\ child = "start" /\ Cmd \in Programs \cup {"noexec"} /\ file' = Opened
      /\ UNCHANGED <<input, ran, unforked>>
  BY DEF ChildExec, ExecFails, stdin
<1>2. CASE input[got].to # ">"
  BY <1>1, <1>2 DEF Opened, Contract!vars
<1>3. CASE input[got].to = ">"
  <2>1. file' = <<>>
    BY <1>1, <1>3 DEF Opened
  <2>2. Contract!Turn(got) /\ got \in DOMAIN input
    BY <1>1, InTurn
  <2> QED
    BY <1>1, <1>3, <2>1, <2>2 DEF Contract!Next, Contract!Open, Contract!Programs, Programs, Cmd
<1> QED
  BY <1>2, <1>3

LEMMA ProgramRefines ==
  ASSUME IInv, ~Seekable, Program
  PROVE  Contract!Run
<1>1. /\ child = "program" /\ Cmd \in Programs /\ TypeOK
      /\ ran' = Append(ran, [line |-> got, in |-> cwd])
      /\ UNCHANGED <<input, unforked>>
  BY DEF IInv, Safe, Places, Program, stdin
<1>2. /\ got \in DOMAIN input /\ got \in Contract!Pending
      /\ Contract!Min(Contract!Pending) = got /\ Contract!Directory(got) = cwd
  BY <1>1, InTurn
<1>3. file' = Contract!Written(file, got)
  <2>1. input[got].to \in {"", ">", ">>"}
    BY <1>1, <1>2, InputFacts DEF Lines
  <2>2. CASE input[got].to = ">"
    <3>1. file = <<>>
      BY <1>1, <2>2 DEF IInv, Ran
    <3>2. file # Absent
      BY <3>1 DEF Absent
    <3>3. Append(file, got) = <<got>>
      BY <3>1, <1>1, InputFacts
    <3> QED
      BY <2>2, <3>2, <3>3 DEF Program, Redirected, Contract!Written
  <2>3. CASE input[got].to # ">"
    BY <2>1, <2>3 DEF Program, Redirected, Contract!Written
  <2> QED
    BY <2>2, <2>3
<1> QED
  BY <1>1, <1>2, <1>3 DEF Contract!Run

(* A process that cannot be created: the shell itself, or a line's. *)
LEMMA NoProcessRefines ==
  ASSUME IInv, ~Seekable, Start \/ Fork
  PROVE  [Contract!Next]_(Contract!vars)
<1> DEFINE K == {k \in unforked' : input[k].cmd \in Programs} \ unforked
<1>1. UNCHANGED <<input, ran, file>>
  BY DEF Start, Fork, stdin
<1>2. unforked \subseteq unforked'
  <2>1. CASE Start
    BY <2>1 DEF IInv, Safe, TypeOK, Start
  <2>2. CASE Fork
    BY <2>2 DEF Fork
  <2> QED
    BY <2>1, <2>2
<1>3. \A k \in K : k \in DOMAIN input /\ \A j \in DOMAIN ran : ran[j].line # k
  <2>1. CASE Start
    <3>1. got = 0 /\ \A j \in DOMAIN ran : ran[j].line \in 1 .. got
      BY <2>1 DEF IInv, Ran, Told, Start
    <3>2. DOMAIN ran = {}
      <4>1. 1 .. got = {}
        BY <3>1
      <4> QED
        BY <3>1, <4>1, Zenon
    <3> QED
      BY <2>1, <3>2 DEF IInv, Safe, TypeOK, Start
  <2>2. CASE Fork
    <3>1. K \subseteq {got} /\ got \in DOMAIN input
      BY <2>2, InputFacts DEF IInv, Safe, Places, Live, Fork
    <3> QED
      BY <2>2, <3>1 DEF IInv, Told, Fork
  <2> QED
    BY <2>1, <2>2
<1>4. K \in SUBSET Contract!Unrun
  BY <1>3 DEF Contract!Unrun, Contract!Programs, Programs
<1>5. {k \in unforked' : input'[k].cmd \in Programs} = {k \in unforked : input[k].cmd \in Programs} \cup K
  BY <1>1, <1>2
<1>6. CASE K = {}
  BY <1>1, <1>5, <1>6 DEF Contract!vars
<1>7. CASE K # {}
  <2> HIDE DEF K
  <2> QED
    BY <1>1, <1>4, <1>5, <1>7 DEF Contract!Next, Contract!Skip
<1> QED
  BY <1>6, <1>7

LEMMA OtherStepsRefine ==
  ASSUME [Next]_vars, ~(ChildExec \/ ExecFails \/ Program \/ Start \/ Fork)
  PROVE  UNCHANGED Contract!vars
<1>1. UNCHANGED <<input, ran, unforked, file>>
  BY DEF Next, Parent, ShellStep, ChildStep, WaitForShell, Fgets, EndOfInput, Builtin, WaitForChild,
         ChildCrash, ChildExit, stdin, effects, vars
<1> QED
  BY <1>1 DEF Contract!vars

(* Fed from a terminal or a pipe, the shell runs the programs of its input  *)
(* it can create a process for once each and in order, up to the first      *)
(* exit, in the directory the last cd names, and redirects as the lines say *)
(* (that it gets to the end of them is the rest of ContractSpec).           *)
THEOREM RunsThePrograms ==
  ASSUME ~Seekable
  PROVE  Spec => Contract!Safety
<1>1. Init => Contract!Init
  BY ShellAssumption DEF Init, Contract!Init
<1>2. IInv /\ [Next]_vars => [Contract!Next]_(Contract!vars)
  BY ExecRefines, ProgramRefines, NoProcessRefines, OtherStepsRefine DEF Contract!Next
<1> QED
  BY <1>1, <1>2, ShellInvariance, PTL DEF Spec, Contract!Safety
=============================================================================
