--------------------------- MODULE MCFileReaders ---------------------------
(***************************************************************************)
(* The programs that read a file to its end: my-wc (WordCount), fetch of   *)
(* file_tester (FileFetch) and my-cat (Cat).  They have nothing in common  *)
(* but the question: a behaviour is one of the three, with the others at   *)
(* rest in one initial state.                                              *)
(***************************************************************************)
EXTENDS WordCount, FileFetch

CONSTANTS MAX_LINE_SIZE, CHAR_MAX, Arguments  (* of Cat *)

TextBytes == {"x", "newline", "nul"}  (* the Chars of Cat *)

ASSUME CatAssumption ==
  /\ MAX_LINE_SIZE \in Nat \ {0, 1} /\ CHAR_MAX \in Nat \ {0}
  /\ Arguments \subseteq Seq(Seq(TextBytes))

VARIABLES
  program,                                       (* the one that runs       *)
  catArgv, loop, catPc, catPos, out, ioError     (* of Cat                  *)

Cat == INSTANCE Cat WITH argv <- catArgv, pc <- catPc, pos <- catPos

catVars == <<catArgv, loop, catPc, catPos, out, ioError>>
allVars == <<program, vars, fetchVars, catVars>>

WcRests == argv = "none"
FetchRests == file = <<>>
CatRests == catArgv = <<>>

MCInit ==
  /\ Init /\ FetchInit /\ Cat!Init
  /\ \/ program = "my-wc" /\ FetchRests /\ CatRests
     \/ program = "file_tester" /\ WcRests /\ CatRests
     \/ program = "my-cat" /\ WcRests /\ FetchRests

WcStep ==
  /\ program = "my-wc" /\ Next
  /\ UNCHANGED <<program, fetchVars, catVars>>

FetchStep(A) ==
  /\ program = "file_tester" /\ A
  /\ UNCHANGED <<program, vars, catVars>>

CatStep ==
  /\ program = "my-cat" /\ Cat!Next
  /\ UNCHANGED <<program, vars, fetchVars>>

MCNext == WcStep \/ FetchStep(FetchNext) \/ CatStep

(* fetch goes on as long as it can: a read that cannot fill the page comes  *)
(* back all the same.  That a call fails is not relied on.                  *)
MCSpec == MCInit /\ [][MCNext]_allVars /\ WF_allVars(FetchStep(Fetch))

(* One file of up to five bytes, or up to four of one byte each.            *)
UpTo(len, S) == UNION {[1 .. k -> S] : k \in 0 .. len}
FewFiles == UpTo(4, {<<c>> : c \in TextBytes}) \cup UpTo(1, UpTo(5, TextBytes))

(* FetchEnds where fetch is run, and Cat!CopiesFiles. *)
FetchEndsHere == program = "file_tester" => FetchEnds
CopiesFiles == Cat!CopiesFiles
=============================================================================
