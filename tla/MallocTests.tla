----------------------------- MODULE MallocTests -----------------------------
(***************************************************************************)
(* The programs of proj1_malloc that test the allocator, each as the list  *)
(* of the calls it makes, run against MyMalloc.  Their tests of a result   *)
(* for NULL have no part in it: no call returns NULL.                      *)
(***************************************************************************)
EXTENDS MyMalloc, Sequences

CONSTANT Programs  (* those that are run *)

VARIABLES
  program,  (* the one under way                                           *)
  at        (* the call it makes next                                      *)

testVars == <<vars, program, at>>

Malloc(p, n) == [op |-> "malloc", p |-> p, n |-> n]
MFree(p) == [op |-> "free", p |-> p, n |-> 0]
Store(p) == [op |-> "store", p |-> p, n |-> 0]

-----------------------------------------------------------------------------
(* array, ar1, ar2, ar3 and ar4 are 0 to 4; the string goes to array.       *)
simpletest1 ==
  <<Malloc(0, 16), Malloc(1, 32), Malloc(2, 256), Malloc(3, 128), Malloc(4, 256),
    MFree(1), MFree(3), Store(0), MFree(0)>>

(* a1, a2, a3 and a4. *)
simpletest2 ==
  <<Malloc(1, 128), Malloc(2, 32), MFree(1), Malloc(3, 104), Malloc(4, 8),
    MFree(2), MFree(3), MFree(4)>>

(* testmymalloc.c.  Its fourth quarter is never freed and its pointer       *)
(* overwritten by Multiples: the block keeps a slot of its own.             *)
Quarter == MAX_MALLOC_SIZE \div 4
Forgotten == 6

Quarters ==
  <<Malloc(0, Quarter), Malloc(1, Quarter), Malloc(2, Quarter), Malloc(Forgotten, Quarter),
    MFree(0), MFree(2), MFree(1)>>

Resplit ==
  <<Malloc(0, Quarter), Malloc(1, Quarter \div 2), MFree(0), MFree(1),
    Malloc(0, Quarter - 1), MFree(0)>>

Multiples ==
  [i \in 1 .. 6 |-> Malloc(i - 1, 100)]
  \o <<MFree(0), MFree(2), MFree(4), MFree(1), MFree(5), MFree(3)>>

testmymalloc == Quarters \o Resplit \o Multiples

Script == CASE program = "simpletest1" -> simpletest1
            [] program = "simpletest2" -> simpletest2
            [] program = "testmymalloc" -> testmymalloc

-----------------------------------------------------------------------------
TestInit == Init /\ slot = 0 /\ program \in Programs /\ at = 1

Ended == at > Len(Script) /\ pc = "idle"

TestCall ==
  /\ at <= Len(Script)
  /\ LET c == Script[at]
     IN  \/ c.op = "malloc" /\ MyMalloc(c.p, c.n)
         \/ c.op = "free" /\ Free(c.p)
         \/ c.op = "store" /\ \E d \in UserData : Fill(c.p, d)
  /\ at' = at + 1
  /\ UNCHANGED program

TestNext == TestCall \/ (Allocator /\ UNCHANGED <<program, at>>)

(* A program of one thread goes on as long as it can. *)
TestSpec == TestInit /\ [][TestNext]_testVars /\ WF_testVars(TestNext)

(* "free it all -- notice that a1 is already free", "made it -- passed      *)
(* test": each of the programs comes to its last line.                      *)
EveryTestEnds == <>Ended
=============================================================================
