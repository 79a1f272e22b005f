---------------------------- MODULE HeapContract ----------------------------
(***************************************************************************)
(* What a client of MyMalloc and MyFree is promised: an accepted request   *)
(* is answered with an aligned block of the heap that shares no byte with  *)
(* the blocks the client still holds, and a block stays where it is until  *)
(* it is freed.                                                            *)
(***************************************************************************)
EXTENDS Integers

CONSTANTS Slots, Requests, Heap  (* the addresses of the heap *)

VARIABLES
  block,  (* what each of the client's pointers points to                  *)
  asked   (* the request under way, if there is one                        *)

vars == <<block, asked>>

NoBlock == [at |-> 0, bytes |-> 0]

Extent(b) == b.at .. b.at + b.bytes - 1

(* A block of no bytes may begin where the heap ends.                       *)
Aligned == {a \in Heap \cup {b + 1 : b \in Heap} : a % 8 = 0}

Init ==
  /\ block = [s \in Slots |-> NoBlock]
  /\ asked = {}

Ask(s, n) ==
  /\ asked = {} /\ block[s] = NoBlock
  /\ asked' = {[slot |-> s, bytes |-> n]}
  /\ UNCHANGED block

Answer ==
  \E q \in asked, p \in Aligned :
    LET b == [at |-> p, bytes |-> q.bytes]
    IN  /\ Extent(b) \subseteq Heap
        /\ \A s \in Slots : Extent(b) \cap Extent(block[s]) = {}
        /\ block' = [block EXCEPT ![q.slot] = b]
        /\ asked' = {}

Release(s) ==
  /\ asked = {} /\ block[s] # NoBlock
  /\ block' = [block EXCEPT ![s] = NoBlock]
  /\ UNCHANGED asked

Next == Answer \/ \E s \in Slots : Release(s) \/ \E n \in Requests : Ask(s, n)

Safety == Init /\ [][Next]_vars
Spec == Safety /\ WF_vars(Answer)
=============================================================================
