------------------------------ MODULE MyMalloc ------------------------------
(***************************************************************************)
(* proj1_malloc/my_malloc.c: a first-fit allocator over BigBuffer, with a  *)
(* free list threaded through the headers of the free blocks, and the      *)
(* client that calls it.                                                   *)
(*                                                                         *)
(* Memory is the words of BigBuffer: a header is four of them and the      *)
(* bytes of a block are the others, so a stale link, a header field that   *)
(* was never written and a client write past its block all do what they    *)
(* do in the program.  A step that would touch memory outside BigBuffer as *)
(* a header (a NULL or wild dereference) has no outcome: the process is    *)
(* dead, and nothing is enabled.                                           *)
(***************************************************************************)
EXTENDS Integers

CONSTANTS
  MAX_MALLOC_SIZE,  (* bytes of BigBuffer                                  *)
  BigBuffer,        (* its address                                         *)
  Slots,            (* the pointers the client can hold                    *)
  Requests,         (* the sizes it asks for                               *)
  UserData          (* what it may store in a word of a block              *)

HEADER_SIZE == 32
NULL == 0

ASSUME MemoryAssumption ==
  /\ MAX_MALLOC_SIZE \in Nat /\ MAX_MALLOC_SIZE % 8 = 0 /\ MAX_MALLOC_SIZE >= HEADER_SIZE
  /\ BigBuffer \in Nat /\ BigBuffer % 8 = 0 /\ BigBuffer >= 256
ASSUME ClientAssumption == Requests \subseteq Nat /\ UserData \subseteq Int

End == BigBuffer + MAX_MALLOC_SIZE
Words == {a \in BigBuffer .. End - 1 : a % 8 = 0}
Headers == {a \in Words : a + HEADER_SIZE <= End}

(* Offsets of the fields of ListNode_t. *)
left == 0
right == 8
size == 16
buffer == 24

VARIABLES
  mem,    (* the words of BigBuffer                                        *)
  head,   (* the free list                                                 *)
  pc,     (* "idle", or the loop of MyMalloc or MyFree control is in       *)
  tmp,    (* tmpHead                                                       *)
  arg,    (* the rounded size of MyMalloc, or the node of MyFree           *)
  slot,   (* where the client keeps the result of the call                 *)
  ptr,    (* the client's pointers, NULL when it holds none                *)
  req     (* the bytes it asked for                                        *)

vars == <<mem, head, pc, tmp, arg, slot, ptr, req>>

Init ==  (* InitMyMalloc, over zeroed memory *)
  /\ head = BigBuffer
  /\ mem = [a \in Words |-> CASE a = head + buffer -> head + HEADER_SIZE
                              [] a = head + size -> MAX_MALLOC_SIZE - HEADER_SIZE
                              [] OTHER -> 0]
  /\ pc = "idle" /\ tmp = NULL /\ arg = 0
  /\ slot \in Slots
  /\ ptr = [s \in Slots |-> NULL] /\ req = [s \in Slots |-> 0]

-----------------------------------------------------------------------------
RoundedDown(sz) == (sz \div 8) * 8  (* mutant *)
FixAlignment8Bytes(sz) == ((sz + 7) \div 8) * 8

(* _CoalesceFreeNodes: a block adjoins the next one if its end, counted     *)
(* from its buffer field, is the address of the next.                       *)
Adjoins(m, node) == m[node + buffer] + m[node + size] = m[node + right]

Merged(m, node, next) ==
  [m EXCEPT ![node + size] = @ + m[next + size], ![node + right] = m[next + right]]

CoalesceFreeNodes(m, node) ==
  LET l == m[node + left]
      r == m[node + right]
      n == IF l # NULL THEN l ELSE node
      m1 == IF l # NULL /\ Adjoins(m, l) THEN Merged(m, l, node) ELSE m
  IN  \/ ~Adjoins(m1, n) /\ mem' = m1
      \/ Adjoins(m1, n) /\ r \in Headers /\ mem' = Merged(m1, n, r)

(* The allocator is back in its client. *)
Return == pc' = "idle" /\ tmp' = NULL /\ arg' = 0

-----------------------------------------------------------------------------
(* The client asks for n bytes. *)
MyMalloc(s, n) ==
  /\ pc = "idle" /\ ptr[s] = NULL
  /\ pc' = "scan" /\ tmp' = head /\ arg' = FixAlignment8Bytes(n)
  /\ slot' = s /\ req' = [req EXCEPT ![s] = n]
  /\ UNCHANGED <<mem, head, ptr>>

(* The loop of _FirstFitAlgorithm, and the block it ends on: the first that *)
(* is large enough, or the last one.                                        *)
Skip == mem[tmp + right] # NULL /\ arg > mem[tmp + size]
Found == pc = "scan" /\ tmp \in Headers /\ ~Skip

FirstFitStep ==
  /\ pc = "scan" /\ tmp \in Headers /\ Skip
  /\ tmp' = mem[tmp + right]
  /\ UNCHANGED <<mem, head, pc, arg, slot, ptr, req>>

(* _ProcessNodeFound, in the order of its writes. *)
NewSizeWithHeader == mem[tmp + size] - arg  (* mutant *)
NewSize == mem[tmp + size] - arg - HEADER_SIZE
NewNode == tmp + HEADER_SIZE + arg

(* tmpHead->size = size first, the other fields of the header last. *)
Sized == [mem EXCEPT ![tmp + size] = arg]
AllocatedHeader(m) ==  (* mutant: returns the header, not the buffer *)
  /\ mem' = [m EXCEPT ![tmp + left] = NULL, ![tmp + right] = NULL,
                      ![tmp + buffer] = tmp + HEADER_SIZE]
  /\ ptr' = [ptr EXCEPT ![slot] = tmp]
  /\ Return
  /\ UNCHANGED <<slot, req>>
Allocated(m) ==
  /\ mem' = [m EXCEPT ![tmp + left] = NULL, ![tmp + right] = NULL,
                      ![tmp + buffer] = tmp + HEADER_SIZE]
  /\ ptr' = [ptr EXCEPT ![slot] = tmp + HEADER_SIZE]
  /\ Return
  /\ UNCHANGED <<slot, req>>

TakeHeadWhole ==
  /\ Found /\ tmp = head /\ NewSize < 0
  /\ head' = NULL
  /\ Allocated(Sized)

TakeHeadSplit ==
  /\ Found /\ tmp = head /\ NewSize >= 0 /\ NewNode \in Headers
  /\ head' = NewNode
  /\ Allocated([Sized EXCEPT ![NewNode + size] = NewSize,
                             ![NewNode + right] = mem[tmp + right],
                             ![NewNode + left] = NULL])

(* tmpHead->left->right = new; if (tmpHead->right) tmpHead->right->left = back *)
Relinked(m, new, back) ==
  LET m1 == [m EXCEPT ![m[tmp + left] + right] = new]
      r == m1[tmp + right]
  IN  IF r # NULL THEN [m1 EXCEPT ![r + left] = back] ELSE m1

Linked == mem[tmp + left] \in Headers /\ mem[tmp + right] \in Headers \cup {NULL}

TakeInnerWhole ==
  /\ Found /\ tmp # head /\ NewSize < 0 /\ Linked
  /\ Allocated(Relinked(Sized, mem[tmp + right], mem[tmp + left]))
  /\ UNCHANGED head

TakeInnerSplit ==
  /\ Found /\ tmp # head /\ NewSize >= 0 /\ NewNode \in Headers /\ Linked
  /\ Allocated(Relinked([Sized EXCEPT ![NewNode + size] = NewSize,
                                      ![NewNode + left] = mem[tmp + left],
                                      ![NewNode + right] = mem[tmp + right]],
                        NewNode, NewNode))
  /\ UNCHANGED head

-----------------------------------------------------------------------------
(* The client gives its block back.  The test against -248L lets every      *)
(* address of BigBuffer through.                                            *)
FreeSlot(s) ==
  /\ pc = "idle" /\ ptr[s] # NULL
  /\ ptr' = [ptr EXCEPT ![s] = NULL] /\ req' = [req EXCEPT ![s] = 0]
  /\ UNCHANGED slot

Node(s) == ptr[s] - HEADER_SIZE

FreeIntoEmpty(s) ==
  /\ FreeSlot(s) /\ head = NULL
  /\ head' = Node(s)
  /\ mem' = [mem EXCEPT ![Node(s) + right] = NULL, ![Node(s) + left] = NULL]
  /\ UNCHANGED <<pc, tmp, arg>>

FreeInFront(s) ==
  /\ FreeSlot(s) /\ head # NULL /\ head >= Node(s)
  /\ head' = Node(s)
  /\ CoalesceFreeNodes([mem EXCEPT ![head + left] = Node(s),
                                   ![Node(s) + right] = head,
                                   ![Node(s) + left] = NULL], Node(s))
  /\ UNCHANGED <<pc, tmp, arg>>

FreeBehind(s) ==
  /\ FreeSlot(s) /\ head # NULL /\ head < Node(s)
  /\ pc' = "insert" /\ tmp' = head /\ arg' = Node(s)
  /\ UNCHANGED <<mem, head>>

BeforeEnd == mem[tmp + right] < arg  (* mutant *)
AfterNode == mem[tmp + right] # NULL /\ mem[tmp + right] > arg  (* mutant *)
Before == mem[tmp + right] # NULL /\ mem[tmp + right] < arg

InsertStep ==
  /\ pc = "insert" /\ tmp \in Headers /\ Before
  /\ tmp' = mem[tmp + right]
  /\ UNCHANGED <<mem, head, pc, arg, slot, ptr, req>>

InsertNode ==
  /\ pc = "insert" /\ tmp \in Headers /\ ~Before
  /\ CoalesceFreeNodes([mem EXCEPT ![arg + right] = mem[tmp + right],
                                   ![tmp + right] = arg,
                                   ![arg + left] = tmp], arg)
  /\ Return
  /\ UNCHANGED <<head, slot, ptr, req>>

(* The client fills the bytes it asked for; those outside BigBuffer belong  *)
(* to other variables and are not followed.                                 *)
DataWords(s) == {a \in Words : ptr[s] <= a /\ a < ptr[s] + req[s]}

Fill(s, d) ==
  /\ pc = "idle" /\ ptr[s] # NULL
  /\ mem' = [a \in Words |-> IF a \in DataWords(s) THEN d ELSE mem[a]]
  /\ UNCHANGED <<head, pc, tmp, arg, slot, ptr, req>>

Allocator ==
  \/ FirstFitStep \/ TakeHeadWhole \/ TakeHeadSplit \/ TakeInnerWhole \/ TakeInnerSplit
  \/ InsertStep \/ InsertNode

Free(s) == FreeIntoEmpty(s) \/ FreeInFront(s) \/ FreeBehind(s)

Client(s) ==
  \/ \E n \in Requests : MyMalloc(s, n)
  \/ Free(s)
  \/ \E d \in UserData : Fill(s, d)

Next == Allocator \/ \E s \in Slots : Client(s)

Spec == Init /\ [][Next]_vars

(* The blocks reached from h in memory m; disjoint blocks are HEADER_SIZE   *)
(* bytes apart at least, which bounds the length of a list of them.         *)
Longest == MAX_MALLOC_SIZE \div HEADER_SIZE
ListFrom(m, h) ==
  LET Reach[k \in 0 .. Longest] ==
        IF k = 0 THEN {h} \cap Headers
                 ELSE LET near == Reach[k - 1]
                      IN  near \cup ({m[a + right] : a \in near} \cap Headers)
  IN  Reach[Longest]

FreeBlocks == ListFrom(mem, head)

(* The block of the list F the first fit for sz bytes ends on.  The list is *)
(* sorted, so that the first one is the lowest.                             *)
Stops(a, sz) == mem[a + right] = NULL \/ mem[a + size] >= sz
FirstFit(F, b, sz) == Stops(b, sz) /\ \A a \in F : a < b => ~Stops(a, sz)

(* A request the free list can serve. *)
Fits(n) ==
  LET F == FreeBlocks
      sz == FixAlignment8Bytes(n)
  IN  \E b \in F : FirstFit(F, b, sz) /\ mem[b + size] >= sz

(* What the allocator also relies on without testing it: the left link of a *)
(* block taken from inside the list is current.                             *)
LinkedBack(n) ==
  LET F == FreeBlocks
      sz == FixAlignment8Bytes(n)
  IN  \A b \in F : FirstFit(F, b, sz) /\ b # head =>
                     mem[b + left] \in F /\ mem[mem[b + left] + right] = b

(* And that the free block in front of the one given back does not seem to  *)
(* adjoin it without doing so: a split writes no buffer field, which then   *)
(* holds whatever the memory held before.                                   *)
InFront(F, a, node) == a < node /\ \A b \in F : b < node => b <= a
BufferTells(node) ==
  LET F == FreeBlocks
  IN  \A a \in F : InFront(F, a, node) /\ mem[a + buffer] + mem[a + size] = node =>
                     a + HEADER_SIZE + mem[a + size] = node

FittingNext ==
  \/ Allocator
  \/ \E s \in Slots : \/ \E n \in Requests : Fits(n) /\ MyMalloc(s, n)
                      \/ Free(s)
                      \/ \E d \in UserData : Fill(s, d)

CarefulNext ==
  \/ Allocator
  \/ \E s \in Slots : \/ \E n \in Requests : Fits(n) /\ LinkedBack(n) /\ MyMalloc(s, n)
                      \/ BufferTells(Node(s)) /\ Free(s)
                      \/ \E d \in UserData : Fill(s, d)

FittingSpec == Init /\ [][FittingNext]_vars
(* The allocator is a program of one thread: a call it is in goes on. *)
CarefulSpec == Init /\ [][CarefulNext]_vars /\ WF_vars(Allocator)

-----------------------------------------------------------------------------
TypeOK ==
  /\ mem \in [Words -> Int] /\ head \in Headers \cup {NULL}
  /\ pc \in {"idle", "scan", "insert"} /\ tmp \in Int /\ arg \in Nat
  /\ slot \in Slots /\ req \in [Slots -> Requests \cup {0}]
  /\ ptr \in [Slots -> {NULL} \cup {a + HEADER_SIZE : a \in Headers}]

Live == {s \in Slots : ptr[s] # NULL}
BlockOf(s) == Node(s) .. ptr[s] + req[s] - 1

(* A byte belongs to a free block or to a live one, never to both: no block *)
(* the client holds is on the free list or reached into by a free block     *)
(* that was split, merged or left linked by a stale pointer.                *)
FreeIsFree ==
  \A a \in FreeBlocks, s \in Live :
    (a .. a + HEADER_SIZE + mem[a + size] - 1) \cap BlockOf(s) = {}

(* "best to keep the free list sorted based on address": each free block    *)
(* ends before the next one begins.                                         *)
Sorted ==
  \A a \in FreeBlocks :
    mem[a + right] # NULL =>
      /\ mem[a + right] \in Headers
      /\ a + HEADER_SIZE + mem[a + size] <= mem[a + right]

(* What the loop of a call has come to is a header of BigBuffer; so is the  *)
(* one a split begins behind it; and the block it unlinks has its           *)
(* neighbours' headers at the ends of its links.                            *)
InsideHeap ==
  /\ pc # "idle" => tmp \in Headers
  /\ Found /\ NewSize >= 0 => NewNode \in Headers
  /\ Found /\ tmp # head => Linked /\ mem[mem[tmp + left] + right] = tmp

(* The bytes of a block the client holds change only when it writes them,   *)
(* though the allocator keeps its links in the same memory.                 *)
DataUntouched ==
  [][\A s \in Slots :
       ptr[s] # NULL /\ ptr'[s] = ptr[s] =>
         \/ \E d \in UserData : Fill(s, d)
         \/ \A a \in DataWords(s) : mem'[a] = mem[a]]_vars

(* Every call of MyMalloc and MyFree comes back: no walk of the list runs   *)
(* off it or round in it.                                                   *)
CallsReturn == pc # "idle" ~> pc = "idle"

(* What the client sees of the allocator. *)
BlockView == [s \in Slots |-> IF ptr[s] = NULL THEN [at |-> 0, bytes |-> 0]
                              ELSE [at |-> ptr[s], bytes |-> req[s]]]
AskedView == IF pc = "scan" THEN {[slot |-> slot, bytes |-> req[slot]]} ELSE {}
Contract == INSTANCE HeapContract WITH
  Heap <- BigBuffer .. End - 1, block <- BlockView, asked <- AskedView
ContractSpec == Contract!Spec
=============================================================================
