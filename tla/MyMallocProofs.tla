--------------------------- MODULE MyMallocProofs ---------------------------
(***************************************************************************)
(* The free list and the blocks of the client share BigBuffer without      *)
(* sharing a byte, for every size of the heap, any requests and any data   *)
(* the client stores, as long as requests fit and the fields the allocator *)
(* takes on trust are true (CarefulSpec); and its calls then stay inside   *)
(* the heap and serve the client as HeapContract promises.                 *)
(*                                                                         *)
(* The free blocks are a set defined by following links, so most of the    *)
(* module is about that set: ListFrom reaches every block of a sorted list *)
(* (the list is shorter than Longest), and each change MyMalloc and MyFree *)
(* make to links gives the set one expects.                                *)
(***************************************************************************)
EXTENDS MyMalloc, WellFoundedInduction, TLAPS

(* The blocks of B, as memory m sizes them, are disjoint parts of BigBuffer. *)
BlockEnd(m, a) == a + HEADER_SIZE + m[a + size]
Sized8(m, B) ==
  \A a \in B : m[a + size] \in Nat /\ m[a + size] % 8 = 0 /\ BlockEnd(m, a) <= End
Apart(m, B) == \A a, b \in B : a < b => BlockEnd(m, a) <= b
Blocks(m, B) == B \subseteq Headers /\ Sized8(m, B) /\ Apart(m, B)

(* The blocks of F are listed from h in the order of their addresses.       *)
Listed(m, h, F) ==
  /\ IF F = {} THEN h = NULL ELSE h \in F /\ \A a \in F : h <= a
  /\ \A a \in F : m[a + right] = NULL \/ (m[a + right] \in F /\ a < m[a + right])
  /\ \A a, b \in F : a < b => m[a + right] # NULL /\ m[a + right] <= b

(* The blocks that are not free: the client's, and the one MyFree is about  *)
(* to insert.                                                               *)
Taken == {Node(s) : s \in Live} \cup (IF pc = "insert" THEN {arg} ELSE {})

(* All blocks are apart, and the free ones are those of a sorted list.      *)
HeapInv ==
  /\ Blocks(mem, FreeBlocks \cup Taken)
  /\ FreeBlocks \cap Taken = {}
  /\ Listed(mem, head, FreeBlocks)

(* A block the client holds is as large as it asked for, and no other       *)
(* pointer of the client leads to it.                                       *)
Held ==
  \A s \in Live : /\ req[s] <= mem[Node(s) + size] /\ mem[Node(s) + buffer] = ptr[s]
                  /\ pc = "insert" => Node(s) # arg
                  /\ \A t \in Live : ptr[s] = ptr[t] => s = t

(* What the client took care of when it called holds until the call ends.   *)
Scanning ==
  pc = "scan" =>
    /\ ptr[slot] = NULL /\ req[slot] \in Requests /\ arg = FixAlignment8Bytes(req[slot])
    /\ tmp \in FreeBlocks /\ \A a \in FreeBlocks : a < tmp => ~Stops(a, arg)
    /\ Fits(req[slot]) /\ LinkedBack(req[slot])

Inserting ==
  pc = "insert" => tmp \in FreeBlocks /\ tmp < arg /\ BufferTells(arg)

(* A walk stays on the list, the block it inserts apart from all others; to *)
(* conclude that FreeIsFree survives a split, a merge or an insertion one   *)
(* has to know all of this at once.                                         *)
IInv == TypeOK /\ HeapInv /\ Held /\ Scanning /\ Inserting

-----------------------------------------------------------------------------
(* A set of numbers has a least one. *)
LEMMA HasLeast ==
  ASSUME NEW T, T \subseteq Nat, T # {}
  PROVE  \E x \in T : \A y \in T : x <= y
<1>1. PICK x \in T : \A y \in T : ~(<<y, x>> \in OpToRel(<, Nat))
  BY NatLessThanWellFounded, WFMin, Zenon
<1>2. \A y \in T : ~(y < x)
  BY <1>1, Zenon DEF OpToRel
<1> QED
  BY <1>2

(* The blocks of S and those their right links lead to. *)
Onward(m, S) == S \cup ({m[a + right] : a \in S} \cap Headers)

Walk(m, h, n, f) ==
  f = [k \in 0 .. n |-> IF k = 0 THEN {h} \cap Headers ELSE Onward(m, f[k - 1])]

LEMMA WalkExists ==
  ASSUME NEW m, NEW h
  PROVE  \A n \in Nat : \E f : Walk(m, h, n, f)
<1> DEFINE T == {n \in Nat : ~\E f : Walk(m, h, n, f)}
<1> SUFFICES ASSUME T # {} PROVE FALSE
  OBVIOUS
<1>1. PICK n \in T : \A i \in T : n <= i
  <2>1. T \subseteq Nat
    OBVIOUS
  <2> HIDE DEF T
  <2> QED
    BY <2>1, HasLeast
<1>2. n \in Nat /\ n # 0
  <2>1. Walk(m, h, 0, [k \in 0 .. 0 |-> {h} \cap Headers])
    BY DEF Walk
  <2> QED
    BY <2>1, <1>1
<1>3. n - 1 \in Nat /\ n - 1 \notin T
  BY <1>1, <1>2
<1>4. PICK f : Walk(m, h, n - 1, f)
  BY <1>3
<1> DEFINE g == [k \in 0 .. n |-> IF k = 0 THEN {h} \cap Headers ELSE Onward(m, f[k - 1])]
<1>5. ASSUME NEW k \in 0 .. n, k # 0
      PROVE  g[k - 1] = f[k - 1]
  <2>1. k - 1 \in 0 .. n - 1 /\ k - 1 \in 0 .. n
    BY <1>2, <1>5
  <2>2. f[k - 1] = IF k - 1 = 0 THEN {h} \cap Headers ELSE Onward(m, f[k - 1 - 1])
    BY <1>4, <2>1, Zenon DEF Walk
  <2> QED
    BY <2>1, <2>2
<1>6. Walk(m, h, n, g)
  BY <1>5 DEF Walk
<1> QED
  BY <1>6, <1>1

LEMMA WalkGives ==
  ASSUME NEW m, NEW h
  PROVE  \E f : Walk(m, h, Longest, f) /\ ListFrom(m, h) = f[Longest]
<1> DEFINE Ok(f) == f = [k \in 0 .. Longest |->
                           IF k = 0 THEN {h} \cap Headers
                           ELSE LET near == f[k - 1]
                                IN  near \cup ({m[a + right] : a \in near} \cap Headers)]
<1>1. \A f : Ok(f) <=> Walk(m, h, Longest, f)
  BY DEF Walk, Onward
<1>2. Longest \in Nat
  BY MemoryAssumption DEF Longest, HEADER_SIZE
<1>3. \E f : Ok(f)
  BY <1>1, <1>2, WalkExists
<1>4. ListFrom(m, h) = (CHOOSE f : Ok(f))[Longest]
  BY DEF ListFrom
<1> QED
  BY <1>1, <1>3, <1>4

(* The words of a header are words of BigBuffer. *)
LEMMA HeaderWords ==
  ASSUME NEW a \in Headers
  PROVE  /\ a \in Int /\ a >= 256 /\ a % 8 = 0 /\ BigBuffer <= a /\ a + HEADER_SIZE <= End
         /\ a \in Words /\ a + left \in Words /\ a + right \in Words
         /\ a + size \in Words /\ a + buffer \in Words
BY MemoryAssumption DEF Headers, Words, End, left, right, size, buffer, HEADER_SIZE

LEMMA NullIsNoHeader == NULL \notin Headers /\ Headers \subseteq Nat
BY HeaderWords DEF NULL

(* A block that is not the first of its list has one before it.             *)
LEMMA HasPrevious ==
  ASSUME NEW m, NEW h, NEW F, F \subseteq Headers, Listed(m, h, F), NEW b \in F, b # h
  PROVE  \E a \in F : a < b /\ m[a + right] = b
<1> DEFINE T == {b - a : a \in {x \in F : x < b}}
<1>1. F \subseteq Int
  BY HeaderWords
<1>2. h \in F /\ h < b
  <2>1. h \in F /\ \A a \in F : h <= a
    BY DEF Listed
  <2>2. h <= b /\ h \in Int /\ b \in Int
    BY <2>1, <1>1
  <2> QED
    BY <2>1, <2>2
<1>3. T \subseteq Nat /\ T # {}
  BY <1>1, <1>2
<1>4. PICK d \in T : \A y \in T : d <= y
  <2> HIDE DEF T
  <2> QED
    BY <1>3, HasLeast
<1>5. PICK a \in F : a < b /\ d = b - a
  BY <1>4
<1>6. ASSUME NEW x \in F, x < b PROVE x <= a
  <2>1. b - x \in T
    BY <1>6
  <2> QED
    BY <2>1, <1>1, <1>4, <1>5
<1>7. m[a + right] # NULL /\ m[a + right] <= b
  BY <1>5 DEF Listed
<1>8. m[a + right] \in F /\ a < m[a + right]
  BY <1>7 DEF Listed
<1>9. a \in Int /\ b \in Int /\ m[a + right] \in Int
  BY <1>1, <1>8
<1>10. ~(m[a + right] < b)
  BY <1>6, <1>8, <1>9
<1> QED
  BY <1>5, <1>7, <1>9, <1>10

(* FreeBlocks is what the list lists. *)
LEMMA ListIs ==
  ASSUME NEW m, NEW h, NEW F, Blocks(m, F), Listed(m, h, F)
  PROVE  ListFrom(m, h) = F
<1>1. PICK f : Walk(m, h, Longest, f) /\ ListFrom(m, h) = f[Longest]
  BY WalkGives
<1>2. /\ Longest \in Nat
      /\ \A k \in 0 .. Longest : f[k] = IF k = 0 THEN {h} \cap Headers ELSE Onward(m, f[k - 1])
  <2>1. Longest \in Nat
    BY MemoryAssumption DEF Longest, HEADER_SIZE
  <2>2. \A k \in 0 .. Longest : f[k] = IF k = 0 THEN {h} \cap Headers ELSE Onward(m, f[k - 1])
    BY <1>1, Zenon DEF Walk
  <2> QED
    BY <2>1, <2>2
<1>3. /\ F \subseteq Headers /\ F \subseteq Int
      /\ \A a, b \in F : a < b => a + HEADER_SIZE <= b
  <2>1. F \subseteq Headers /\ F \subseteq Int
    BY HeaderWords DEF Blocks
  <2> SUFFICES ASSUME NEW a \in F, NEW b \in F, a < b PROVE a + HEADER_SIZE <= b
    BY <2>1
  <2>2. m[a + size] \in Nat /\ a + HEADER_SIZE + m[a + size] <= b
    BY DEF Blocks, Sized8, Apart, BlockEnd
  <2> QED
    BY <2>1, <2>2 DEF HEADER_SIZE
<1>4. \A k \in 0 .. Longest : f[k] \subseteq F
  <2> DEFINE T == {k \in 0 .. Longest : ~(f[k] \subseteq F)}
  <2> SUFFICES ASSUME T # {} PROVE FALSE
    OBVIOUS
  <2>1. PICK k \in T : \A i \in T : k <= i
    <3>1. T \subseteq Nat
      OBVIOUS
    <3> HIDE DEF T
    <3> QED
      BY <3>1, HasLeast
  <2>2. k # 0
    <3>1. {h} \cap Headers \subseteq F
      BY NullIsNoHeader DEF Listed
    <3> QED
      BY <3>1, <2>1, <1>2
  <2>3. k - 1 \in 0 .. Longest /\ f[k - 1] \subseteq F
    BY <2>1, <2>2, <1>2
  <2>4. f[k] = Onward(m, f[k - 1])
    BY <2>1, <2>2, <1>2
  <2>5. Onward(m, f[k - 1]) \subseteq F
    <3> SUFFICES ASSUME NEW a \in f[k - 1], m[a + right] \in Headers PROVE m[a + right] \in F
      BY <2>3 DEF Onward
    <3> QED
      BY <2>3, NullIsNoHeader DEF Listed
  <2> QED
    BY <2>1, <2>4, <2>5
<1>5. \A k \in 0 .. Longest : \A b \in F : b - h <= HEADER_SIZE * k => b \in f[k]
  <2> DEFINE Near(k) == \A b \in F : b - h <= HEADER_SIZE * k => b \in f[k]
  <2> DEFINE T == {k \in 0 .. Longest : ~Near(k)}
  <2> SUFFICES ASSUME T # {} PROVE FALSE
    OBVIOUS
  <2>1. PICK k \in T : \A i \in T : k <= i
    <3>1. T \subseteq Nat
      OBVIOUS
    <3> HIDE DEF T
    <3> QED
      BY <3>1, HasLeast
  <2>2. PICK b \in F : b - h <= HEADER_SIZE * k /\ b \notin f[k]
    BY <2>1
  <2>3. h \in F /\ h <= b /\ h \in Int /\ b \in Int
    BY <1>3 DEF Listed
  <2>4. k # 0
    <3>1. HEADER_SIZE * 0 = 0
      BY DEF HEADER_SIZE
    <3> QED
      BY <3>1, <2>1, <2>2, <2>3, <1>2, <1>3
  <2>5. k - 1 \in 0 .. Longest /\ Near(k - 1)
    BY <2>1, <2>4, <1>2
  <2>6. f[k] = Onward(m, f[k - 1])
    BY <2>1, <2>4, <1>2
  <2>7. b \notin f[k - 1] /\ b # h
    <3>1. b \notin f[k - 1]
      BY <2>2, <2>6 DEF Onward
    <3>2. h - h <= HEADER_SIZE * (k - 1)
      BY <2>1, <2>3, <2>4, <1>2 DEF HEADER_SIZE
    <3> QED
      BY <3>1, <3>2, <2>3, <2>5
  <2>8. PICK a \in F : a < b /\ m[a + right] = b
    BY <2>7, <1>3, HasPrevious
  <2>9. a + HEADER_SIZE <= b /\ a \in Int
    BY <2>8, <1>3
  <2>10. a - h <= HEADER_SIZE * (k - 1)
    BY <2>1, <2>2, <2>3, <2>9, <1>2 DEF HEADER_SIZE
  <2>11. a \in f[k - 1]
    BY <2>5, <2>10
  <2> QED
    BY <2>2, <2>6, <2>8, <2>11, <1>3 DEF Onward
<1>6. ASSUME NEW b \in F PROVE b - h <= HEADER_SIZE * Longest
  <2>1. h \in F
    BY DEF Listed
  <2>2. b \in Headers /\ h \in Headers
    BY <2>1, <1>3
  <2>3. b \in Int /\ h \in Int /\ BigBuffer <= h /\ b + HEADER_SIZE <= End
    BY <2>2, HeaderWords
  <2> QED
    BY <2>3, MemoryAssumption DEF End, Longest, HEADER_SIZE
<1>7. Longest \in 0 .. Longest
  BY <1>2
<1>8. f[Longest] \subseteq F
  BY <1>4, <1>7
<1>9. F \subseteq f[Longest]
  BY <1>5, <1>6, <1>7
<1> QED
  BY <1>1, <1>8, <1>9

-----------------------------------------------------------------------------
(* Types, whatever the client does. *)
Memories == [Words -> Int]

TypeInv == TypeOK /\ (pc = "insert" => arg \in Headers)

LEMMA MergedType ==
  ASSUME NEW m \in Memories, NEW a \in Headers, NEW b \in Headers
  PROVE  Merged(m, a, b) \in Memories
<1>1. /\ m[a + size] \in Int /\ m[b + size] \in Int /\ m[b + right] \in Int
      /\ a + size \in Words /\ a + right \in Words
  BY HeaderWords DEF Memories
<1>2. m[a + size] + m[b + size] \in Int
  BY <1>1
<1> QED
  BY <1>1, <1>2 DEF Merged, Memories

LEMMA CoalesceType ==
  ASSUME NEW m \in Memories, NEW node \in Headers, m[node + left] \in Headers \cup {NULL},
         CoalesceFreeNodes(m, node)
  PROVE  mem' \in Memories
<1> DEFINE n == IF m[node + left] # NULL THEN m[node + left] ELSE node
<1> DEFINE m1 == IF m[node + left] # NULL /\ Adjoins(m, m[node + left])
                 THEN Merged(m, m[node + left], node) ELSE m
<1>1. n \in Headers /\ m1 \in Memories
  BY MergedType
<1>2. mem' = m1 \/ (m[node + right] \in Headers /\ mem' = Merged(m1, n, m[node + right]))
  BY DEF CoalesceFreeNodes
<1> HIDE DEF n, m1
<1> QED
  BY <1>1, <1>2, MergedType

LEMMA RelinkedType ==
  ASSUME TypeOK, tmp \in Headers, NEW m \in Memories, NEW new \in Int, NEW back \in Int
  PROVE  Relinked(m, new, back) \in Memories
<1> DEFINE m1 == [m EXCEPT ![m[tmp + left] + right] = new]
<1>1. m1 \in Memories
  BY DEF Memories
<1>2. Relinked(m, new, back) \in {m1, [m1 EXCEPT ![m1[tmp + right] + left] = back]}
  BY DEF Relinked
<1> HIDE DEF m1
<1>3. [m1 EXCEPT ![m1[tmp + right] + left] = back] \in Memories
  BY <1>1 DEF Memories
<1> QED
  BY <1>1, <1>2, <1>3

LEMMA AllocatedType ==
  ASSUME TypeInv, tmp \in Headers, NEW m \in Memories, Allocated(m),
         head' \in Headers \cup {NULL}
  PROVE  TypeInv'
<1>1. /\ mem' = [m EXCEPT ![tmp + left] = NULL, ![tmp + right] = NULL,
                          ![tmp + buffer] = tmp + HEADER_SIZE]
      /\ ptr' = [ptr EXCEPT ![slot] = tmp + HEADER_SIZE]
      /\ pc' = "idle" /\ tmp' = 0 /\ arg' = 0 /\ slot' = slot /\ req' = req
  BY DEF Allocated, Return, NULL
<1>2. mem' \in [Words -> Int]
  <2>1. tmp + HEADER_SIZE \in Int /\ NULL \in Int
    BY HeaderWords DEF HEADER_SIZE, NULL
  <2> QED
    BY <1>1, <2>1 DEF Memories
<1>3. ptr' \in [Slots -> {NULL} \cup {a + HEADER_SIZE : a \in Headers}]
  BY <1>1 DEF TypeInv, TypeOK
<1> QED
  BY <1>1, <1>2, <1>3 DEF TypeInv, TypeOK

LEMMA SizedType == TypeInv /\ tmp \in Headers => Sized \in Memories
<1> SUFFICES ASSUME TypeInv PROVE Sized \in Memories
  OBVIOUS
<1>1. mem \in [Words -> Int] /\ arg \in Int
  BY DEF TypeInv, TypeOK
<1> QED
  BY <1>1 DEF Sized, Memories

LEMMA NodeType ==
  ASSUME TypeOK, NEW s \in Slots, ptr[s] # NULL
  PROVE  Node(s) \in Headers /\ ptr[s] = Node(s) + HEADER_SIZE
<1>1. PICK a \in Headers : ptr[s] = a + HEADER_SIZE
  BY DEF TypeOK
<1>2. a \in Int
  BY HeaderWords
<1> QED
  BY <1>1, <1>2 DEF Node, HEADER_SIZE

LEMMA TypeTake ==
  ASSUME TypeInv, TakeHeadWhole \/ TakeHeadSplit \/ TakeInnerWhole \/ TakeInnerSplit
  PROVE  TypeInv'
<1>1. tmp \in Headers /\ Sized \in Memories /\ mem \in Memories /\ arg \in Nat
      /\ head \in Headers \cup {NULL}
  BY SizedType DEF TakeHeadWhole, TakeHeadSplit, TakeInnerWhole, TakeInnerSplit, Found,
                   TypeInv, TypeOK, Memories
<1>2. /\ mem[tmp + right] \in Int /\ mem[tmp + left] \in Int /\ mem[tmp + size] \in Int
      /\ NewSize \in Int /\ NewNode \in Int /\ NULL \in Int
  BY <1>1, HeaderWords DEF Memories, NewSize, NewNode, HEADER_SIZE, NULL
<1>3. CASE TakeHeadWhole
  BY <1>1, <1>3, AllocatedType DEF TakeHeadWhole
<1>4. CASE TakeHeadSplit
  <2>1. [Sized EXCEPT ![NewNode + size] = NewSize, ![NewNode + right] = mem[tmp + right],
                      ![NewNode + left] = NULL] \in Memories
    BY <1>1, <1>2 DEF Memories
  <2> QED
    BY <1>1, <1>4, <2>1, AllocatedType DEF TakeHeadSplit
<1>5. CASE TakeInnerWhole
  BY <1>1, <1>2, <1>5, RelinkedType, AllocatedType DEF TakeInnerWhole, TypeInv
<1>6. CASE TakeInnerSplit
  <2>1. [Sized EXCEPT ![NewNode + size] = NewSize, ![NewNode + left] = mem[tmp + left],
                      ![NewNode + right] = mem[tmp + right]] \in Memories
    BY <1>1, <1>2 DEF Memories
  <2> QED
    BY <1>1, <1>2, <1>6, <2>1, RelinkedType, AllocatedType DEF TakeInnerSplit, TypeInv
<1> QED
  BY <1>3, <1>4, <1>5, <1>6

LEMMA TypeCall ==
  ASSUME TypeInv, NEW s \in Slots, NEW n \in Requests, MyMalloc(s, n)
  PROVE  TypeInv'
<1>1. n \in Nat /\ FixAlignment8Bytes(n) \in Nat
  BY ClientAssumption DEF FixAlignment8Bytes
<1>2. head \in Int
  BY HeaderWords DEF TypeInv, TypeOK, NULL
<1>3. req' \in [Slots -> Requests \cup {0}]
  BY DEF MyMalloc, TypeInv, TypeOK
<1> QED
  BY <1>1, <1>2, <1>3 DEF MyMalloc, TypeInv, TypeOK

LEMMA TypeFreeSlot ==
  ASSUME TypeInv, NEW s \in Slots, FreeSlot(s)
  PROVE  /\ Node(s) \in Headers /\ slot' \in Slots
         /\ ptr' \in [Slots -> {NULL} \cup {a + HEADER_SIZE : a \in Headers}]
         /\ req' \in [Slots -> Requests \cup {0}]
<1>1. Node(s) \in Headers
  BY NodeType DEF FreeSlot, TypeInv
<1> QED
  BY <1>1 DEF FreeSlot, TypeInv, TypeOK

LEMMA TypeFree ==
  ASSUME TypeInv, NEW s \in Slots, Free(s)
  PROVE  TypeInv'
<1>1. /\ Node(s) \in Headers /\ slot' \in Slots
      /\ ptr' \in [Slots -> {NULL} \cup {a + HEADER_SIZE : a \in Headers}]
      /\ req' \in [Slots -> Requests \cup {0}] /\ pc = "idle"
  BY TypeFreeSlot DEF Free, FreeIntoEmpty, FreeInFront, FreeBehind, FreeSlot
<1>2. /\ Node(s) \in Nat /\ NULL \in Int /\ mem \in Memories /\ head \in Headers \cup {NULL}
      /\ head \in Int
  BY <1>1, HeaderWords DEF TypeInv, TypeOK, Memories, NULL
<1>3. CASE FreeIntoEmpty(s)
  <2>1. mem' \in Memories
    BY <1>2, <1>3 DEF FreeIntoEmpty, Memories
  <2> QED
    BY <1>1, <1>3, <2>1 DEF FreeIntoEmpty, Memories, TypeInv, TypeOK
<1>4. CASE FreeInFront(s)
  <2> DEFINE m == [mem EXCEPT ![head + left] = Node(s), ![Node(s) + right] = head,
                              ![Node(s) + left] = NULL]
  <2>1. m \in Memories
    <3>1. Node(s) \in Int
      BY <1>2
    <3> QED
      BY <1>2, <3>1 DEF Memories
  <2>2. m[Node(s) + left] = NULL
    BY <1>1, <1>2, HeaderWords DEF Memories
  <2>3. CoalesceFreeNodes(m, Node(s))
    BY <1>4 DEF FreeInFront
  <2>4. mem' \in Memories
    <3> HIDE DEF m
    <3> QED
      BY <1>1, <2>1, <2>2, <2>3, CoalesceType
  <2> QED
    BY <1>1, <1>4, <2>4 DEF FreeInFront, Memories, TypeInv, TypeOK
<1>5. CASE FreeBehind(s)
  BY <1>1, <1>2, <1>5 DEF FreeBehind, TypeInv, TypeOK
<1> QED
  BY <1>3, <1>4, <1>5 DEF Free

LEMMA TypeWalk ==
  ASSUME TypeInv, FirstFitStep \/ InsertStep
  PROVE  TypeInv'
<1>1. tmp \in Headers /\ tmp' = mem[tmp + right] /\ UNCHANGED <<mem, head, pc, arg, slot, ptr, req>>
  BY DEF FirstFitStep, InsertStep
<1>2. tmp' \in Int
  BY <1>1, HeaderWords DEF TypeInv, TypeOK
<1> QED
  BY <1>1, <1>2 DEF TypeInv, TypeOK

LEMMA TypeInsert == ASSUME TypeInv, InsertNode PROVE TypeInv'
<1> DEFINE m == [mem EXCEPT ![arg + right] = mem[tmp + right], ![tmp + right] = arg,
                            ![arg + left] = tmp]
<1>1. tmp \in Headers /\ arg \in Headers /\ mem \in Memories
  BY DEF InsertNode, TypeInv, TypeOK, Memories
<1>2. m \in Memories
  BY <1>1, HeaderWords DEF Memories
<1>3. m[arg + left] = tmp
  BY <1>1, HeaderWords DEF Memories
<1>4. CoalesceFreeNodes(m, arg)
  BY DEF InsertNode
<1>5. mem' \in Memories
  <2> HIDE DEF m
  <2> QED
    BY <1>1, <1>2, <1>3, <1>4, CoalesceType
<1>6. pc' = "idle" /\ tmp' = 0 /\ arg' = 0 /\ UNCHANGED <<head, slot, ptr, req>>
  BY DEF InsertNode, Return, NULL
<1> QED
  BY <1>5, <1>6 DEF TypeInv, TypeOK, Memories

LEMMA TypeFill ==
  ASSUME TypeInv, NEW s \in Slots, NEW d \in UserData, Fill(s, d)
  PROVE  TypeInv'
<1>1. mem' \in [Words -> Int]
  BY ClientAssumption DEF Fill, TypeInv, TypeOK
<1> QED
  BY <1>1 DEF Fill, TypeInv, TypeOK

LEMMA TypeInit == Init => TypeInv
<1> SUFFICES ASSUME Init PROVE TypeInv
  OBVIOUS
<1>1. BigBuffer \in Headers
  BY MemoryAssumption DEF Headers, Words, End, HEADER_SIZE
<1>2. mem \in [Words -> Int]
  BY MemoryAssumption DEF Init, HEADER_SIZE
<1> QED
  BY <1>1, <1>2 DEF Init, TypeInv, TypeOK, NULL

LEMMA TypeNext == TypeInv /\ [Next]_vars => TypeInv'
<1>1. TypeInv /\ UNCHANGED vars => TypeInv'
  BY DEF TypeInv, TypeOK, vars
<1> QED
  BY <1>1, TypeTake, TypeCall, TypeFree, TypeWalk, TypeInsert, TypeFill
  DEF Next, Allocator, Client

(* Every variable keeps its type, whatever the client asks for and frees.   *)
THEOREM HeapTypeCorrect == Spec => []TypeOK
<1>1. TypeInv => TypeOK
  BY DEF TypeInv
<1> QED
  BY <1>1, TypeInit, TypeNext, PTL DEF Spec

-----------------------------------------------------------------------------
(* What becomes of disjoint blocks, of memory m, in memory w.               *)
LEMMA BlockFacts ==
  ASSUME NEW m, NEW B, Blocks(m, B)
  PROVE  /\ \A a \in B : /\ a \in Headers /\ a \in Int /\ a >= 256 /\ BigBuffer <= a
                         /\ m[a + size] \in Nat /\ m[a + size] % 8 = 0
                         /\ a + HEADER_SIZE + m[a + size] <= End
         /\ \A a, b \in B : a < b => a + HEADER_SIZE + m[a + size] <= b
         /\ End \in Int
BY HeaderWords, MemoryAssumption DEF Blocks, Sized8, Apart, BlockEnd, End

LEMMA BlocksAre ==
  ASSUME NEW m, NEW B, B \subseteq Headers,
         \A a \in B : /\ m[a + size] \in Nat /\ m[a + size] % 8 = 0
                      /\ a + HEADER_SIZE + m[a + size] <= End,
         \A a, b \in B : a < b => a + HEADER_SIZE + m[a + size] <= b
  PROVE  Blocks(m, B)
BY DEF Blocks, Sized8, Apart, BlockEnd

LEMMA HeadersApart ==
  ASSUME NEW m, NEW B, Blocks(m, B), NEW a \in B, NEW b \in B, a # b
  PROVE  a + HEADER_SIZE <= b \/ b + HEADER_SIZE <= a
<1>1. a \in Int /\ b \in Int /\ m[a + size] \in Nat /\ m[b + size] \in Nat
  BY BlockFacts
<1>2. a < b => a + HEADER_SIZE + m[a + size] <= b
  BY BlockFacts
<1>3. b < a => b + HEADER_SIZE + m[b + size] <= a
  BY BlockFacts
<1> QED
  BY <1>1, <1>2, <1>3 DEF HEADER_SIZE

LEMMA BlocksPart ==
  ASSUME NEW m, NEW w, NEW B, Blocks(m, B), NEW C, C \subseteq B,
         \A a \in C : w[a + size] = m[a + size]
  PROVE  Blocks(w, C)
BY DEF Blocks, Sized8, Apart, BlockEnd

LEMMA BlocksShrink ==
  ASSUME NEW m, NEW w, NEW B, Blocks(m, B), NEW t \in B, NEW k \in Nat,
         k % 8 = 0, k <= m[t + size], w[t + size] = k,
         \A a \in B : a # t => w[a + size] = m[a + size]
  PROVE  Blocks(w, B)
<1>1. ASSUME NEW a \in B
      PROVE  /\ a \in Headers /\ w[a + size] \in Nat /\ w[a + size] % 8 = 0
             /\ w[a + size] <= m[a + size] /\ m[a + size] \in Nat /\ a \in Int /\ End \in Int
             /\ a + HEADER_SIZE + m[a + size] <= End
  BY BlockFacts
<1>2. ASSUME NEW a \in B
      PROVE  a + HEADER_SIZE + w[a + size] <= End
  BY <1>1 DEF HEADER_SIZE
<1>3. ASSUME NEW a \in B, NEW b \in B, a < b
      PROVE  a + HEADER_SIZE + w[a + size] <= b
  <2>1. a + HEADER_SIZE + m[a + size] <= b
    BY <1>3, BlockFacts
  <2> QED
    BY <1>1, <2>1 DEF HEADER_SIZE
<1> QED
  BY <1>1, <1>2, <1>3, BlocksAre

(* The block t is cut to k bytes and one begins behind it. *)
LEMMA BlocksSplit ==
  ASSUME NEW m, NEW w, NEW B, Blocks(m, B), NEW t \in B, NEW k \in Nat, NEW n \in Headers,
         k % 8 = 0, k + HEADER_SIZE <= m[t + size], w[t + size] = k,
         n = t + HEADER_SIZE + k, w[n + size] = m[t + size] - k - HEADER_SIZE,
         \A a \in B : a # t => w[a + size] = m[a + size]
  PROVE  Blocks(w, B \cup {n}) /\ n \notin B
<1>1. /\ t \in Int /\ m[t + size] \in Nat /\ m[t + size] % 8 = 0 /\ End \in Int
      /\ t + HEADER_SIZE + m[t + size] <= End
  BY BlockFacts
<1>2. Blocks(w, B)
  <2>1. k <= m[t + size]
    BY <1>1 DEF HEADER_SIZE
  <2> QED
    BY <2>1, BlocksShrink
<1>3. /\ n \in Int /\ w[n + size] \in Nat /\ w[n + size] % 8 = 0
      /\ n + HEADER_SIZE + w[n + size] = t + HEADER_SIZE + m[t + size] /\ t < n
  BY <1>1 DEF HEADER_SIZE
<1>4. ASSUME NEW b \in B, b < n
      PROVE  b + HEADER_SIZE + w[b + size] <= n
  <2>1. CASE b = t
    BY <2>1, <1>1
  <2>2. CASE b < t
    <3>1. b + HEADER_SIZE + w[b + size] <= t
      BY <2>2, <1>2, BlockFacts
    <3>2. b \in Int /\ w[b + size] \in Nat
      BY <1>2, BlockFacts
    <3> QED
      BY <3>1, <3>2, <1>1, <1>3 DEF HEADER_SIZE
  <2>3. CASE t < b
    <3>1. t + HEADER_SIZE + m[t + size] <= b
      BY <2>3, BlockFacts
    <3> QED
      BY <3>1, <1>1, <1>4, BlockFacts DEF HEADER_SIZE
  <2>4. b \in Int
    BY BlockFacts
  <2> QED
    BY <2>1, <2>2, <2>3, <2>4, <1>1
<1>5. ASSUME NEW b \in B, n <= b
      PROVE  n + HEADER_SIZE + w[n + size] <= b
  <2>1. b \in Int /\ t < b
    BY <1>1, <1>3, <1>5, BlockFacts
  <2>2. t + HEADER_SIZE + m[t + size] <= b
    BY <2>1, BlockFacts
  <2> QED
    BY <2>2, <1>3
<1>6. n \notin B
  BY <1>3, <1>5 DEF HEADER_SIZE
<1>7. \A a \in B \cup {n} : /\ a \in Headers /\ w[a + size] \in Nat /\ w[a + size] % 8 = 0
                            /\ a + HEADER_SIZE + w[a + size] <= End
  BY <1>1, <1>2, <1>3, BlockFacts
<1>8. \A a, b \in B \cup {n} : a < b => a + HEADER_SIZE + w[a + size] <= b
  <2> SUFFICES ASSUME NEW a \in B \cup {n}, NEW b \in B \cup {n}, a < b
               PROVE  a + HEADER_SIZE + w[a + size] <= b
    OBVIOUS
  <2>1. CASE a \in B /\ b \in B
    BY <2>1, <1>2, BlockFacts
  <2>2. CASE a = n /\ b \in B
    BY <2>2, <1>3, <1>5, BlockFacts
  <2>3. CASE a \in B /\ b = n
    BY <2>3, <1>4
  <2>4. ~(a = n /\ b = n)
    BY <1>3
  <2> QED
    BY <2>1, <2>2, <2>3, <2>4
<1> QED
  BY <1>6, <1>7, <1>8, BlocksAre

(* The block b, right behind a, becomes a part of it, without its header.   *)
LEMMA BlocksMerge ==
  ASSUME NEW m, NEW w, NEW B, Blocks(m, B), NEW a \in B, NEW b \in B,
         a + HEADER_SIZE + m[a + size] = b, w[a + size] = m[a + size] + m[b + size],
         \A x \in B : x # a /\ x # b => w[x + size] = m[x + size]
  PROVE  Blocks(w, B \ {b})
<1>1. /\ a \in Int /\ b \in Int /\ m[a + size] \in Nat /\ m[b + size] \in Nat
      /\ m[a + size] % 8 = 0 /\ m[b + size] % 8 = 0 /\ End \in Int
      /\ b + HEADER_SIZE + m[b + size] <= End
  BY BlockFacts
<1>2. /\ w[a + size] \in Nat /\ w[a + size] % 8 = 0 /\ a < b
      /\ a + HEADER_SIZE + w[a + size] <= b + HEADER_SIZE + m[b + size]
  BY <1>1 DEF HEADER_SIZE
<1>3. \A x \in B \ {b} : /\ x \in Headers /\ w[x + size] \in Nat /\ w[x + size] % 8 = 0
                         /\ x + HEADER_SIZE + w[x + size] <= End
  <2> SUFFICES ASSUME NEW x \in B \ {b}
               PROVE  /\ x \in Headers /\ w[x + size] \in Nat /\ w[x + size] % 8 = 0
                      /\ x + HEADER_SIZE + w[x + size] <= End
    OBVIOUS
  <2>1. CASE x = a
    BY <2>1, <1>1, <1>2, BlockFacts DEF HEADER_SIZE
  <2>2. CASE x # a
    BY <2>2, BlockFacts
  <2> QED
    BY <2>1, <2>2
<1>4. \A x, y \in B \ {b} : x < y => x + HEADER_SIZE + w[x + size] <= y
  <2> SUFFICES ASSUME NEW x \in B \ {b}, NEW y \in B \ {b}, x < y
               PROVE  x + HEADER_SIZE + w[x + size] <= y
    OBVIOUS
  <2>1. x \in Int /\ y \in Int /\ x + HEADER_SIZE + m[x + size] <= y
    BY BlockFacts
  <2>2. CASE x = a
    <3>1. b < y
      BY <2>1, <2>2, <1>1
    <3>2. b + HEADER_SIZE + m[b + size] <= y
      BY <3>1, BlockFacts
    <3> QED
      BY <3>2, <2>1, <2>2, <1>1, <1>2 DEF HEADER_SIZE
  <2>3. CASE x # a
    BY <2>1, <2>3
  <2> QED
    BY <2>2, <2>3
<1> QED
  BY <1>3, <1>4, BlocksAre

-----------------------------------------------------------------------------
(* What becomes of a list when its links, in memory m, are those of w.      *)
LEMMA ListSame ==
  ASSUME NEW m, NEW w, NEW h, NEW F, Listed(m, h, F),
         \A a \in F : w[a + right] = m[a + right]
  PROVE  Listed(w, h, F)
BY DEF Listed

LEMMA ListFacts ==
  ASSUME NEW m, NEW h, NEW F, F \subseteq Headers, Listed(m, h, F)
  PROVE  /\ F \subseteq Int /\ \A a \in F : a # NULL
         /\ F # {} => h \in F /\ \A a \in F : h <= a
         /\ F = {} <=> h = NULL
         /\ \A a \in F : m[a + right] = NULL \/ (m[a + right] \in F /\ a < m[a + right])
         /\ \A a, b \in F : a < b => m[a + right] # NULL /\ m[a + right] <= b
<1>1. F \subseteq Int /\ \A a \in F : a # NULL
  BY HeaderWords DEF NULL
<1> QED
  BY <1>1 DEF Listed

(* Only the block in front of t leads to it. *)
LEMMA OnePrevious ==
  ASSUME NEW m, NEW h, NEW F, F \subseteq Headers, Listed(m, h, F),
         NEW a \in F, NEW b \in F, m[a + right] = m[b + right], m[a + right] # NULL
  PROVE  a = b
<1>1. /\ a \in Int /\ b \in Int /\ m[a + right] \in F /\ m[a + right] \in Int
      /\ a < m[a + right] /\ b < m[a + right]
  BY ListFacts
<1>2. a < b => m[a + right] <= b
  BY ListFacts
<1>3. b < a => m[b + right] <= a
  BY ListFacts
<1> QED
  BY <1>1, <1>2, <1>3

(* The block n takes the place of t. *)
LEMMA ListReplace ==
  ASSUME NEW m, NEW w, NEW h, NEW F, F \subseteq Headers, Listed(m, h, F),
         NEW t \in F, NEW n \in Headers, n \notin F,
         \A b \in F : (b < t => b < n) /\ (t < b => n < b),
         w[n + right] = m[t + right],
         \A a \in F : a # t => w[a + right] = IF m[a + right] = t THEN n ELSE m[a + right]
  PROVE  Listed(w, IF h = t THEN n ELSE h, (F \ {t}) \cup {n})
<1> DEFINE G == (F \ {t}) \cup {n}
<1> DEFINE g == IF h = t THEN n ELSE h
<1>1. t \in Int /\ n \in Int /\ F \subseteq Int /\ n # NULL /\ t # NULL
  BY HeaderWords, ListFacts DEF NULL
<1>2. G # {} /\ n \in G
  OBVIOUS
<1>3. g \in G /\ \A a \in G : g <= a
  <2>1. h \in F /\ \A a \in F : h <= a
    BY ListFacts
  <2>2. CASE h = t
    <3>1. ASSUME NEW a \in F, a # t PROVE n <= a
      <4>1. t < a
        BY <2>1, <2>2, <1>1, <3>1
      <4> QED
        BY <4>1, <1>1
    <3> QED
      BY <2>2, <3>1, <1>1
  <2>3. CASE h # t
    <3>1. h < t
      BY <2>1, <2>3, <1>1
    <3>2. h < n
      BY <3>1, <2>1
    <3> QED
      BY <3>2, <2>1, <2>3, <1>1
  <2> QED
    BY <2>2, <2>3
<1>4. \A a \in F : m[a + right] = NULL \/ (m[a + right] \in F /\ a < m[a + right] /\ m[a + right] # NULL)
  BY ListFacts
<1>5. \A a, b \in F : a < b => m[a + right] # NULL /\ m[a + right] <= b
  BY ListFacts
<1>6. ASSUME NEW a \in G
      PROVE  w[a + right] = NULL \/ (w[a + right] \in G /\ a < w[a + right])
  <2>1. CASE a = n
    <3>1. m[t + right] # NULL => m[t + right] \in F /\ t < m[t + right]
      BY <1>4
    <3>2. ASSUME m[t + right] # NULL PROVE m[t + right] \in G /\ n < m[t + right]
      <4>1. m[t + right] \in F /\ t < m[t + right]
        BY <3>1, <3>2
      <4>2. n < m[t + right]
        BY <4>1
      <4>3. m[t + right] # t
        BY <4>1, <1>1
      <4> QED
        BY <4>1, <4>2, <4>3
    <3> QED
      BY <2>1, <3>2
  <2>2. CASE a \in F /\ a # t /\ m[a + right] = t
    <3>1. a < t
      BY <2>2, <1>1, <1>4
    <3>2. a < n /\ w[a + right] = n
      BY <2>2, <3>1
    <3> QED
      BY <3>2
  <2>3. CASE a \in F /\ a # t /\ m[a + right] # t
    BY <2>3, <1>4
  <2> QED
    BY <2>1, <2>2, <2>3
<1>7. ASSUME NEW a \in G, NEW b \in G, a < b
      PROVE  w[a + right] # NULL /\ w[a + right] <= b
  <2>1. CASE a = n /\ b # n
    <3>1. b \in F /\ b # t
      BY <2>1
    <3>2. t < b
      <4>1. ~(b < t)
        BY <3>1, <2>1, <1>1, <1>7
      <4> QED
        BY <4>1, <3>1, <1>1
    <3> QED
      BY <2>1, <3>1, <3>2, <1>5
  <2>2. CASE a # n /\ b = n
    <3>1. a \in F /\ a # t
      BY <2>2
    <3>2. a < t
      <4>1. ~(t < a)
        BY <3>1, <2>2, <1>1, <1>7
      <4> QED
        BY <4>1, <3>1, <1>1
    <3>3. m[a + right] # NULL /\ m[a + right] <= t /\ m[a + right] \in F
      BY <3>1, <3>2, <1>4, <1>5
    <3>4. CASE m[a + right] = t
      BY <3>1, <3>4, <2>2, <1>1
    <3>5. CASE m[a + right] # t
      <4>1. m[a + right] < t
        <5>1. m[a + right] \in Int
          BY <3>3, <1>1
        <5> QED
          BY <5>1, <3>3, <3>5, <1>1
      <4>2. m[a + right] < n
        BY <4>1, <3>3
      <4>3. m[a + right] \in Int /\ w[a + right] = m[a + right]
        BY <3>1, <3>3, <3>5, <1>1
      <4>4. m[a + right] <= n
        BY <4>2, <4>3, <1>1
      <4> QED
        BY <4>3, <4>4, <3>3, <2>2
    <3> QED
      BY <3>4, <3>5
  <2>3. CASE a # n /\ b # n
    <3>1. a \in F /\ a # t /\ b \in F /\ b # t
      BY <2>3
    <3>2. m[a + right] # NULL /\ m[a + right] <= b /\ m[a + right] \in F
      BY <3>1, <1>4, <1>5, <1>7
    <3>3. CASE m[a + right] = t
      <4>1. t < b
        BY <3>1, <3>2, <3>3, <1>1
      <4>2. n < b
        BY <4>1, <3>1
      <4> QED
        BY <4>2, <3>1, <3>3, <1>1
    <3>4. CASE m[a + right] # t
      BY <3>1, <3>2, <3>4
    <3> QED
      BY <3>3, <3>4
  <2>4. ~(a = n /\ b = n)
    BY <1>1, <1>7
  <2> QED
    BY <2>1, <2>2, <2>3, <2>4
<1> HIDE DEF G, g
<1>8. Listed(w, g, G)
  BY <1>2, <1>3, <1>6, <1>7 DEF Listed
<1> QED
  BY <1>8 DEF G, g

(* The block t, not the first, leaves the list. *)
LEMMA ListRemove ==
  ASSUME NEW m, NEW w, NEW h, NEW F, F \subseteq Headers, Listed(m, h, F),
         NEW t \in F, t # h,
         \A a \in F : a # t => w[a + right] = IF m[a + right] = t THEN m[t + right] ELSE m[a + right]
  PROVE  Listed(w, h, F \ {t})
<1> DEFINE G == F \ {t}
<1>1. t \in Int /\ F \subseteq Int /\ t # NULL /\ h \in F /\ \A a \in F : h <= a
  BY ListFacts
<1>2. h \in G /\ \A a \in G : h <= a
  BY <1>1
<1>3. \A a \in F : m[a + right] = NULL \/ (m[a + right] \in F /\ a < m[a + right] /\ m[a + right] # NULL)
  BY ListFacts
<1>4. \A a, b \in F : a < b => m[a + right] # NULL /\ m[a + right] <= b
  BY ListFacts
<1>5. ASSUME NEW a \in G
      PROVE  w[a + right] = NULL \/ (w[a + right] \in G /\ a < w[a + right])
  <2>1. CASE m[a + right] = t
    <3>1. a < t /\ w[a + right] = m[t + right]
      BY <2>1, <1>1, <1>3
    <3>2. CASE m[t + right] = NULL
      BY <3>1, <3>2
    <3>3. CASE m[t + right] # NULL
      <4>1. m[t + right] \in F /\ t < m[t + right] /\ m[t + right] \in Int /\ a \in Int
        BY <3>3, <1>1, <1>3
      <4>2. m[t + right] # t /\ a < m[t + right]
        BY <4>1, <3>1, <1>1
      <4> QED
        BY <4>1, <4>2, <3>1
    <3> QED
      BY <3>2, <3>3
  <2>2. CASE m[a + right] # t
    BY <2>2, <1>3
  <2> QED
    BY <2>1, <2>2
<1>6. ASSUME NEW a \in G, NEW b \in G, a < b
      PROVE  w[a + right] # NULL /\ w[a + right] <= b
  <2>1. m[a + right] # NULL /\ m[a + right] <= b
    BY <1>4, <1>6
  <2>2. CASE m[a + right] = t
    <3>1. t < b
      BY <2>1, <2>2, <1>1
    <3> QED
      BY <2>2, <3>1, <1>4
  <2>3. CASE m[a + right] # t
    BY <2>1, <2>3
  <2> QED
    BY <2>2, <2>3
<1> HIDE DEF G
<1>7. Listed(w, h, G)
  BY <1>2, <1>5, <1>6 DEF Listed
<1> QED
  BY <1>7 DEF G

(* The block n comes behind t, and in front of the block that followed t.   *)
LEMMA ListInsert ==
  ASSUME NEW m, NEW w, NEW h, NEW F, F \subseteq Headers, Listed(m, h, F),
         NEW t \in F, NEW n \in Headers, n \notin F, t < n,
         m[t + right] # NULL => n < m[t + right],
         w[n + right] = m[t + right], w[t + right] = n,
         \A a \in F : a # t => w[a + right] = m[a + right]
  PROVE  Listed(w, h, F \cup {n})
<1> DEFINE G == F \cup {n}
<1>1. /\ t \in Int /\ n \in Int /\ F \subseteq Int /\ n # NULL
      /\ h \in F /\ \A a \in F : h <= a
  BY HeaderWords, ListFacts DEF NULL
<1>2. h \in G /\ \A a \in G : h <= a
  BY <1>1
<1>3. \A a \in F : m[a + right] = NULL \/ (m[a + right] \in F /\ a < m[a + right])
  BY ListFacts
<1>4. \A a, b \in F : a < b => m[a + right] # NULL /\ m[a + right] <= b
  BY ListFacts
<1>5. ASSUME NEW b \in F PROVE b <= t \/ n < b
  <2>1. CASE t < b
    <3>1. m[t + right] # NULL /\ m[t + right] <= b
      BY <2>1, <1>4
    <3>2. m[t + right] \in Int /\ n < m[t + right] /\ b \in Int
      BY <3>1, <1>1, <1>3
    <3> QED
      BY <3>1, <3>2, <1>1
  <2> QED
    BY <2>1, <1>1
<1>6. ASSUME NEW a \in G
      PROVE  w[a + right] = NULL \/ (w[a + right] \in G /\ a < w[a + right])
  <2>1. CASE a = n
    BY <2>1, <1>3
  <2>2. CASE a = t
    BY <2>2
  <2>3. CASE a \in F /\ a # t
    BY <2>3, <1>3
  <2> QED
    BY <2>1, <2>2, <2>3
<1>7. ASSUME NEW a \in G, NEW b \in G, a < b
      PROVE  w[a + right] # NULL /\ w[a + right] <= b
  <2>1. CASE a = n
    <3>1. b \in F /\ t < b
      BY <2>1, <1>1, <1>7
    <3> QED
      BY <2>1, <3>1, <1>4
  <2>2. CASE a = t
    BY <2>2, <1>1, <1>5, <1>7
  <2>3. CASE a \in F /\ a # t /\ b \in F
    BY <2>3, <1>4, <1>7
  <2>4. CASE a \in F /\ a # t /\ b = n
    <3>1. a < t
      BY <2>4, <1>1, <1>5, <1>7
    <3>2. m[a + right] # NULL /\ m[a + right] <= t /\ m[a + right] \in Int
      BY <2>4, <3>1, <1>1, <1>3, <1>4
    <3>3. m[a + right] <= n
      BY <3>2, <1>1
    <3>4. w[a + right] = m[a + right]
      BY <2>4
    <3> QED
      BY <2>4, <3>2, <3>3, <3>4
  <2> QED
    BY <2>1, <2>2, <2>3, <2>4
<1> HIDE DEF G
<1>8. Listed(w, h, G)
  BY <1>2, <1>6, <1>7 DEF Listed
<1> QED
  BY <1>8 DEF G

(* The block n comes in front. *)
LEMMA ListFront ==
  ASSUME NEW m, NEW w, NEW h, NEW F, F \subseteq Headers, Listed(m, h, F),
         NEW n \in Headers, n \notin F, F # {} => n < h,
         w[n + right] = h,
         \A a \in F : w[a + right] = m[a + right]
  PROVE  Listed(w, n, F \cup {n})
<1> DEFINE G == F \cup {n}
<1>1. /\ n \in Int /\ F \subseteq Int /\ n # NULL
      /\ F # {} => h \in F /\ \A a \in F : h <= a
      /\ F = {} <=> h = NULL
  BY HeaderWords, ListFacts DEF NULL
<1>2. n \in G /\ \A a \in G : n <= a
  <2>1. ASSUME NEW a \in F PROVE n <= a
    <3>1. F # {} /\ n < h /\ h \in F /\ h <= a /\ h \in Int /\ a \in Int
      BY <1>1
    <3> QED
      BY <3>1, <1>1
  <2> QED
    BY <2>1, <1>1
<1>3. \A a \in F : m[a + right] = NULL \/ (m[a + right] \in F /\ a < m[a + right])
  BY ListFacts
<1>4. \A a, b \in F : a < b => m[a + right] # NULL /\ m[a + right] <= b
  BY ListFacts
<1>5. ASSUME NEW a \in G
      PROVE  w[a + right] = NULL \/ (w[a + right] \in G /\ a < w[a + right])
  <2>1. CASE a = n
    BY <2>1, <1>1
  <2>2. CASE a \in F
    BY <2>2, <1>3
  <2> QED
    BY <2>1, <2>2
<1>6. ASSUME NEW a \in G, NEW b \in G, a < b
      PROVE  w[a + right] # NULL /\ w[a + right] <= b
  <2>1. b \in F
    BY <1>2, <1>1, <1>6
  <2>2. CASE a = n
    BY <2>1, <2>2, <1>1
  <2>3. CASE a \in F
    BY <2>1, <2>3, <1>4, <1>6
  <2> QED
    BY <2>2, <2>3
<1> HIDE DEF G
<1>7. Listed(w, n, G)
  BY <1>2, <1>5, <1>6 DEF Listed
<1> QED
  BY <1>7 DEF G

-----------------------------------------------------------------------------
(* Steps that leave the memory and the head of the list as they are.        *)
LEMMA InvFacts ==
  ASSUME IInv
  PROVE  /\ TypeOK /\ TypeInv /\ mem \in Memories
         /\ Blocks(mem, FreeBlocks \cup Taken) /\ Blocks(mem, FreeBlocks)
         /\ FreeBlocks \cap Taken = {}
         /\ Listed(mem, head, FreeBlocks) /\ FreeBlocks \subseteq Headers /\ Taken \subseteq Headers
         /\ \A s \in Live : Node(s) \in Taken /\ ptr[s] = Node(s) + HEADER_SIZE
<1>1. /\ TypeOK /\ Blocks(mem, FreeBlocks \cup Taken) /\ FreeBlocks \cap Taken = {}
      /\ Listed(mem, head, FreeBlocks)
  BY DEF IInv, HeapInv
<1>2. FreeBlocks \cup Taken \subseteq Headers /\ Blocks(mem, FreeBlocks)
  BY <1>1, BlocksPart DEF Blocks
<1>3. pc = "insert" => arg \in Headers
  BY <1>2 DEF Taken
<1>4. \A s \in Live : Node(s) \in Taken /\ ptr[s] = Node(s) + HEADER_SIZE
  BY <1>1, NodeType DEF Taken, Live
<1> QED
  BY <1>1, <1>2, <1>3, <1>4 DEF TypeInv, TypeOK, Memories

LEMMA SameHeap ==
  ASSUME UNCHANGED <<mem, head>>
  PROVE  /\ FreeBlocks' = FreeBlocks
         /\ \A n : (Fits(n)' <=> Fits(n)) /\ (LinkedBack(n)' <=> LinkedBack(n))
         /\ \A a, sz : Stops(a, sz)' <=> Stops(a, sz)
         /\ \A a : BufferTells(a)' <=> BufferTells(a)
<1>1. FreeBlocks' = FreeBlocks
  BY DEF FreeBlocks
<1>2. \A a, sz : Stops(a, sz)' <=> Stops(a, sz)
  BY DEF Stops
<1>3. \A F, a, sz : FirstFit(F, a, sz)' <=> FirstFit(F, a, sz)
  BY <1>2 DEF FirstFit
<1>4. \A n : (Fits(n)' <=> Fits(n)) /\ (LinkedBack(n)' <=> LinkedBack(n))
  BY <1>1, <1>3 DEF Fits, LinkedBack
<1>5. \A a : BufferTells(a)' <=> BufferTells(a)
  BY <1>1 DEF BufferTells
<1> QED
  BY <1>1, <1>2, <1>4, <1>5

LEMMA CallInv ==
  ASSUME IInv, TypeOK', NEW s \in Slots, NEW n \in Requests,
         Fits(n), LinkedBack(n), MyMalloc(s, n)
  PROVE  IInv'
<1>1. /\ pc = "idle" /\ ptr[s] = NULL /\ pc' = "scan" /\ tmp' = head
      /\ arg' = FixAlignment8Bytes(n) /\ slot' = s /\ req' = [req EXCEPT ![s] = n]
      /\ UNCHANGED <<mem, head, ptr>>
  BY DEF MyMalloc
<1>2. FreeBlocks' = FreeBlocks /\ Fits(n)' /\ LinkedBack(n)'
  BY <1>1, SameHeap
<1>3. Taken' = Taken /\ Live' = Live
  BY <1>1 DEF Taken, Live, Node
<1>4. HeapInv'
  BY <1>1, <1>2, <1>3 DEF IInv, HeapInv
<1>5. Held'
  <2>1. \A t \in Live : t # s /\ req'[t] = req[t]
    BY <1>1 DEF Live, IInv, TypeOK
  <2> QED
    BY <1>1, <1>3, <2>1 DEF IInv, Held, Node
<1>6. req'[s] = n
  BY <1>1 DEF IInv, TypeOK
<1>7. head \in FreeBlocks /\ \A a \in FreeBlocks : ~(a < head)
  <2>1. FreeBlocks # {}
    BY DEF Fits
  <2>2. head \in FreeBlocks /\ \A a \in FreeBlocks : head <= a /\ a \in Int /\ head \in Int
    BY <2>1, InvFacts, ListFacts
  <2> QED
    BY <2>2
<1>8. Scanning'
  BY <1>1, <1>2, <1>6, <1>7 DEF Scanning
<1> QED
  BY <1>1, <1>4, <1>5, <1>8 DEF IInv, Inserting

LEMMA FirstFitStepInv ==
  ASSUME IInv, TypeOK', FirstFitStep
  PROVE  IInv'
<1>1. /\ pc = "scan" /\ mem[tmp + right] # NULL /\ ~Stops(tmp, arg) /\ tmp' = mem[tmp + right]
      /\ UNCHANGED <<mem, head, pc, arg, slot, ptr, req>>
  <2>1. mem[tmp + size] \in Int /\ arg \in Int
    BY InvFacts, HeaderWords DEF FirstFitStep, Memories, TypeOK
  <2> QED
    BY <2>1 DEF FirstFitStep, Skip, Stops
<1>2. /\ FreeBlocks' = FreeBlocks /\ Fits(req[slot])' /\ LinkedBack(req[slot])'
      /\ \A a, sz : Stops(a, sz)' <=> Stops(a, sz)
  BY <1>1, SameHeap DEF IInv, Scanning
<1>3. Taken' = Taken /\ Live' = Live
  BY <1>1 DEF Taken, Live, Node
<1>4. tmp \in FreeBlocks /\ \A a \in FreeBlocks : a < tmp => ~Stops(a, arg)
  BY <1>1 DEF IInv, Scanning
<1>5. tmp' \in FreeBlocks /\ \A a \in FreeBlocks : a < tmp' => ~Stops(a, arg)
  <2>1. tmp' \in FreeBlocks
    BY <1>1, <1>4, InvFacts, ListFacts
  <2> SUFFICES ASSUME NEW a \in FreeBlocks, a < tmp' PROVE ~Stops(a, arg)
    BY <2>1
  <2>2. tmp < a => tmp' <= a
    BY <1>1, <1>4, InvFacts, ListFacts
  <2>3. a \in Int /\ tmp \in Int /\ tmp' \in Int
    BY <1>4, <2>1, InvFacts, ListFacts
  <2>4. a = tmp \/ a < tmp
    BY <2>2, <2>3
  <2> QED
    BY <2>4, <1>1, <1>4
<1>6. HeapInv' /\ Held'
  BY <1>1, <1>2, <1>3 DEF IInv, HeapInv, Held, Node
<1>7. Scanning'
  BY <1>1, <1>2, <1>5 DEF IInv, Scanning
<1> QED
  BY <1>1, <1>6, <1>7 DEF IInv, Inserting

LEMMA InsertStepInv ==
  ASSUME IInv, TypeOK', InsertStep
  PROVE  IInv'
<1>1. /\ pc = "insert" /\ mem[tmp + right] # NULL /\ mem[tmp + right] < arg
      /\ tmp' = mem[tmp + right] /\ UNCHANGED <<mem, head, pc, arg, slot, ptr, req>>
  BY DEF InsertStep, Before
<1>2. FreeBlocks' = FreeBlocks /\ BufferTells(arg)'
  BY <1>1, SameHeap DEF IInv, Inserting
<1>3. Taken' = Taken /\ Live' = Live
  BY <1>1 DEF Taken, Live, Node
<1>4. tmp' \in FreeBlocks
  <2>1. tmp \in FreeBlocks
    BY <1>1 DEF IInv, Inserting
  <2> QED
    BY <1>1, <2>1, InvFacts, ListFacts
<1>5. HeapInv' /\ Held'
  BY <1>1, <1>2, <1>3 DEF IInv, HeapInv, Held, Node
<1> QED
  BY <1>1, <1>2, <1>4, <1>5 DEF IInv, Scanning, Inserting

LEMMA FreeSlotFacts ==
  ASSUME IInv, NEW s \in Slots, FreeSlot(s)
  PROVE  /\ pc = "idle" /\ s \in Live /\ Live' = Live \ {s} /\ slot' = slot
         /\ Node(s) \in Headers /\ Node(s) \in Taken /\ Node(s) \notin FreeBlocks
         /\ ptr[s] = Node(s) + HEADER_SIZE
         /\ \A t \in Live' : /\ ptr'[t] = ptr[t] /\ req'[t] = req[t]
                             /\ Node(t)' = Node(t) /\ Node(t) # Node(s)
         /\ {Node(t)' : t \in Live'} = Taken \ {Node(s)}
<1>1. /\ pc = "idle" /\ ptr[s] # NULL /\ ptr' = [ptr EXCEPT ![s] = NULL]
      /\ req' = [req EXCEPT ![s] = 0] /\ slot' = slot
  BY DEF FreeSlot
<1>2. s \in Live /\ Live' = Live \ {s}
  BY <1>1, InvFacts DEF Live, TypeOK
<1>3. /\ Node(s) \in Headers /\ Node(s) \in Taken /\ Node(s) \notin FreeBlocks
      /\ ptr[s] = Node(s) + HEADER_SIZE
  BY <1>2, InvFacts
<1>4. \A t \in Live' : /\ ptr'[t] = ptr[t] /\ req'[t] = req[t] /\ Node(t)' = Node(t)
  BY <1>1, <1>2, InvFacts DEF TypeOK, Live, Node
<1>5. \A t \in Live' : Node(t) # Node(s)
  <2> SUFFICES ASSUME NEW t \in Live', Node(t) = Node(s) PROVE FALSE
    OBVIOUS
  <2>1. ptr[t] = ptr[s]
    BY <1>2, <1>3, InvFacts
  <2> QED
    BY <1>2, <2>1 DEF IInv, Held
<1>6. Taken = {Node(t) : t \in Live}
  BY <1>1 DEF Taken
<1>7. {Node(t)' : t \in Live'} = Taken \ {Node(s)}
  BY <1>2, <1>4, <1>5, <1>6
<1> QED
  BY <1>1, <1>2, <1>3, <1>4, <1>5, <1>7

LEMMA FreeBehindInv ==
  ASSUME IInv, TypeOK', NEW s \in Slots, BufferTells(Node(s)), FreeBehind(s)
  PROVE  IInv'
<1>1. /\ FreeSlot(s) /\ head # NULL /\ head < Node(s) /\ pc' = "insert" /\ tmp' = head
      /\ arg' = Node(s) /\ UNCHANGED <<mem, head>>
  BY DEF FreeBehind
<1>2. /\ pc = "idle" /\ s \in Live /\ Live' = Live \ {s}
      /\ Node(s) \in Headers /\ Node(s) \in Taken
      /\ \A t \in Live' : /\ ptr'[t] = ptr[t] /\ req'[t] = req[t]
                          /\ Node(t)' = Node(t) /\ Node(t) # Node(s)
      /\ {Node(t)' : t \in Live'} = Taken \ {Node(s)}
  BY <1>1, FreeSlotFacts
<1>3. FreeBlocks' = FreeBlocks /\ BufferTells(arg)'
  <2>1. FreeBlocks' = FreeBlocks
    BY <1>1, SameHeap
  <2>2. BufferTells(arg)'
    BY <1>1, <2>1 DEF BufferTells
  <2> QED
    BY <2>1, <2>2
<1>4. Taken' = Taken
  <2>1. Taken' = {Node(t)' : t \in Live'} \cup {Node(s)}
    BY <1>1 DEF Taken
  <2> QED
    BY <1>2, <2>1
<1>5. HeapInv'
  BY <1>1, <1>3, <1>4 DEF IInv, HeapInv
<1>6. Held'
  BY <1>1, <1>2 DEF IInv, Held
<1>7. head \in FreeBlocks
  BY <1>1, InvFacts, ListFacts
<1> QED
  BY <1>1, <1>3, <1>5, <1>6, <1>7 DEF IInv, Scanning, Inserting

-----------------------------------------------------------------------------
(* Steps that write memory. *)
LEMMA IdleInv ==
  ASSUME TypeOK', pc' = "idle", NEW F, Blocks(mem', F \cup Taken'), F \cap Taken' = {},
         Listed(mem', head', F), Held'
  PROVE  IInv' /\ FreeBlocks' = F
<1>1. Blocks(mem', F)
  BY BlocksPart
<1>2. FreeBlocks' = F
  BY <1>1, ListIs DEF FreeBlocks
<1>3. HeapInv'
  BY <1>2 DEF HeapInv
<1> QED
  BY <1>2, <1>3 DEF IInv, Scanning, Inserting

(* A word outside the header at a. *)
Outside(x, a) == x < a \/ a + HEADER_SIZE <= x

LEMMA FieldsOutside ==
  ASSUME NEW a \in Int, NEW b \in Int, a + HEADER_SIZE <= b \/ b + HEADER_SIZE <= a
  PROVE  /\ Outside(a + left, b) /\ Outside(a + right, b)
         /\ Outside(a + size, b) /\ Outside(a + buffer, b)
BY DEF Outside, HEADER_SIZE, left, right, size, buffer

LEMMA ReqInt ==
  ASSUME IInv, NEW s \in Live
  PROVE  req[s] \in Nat
<1>1. req[s] \in Requests \cup {0}
  BY DEF IInv, TypeOK, Live
<1>2. req[s] \in Requests => req[s] \in Nat
  BY ClientAssumption, Zenon
<1> QED
  BY <1>1, <1>2

(* The words the client asked for lie in its block, behind the header.      *)
LEMMA DataWithin ==
  ASSUME IInv, NEW s \in Live, NEW x \in DataWords(s)
  PROVE  /\ x \in Words /\ x \in Int /\ Node(s) \in Int /\ mem[Node(s) + size] \in Nat
         /\ Node(s) \in FreeBlocks \cup Taken
         /\ Node(s) + HEADER_SIZE <= x /\ x < Node(s) + HEADER_SIZE + mem[Node(s) + size]
<1>1. /\ Node(s) \in FreeBlocks \cup Taken /\ ptr[s] = Node(s) + HEADER_SIZE
      /\ Node(s) \in Int /\ mem[Node(s) + size] \in Nat
  BY InvFacts, BlockFacts
<1>2. /\ x \in Words /\ x \in Int /\ ptr[s] <= x /\ x < ptr[s] + req[s]
  BY MemoryAssumption DEF DataWords, Words, End
<1>3. req[s] <= mem[Node(s) + size] /\ req[s] \in Int
  BY ReqInt DEF IInv, Held
<1> QED
  BY <1>1, <1>2, <1>3 DEF HEADER_SIZE

(* No word the client asked for is a word of a header.                      *)
LEMMA DataOutside ==
  ASSUME IInv, NEW s \in Live, NEW x \in DataWords(s), NEW a \in FreeBlocks \cup Taken
  PROVE  Outside(x, a)
<1>1. /\ x \in Int /\ Node(s) \in Int /\ mem[Node(s) + size] \in Nat
      /\ Node(s) \in FreeBlocks \cup Taken
      /\ Node(s) + HEADER_SIZE <= x /\ x < Node(s) + HEADER_SIZE + mem[Node(s) + size]
  BY DataWithin
<1>2. /\ a \in Int /\ mem[a + size] \in Nat
      /\ (a < Node(s) => a + HEADER_SIZE + mem[a + size] <= Node(s))
      /\ (Node(s) < a => Node(s) + HEADER_SIZE + mem[Node(s) + size] <= a)
  BY <1>1, InvFacts, BlockFacts
<1> QED
  BY <1>1, <1>2 DEF Outside, HEADER_SIZE

LEMMA FillInv ==
  ASSUME IInv, TypeOK', NEW s \in Slots, NEW d \in UserData, Fill(s, d)
  PROVE  IInv'
<1>1. /\ pc = "idle" /\ s \in Live /\ mem' = [a \in Words |-> IF a \in DataWords(s) THEN d ELSE mem[a]]
      /\ UNCHANGED <<head, pc, tmp, arg, slot, ptr, req>>
  BY DEF Fill, Live
<1>2. Taken' = Taken /\ Live' = Live /\ \A t \in Slots : Node(t)' = Node(t)
  BY <1>1 DEF Taken, Live, Node
<1>3. ASSUME NEW a \in FreeBlocks \cup Taken
      PROVE  /\ mem'[a + right] = mem[a + right] /\ mem'[a + size] = mem[a + size]
             /\ mem'[a + buffer] = mem[a + buffer]
  <2>1. a \in Headers /\ a \in Int
    BY InvFacts, HeaderWords
  <2>2. \A x \in Words : Outside(x, a) \/ mem'[x] = mem[x]
    BY <1>1, DataOutside
  <2>3. ~Outside(a + left, a) /\ ~Outside(a + right, a) /\ ~Outside(a + size, a) /\ ~Outside(a + buffer, a)
    BY <2>1 DEF Outside, HEADER_SIZE, left, right, size, buffer
  <2> QED
    BY <2>1, <2>2, <2>3, HeaderWords
<1>4. Blocks(mem', FreeBlocks \cup Taken')
  BY <1>2, <1>3, InvFacts, BlocksPart
<1>5. Listed(mem', head', FreeBlocks)
  BY <1>1, <1>3, InvFacts, ListSame
<1>6. Held'
  <2>1. \A t \in Live : Node(t) \in FreeBlocks \cup Taken /\ t \in Slots
    BY InvFacts DEF Live
  <2> QED
    BY <1>1, <1>2, <1>3, <2>1 DEF IInv, Held
<1>7. FreeBlocks \cap Taken' = {}
  BY <1>2, InvFacts
<1> QED
  BY <1>1, <1>4, <1>5, <1>6, <1>7, IdleInv

-----------------------------------------------------------------------------
(* MyFree. *)
LEMMA TakenIdle == pc' = "idle" => Taken' = {Node(t)' : t \in Live'}
BY DEF Taken

(* What is still held after MyFree was held before. *)
LEMMA StillHeld ==
  ASSUME IInv, NEW s \in Slots, FreeSlot(s), pc' = "idle",
         \A t \in Live' : /\ mem'[Node(t) + size] = mem[Node(t) + size]
                          /\ mem'[Node(t) + buffer] = mem[Node(t) + buffer]
  PROVE  Held'
<1>1. /\ Live' \subseteq Live
      /\ \A t \in Live' : ptr'[t] = ptr[t] /\ req'[t] = req[t] /\ Node(t)' = Node(t)
  BY FreeSlotFacts
<1> QED
  BY <1>1 DEF IInv, Held

LEMMA FreeIntoEmptyInv ==
  ASSUME IInv, TypeOK', NEW s \in Slots, FreeIntoEmpty(s)
  PROVE  IInv'
<1> DEFINE n == Node(s)
<1>1. /\ FreeSlot(s) /\ head = NULL /\ head' = n /\ UNCHANGED <<pc, tmp, arg>>
      /\ mem' = [mem EXCEPT ![n + right] = NULL, ![n + left] = NULL]
  BY DEF FreeIntoEmpty
<1>2. /\ pc' = "idle" /\ n \in Headers /\ n \in Taken
      /\ \A t \in Live' : Node(t) \in Taken /\ Node(t) # n
      /\ Taken' = Taken \ {n}
  BY <1>1, FreeSlotFacts, InvFacts, TakenIdle
<1>3. FreeBlocks = {} /\ mem \in Memories /\ Blocks(mem, Taken) /\ Taken \subseteq Headers
  BY <1>1, InvFacts, ListFacts
<1>4. /\ mem'[n + right] = NULL
      /\ \A x \in Words : x # n + right /\ x # n + left => mem'[x] = mem[x]
  BY <1>1, <1>2, <1>3, HeaderWords DEF Memories, left, right
<1>5. \A a \in Taken : mem'[a + size] = mem[a + size] /\ mem'[a + buffer] = mem[a + buffer]
  <2> SUFFICES ASSUME NEW a \in Taken
               PROVE  mem'[a + size] = mem[a + size] /\ mem'[a + buffer] = mem[a + buffer]
    OBVIOUS
  <2>1. a \in Headers /\ a \in Int /\ n \in Int /\ (a # n => a + HEADER_SIZE <= n \/ n + HEADER_SIZE <= a)
    BY <1>2, <1>3, HeaderWords, HeadersApart
  <2>2. /\ a + size # n + right /\ a + size # n + left
        /\ a + buffer # n + right /\ a + buffer # n + left
    BY <2>1 DEF HEADER_SIZE, left, right, size, buffer
  <2> QED
    BY <2>1, <2>2, <1>4, HeaderWords
<1>6. Blocks(mem', {n} \cup Taken')
  <2>1. {n} \cup Taken' \subseteq Taken
    BY <1>2
  <2> QED
    BY <2>1, <1>3, <1>5, BlocksPart
<1>7. Listed(mem', n, {n})
  BY <1>4, <1>2, HeaderWords DEF Listed
<1>8. Held'
  BY <1>1, <1>2, <1>5, StillHeld
<1> HIDE DEF n
<1> QED
  BY <1>1, <1>2, <1>6, <1>7, <1>8, IdleInv


LEMMA FreeInFrontInv ==
  ASSUME IInv, TypeOK', NEW s \in Slots, FreeInFront(s)
  PROVE  IInv'
<1> DEFINE n == Node(s)
<1> DEFINE F == FreeBlocks
<1> DEFINE m == [mem EXCEPT ![head + left] = n, ![n + right] = head, ![n + left] = NULL]
<1>1. /\ FreeSlot(s) /\ head # NULL /\ head >= n /\ head' = n /\ UNCHANGED <<pc, tmp, arg>>
      /\ CoalesceFreeNodes(m, n)
  BY DEF FreeInFront
<1>2. /\ pc' = "idle" /\ n \in Headers /\ n \in Taken /\ n \notin F /\ s \in Live
      /\ ptr[s] = n + HEADER_SIZE
      /\ \A t \in Live' : Node(t) \in Taken /\ Node(t) # n
      /\ Taken' = Taken \ {n}
  BY <1>1, FreeSlotFacts, InvFacts, TakenIdle
<1>3. /\ mem \in Memories /\ Blocks(mem, F \cup Taken) /\ F \cap Taken = {}
      /\ F \cup Taken \subseteq Headers /\ Listed(mem, head, F) /\ F \subseteq Headers
  BY InvFacts
<1>4. /\ head \in F /\ head \in Headers /\ n \in Int /\ head \in Int /\ n < head
      /\ n + HEADER_SIZE <= head /\ n # NULL
  <2>1. head \in F /\ head \in Headers
    BY <1>1, <1>3, ListFacts
  <2>2. n \in Int /\ head \in Int /\ n # NULL
    BY <1>2, <2>1, HeaderWords DEF NULL
  <2>3. n < head
    BY <1>1, <1>2, <2>1, <2>2
  <2>4. mem[n + size] \in Nat /\ n + HEADER_SIZE + mem[n + size] <= head
    BY <1>2, <1>3, <2>1, <2>3, BlockFacts
  <2> QED
    BY <2>1, <2>2, <2>3, <2>4 DEF HEADER_SIZE
<1>5. /\ n + left \in Words /\ n + right \in Words /\ n + size \in Words /\ head + left \in Words
      /\ n + left # head + left /\ n + right # head + left /\ n + left # n + right
  BY <1>2, <1>4, HeaderWords DEF HEADER_SIZE, left, right
<1>6. /\ m \in Memories /\ m[n + left] = NULL /\ m[n + right] = head
      /\ \A x \in Words : x \notin {head + left, n + right, n + left} => m[x] = mem[x]
  BY <1>3, <1>4, <1>5 DEF Memories, NULL
<1>7. ASSUME NEW a \in F \cup Taken
      PROVE  /\ m[a + size] = mem[a + size] /\ m[a + buffer] = mem[a + buffer]
             /\ a # n => m[a + right] = mem[a + right]
  <2>1. a \in Headers /\ a \in Int
    BY <1>3, HeaderWords
  <2>2. /\ a # n => a + HEADER_SIZE <= n \/ n + HEADER_SIZE <= a
        /\ a # head => a + HEADER_SIZE <= head \/ head + HEADER_SIZE <= a
    BY <1>2, <1>3, <1>4, HeadersApart
  <2>3. /\ a + size \notin {head + left, n + right, n + left}
        /\ a + buffer \notin {head + left, n + right, n + left}
        /\ a # n => a + right \notin {head + left, n + right, n + left}
    BY <2>1, <2>2, <1>4 DEF HEADER_SIZE, left, right, size, buffer
  <2> QED
    BY <2>1, <2>3, <1>6, HeaderWords
<1>8. m[n + buffer] = n + HEADER_SIZE
  BY <1>2, <1>7 DEF IInv, Held
<1> HIDE DEF m
<1>9. \/ /\ n + HEADER_SIZE + m[n + size] # head /\ mem' = m
      \/ /\ n + HEADER_SIZE + m[n + size] = head /\ mem' = Merged(m, n, head)
  BY <1>1, <1>4, <1>6, <1>8 DEF CoalesceFreeNodes, Adjoins, NULL
<1>10. CASE mem' = m
  <2>1. Listed(mem', n, F \cup {n})
    <3>1. \A a \in F : mem'[a + right] = mem[a + right]
      BY <1>2, <1>7, <1>10
    <3>2. mem'[n + right] = head
      BY <1>6, <1>10
    <3> QED
      BY <3>1, <3>2, <1>2, <1>3, <1>4, ListFront
  <2>2. Blocks(mem', (F \cup {n}) \cup Taken')
    <3>1. (F \cup {n}) \cup Taken' \subseteq F \cup Taken
      BY <1>2
    <3> QED
      BY <3>1, <1>3, <1>7, <1>10, BlocksPart
  <2>3. (F \cup {n}) \cap Taken' = {}
    BY <1>2, <1>3
  <2>4. Held'
    BY <1>1, <1>2, <1>7, <1>10, StillHeld
  <2> HIDE DEF n, F
  <2> QED
    BY <1>1, <1>2, <2>1, <2>2, <2>3, <2>4, IdleInv
<1>11. CASE n + HEADER_SIZE + m[n + size] = head /\ mem' = Merged(m, n, head)
  <2> DEFINE G == (F \ {head}) \cup {n}
  <2>1. /\ mem'[n + size] = mem[n + size] + mem[head + size]
        /\ mem'[n + right] = mem[head + right]
        /\ \A x \in Words : x # n + size /\ x # n + right => mem'[x] = m[x]
    <3>1. /\ mem'[n + size] = m[n + size] + m[head + size] /\ mem'[n + right] = m[head + right]
          /\ \A x \in Words : x # n + size /\ x # n + right => mem'[x] = m[x]
      BY <1>4, <1>5, <1>6, <1>11 DEF Merged, Memories, right, size
    <3> QED
      BY <3>1, <1>2, <1>4, <1>7
  <2>2. ASSUME NEW a \in F \cup Taken, a # n
        PROVE  /\ mem'[a + size] = mem[a + size] /\ mem'[a + buffer] = mem[a + buffer]
               /\ mem'[a + right] = mem[a + right]
    <3>1. a \in Headers /\ a \in Int /\ (a + HEADER_SIZE <= n \/ n + HEADER_SIZE <= a)
      BY <1>2, <1>3, <2>2, HeaderWords, HeadersApart
    <3>2. /\ a + size # n + size /\ a + size # n + right
          /\ a + buffer # n + size /\ a + buffer # n + right
          /\ a + right # n + size /\ a + right # n + right
      BY <3>1, <1>4 DEF HEADER_SIZE, right, size, buffer
    <3> QED
      BY <3>1, <3>2, <1>7, <2>1, <2>2, HeaderWords
  <2>3. Listed(mem', n, G)
    <3>1. \A b \in F : (b < head => b < n) /\ (head < b => n < b)
      <4>1. \A b \in F : b \in Int /\ head <= b
        BY <1>3, ListFacts
      <4> QED
        BY <4>1, <1>4
    <3>2. \A a \in F : a # head => mem'[a + right] = IF mem[a + right] = head THEN n ELSE mem[a + right]
      <4>1. \A a \in F : mem[a + right] # head
        <5> SUFFICES ASSUME NEW a \in F, mem[a + right] = head PROVE FALSE
          OBVIOUS
        <5>1. a < head /\ head <= a /\ a \in Int
          BY <1>3, <1>4, ListFacts DEF NULL
        <5> QED
          BY <5>1, <1>4
      <4> QED
        BY <4>1, <1>2, <2>2
    <3>3. Listed(mem', IF head = head THEN n ELSE head, (F \ {head}) \cup {n})
      BY <1>2, <1>3, <1>4, <2>1, <3>1, <3>2, ListReplace
    <3> QED
      BY <3>3
  <2>4. Blocks(mem', (F \cup Taken) \ {head})
    <3>1. n + HEADER_SIZE + mem[n + size] = head
      BY <1>2, <1>7, <1>11
    <3>2. n \in F \cup Taken /\ head \in F \cup Taken
      BY <1>2, <1>4
    <3>3. \A x \in F \cup Taken : x # n /\ x # head => mem'[x + size] = mem[x + size]
      BY <2>2
    <3> HIDE DEF n, F
    <3> QED
      BY <3>1, <3>2, <3>3, <1>3, <2>1, BlocksMerge
  <2>5. Blocks(mem', G \cup Taken')
    <3>1. G \cup Taken' \subseteq (F \cup Taken) \ {head}
      BY <1>2, <1>3, <1>4
    <3> QED
      BY <2>4, <3>1, BlocksPart
  <2>6. G \cap Taken' = {}
    BY <1>2, <1>3
  <2>7. Held'
    BY <1>1, <1>2, <2>2, StillHeld
  <2> HIDE DEF n, F, G
  <2> QED
    BY <1>1, <1>2, <2>3, <2>5, <2>6, <2>7, IdleInv
<1> QED
  BY <1>9, <1>10, <1>11


LEMMA InsertNodeInv ==
  ASSUME IInv, TypeOK', InsertNode
  PROVE  IInv'
<1> DEFINE n == arg
<1> DEFINE t == tmp
<1> DEFINE F == FreeBlocks
<1> DEFINE m == [mem EXCEPT ![n + right] = mem[t + right], ![t + right] = n, ![n + left] = t]
<1>1. /\ pc = "insert" /\ ~(mem[t + right] # NULL /\ mem[t + right] < n)
      /\ CoalesceFreeNodes(m, n) /\ pc' = "idle" /\ UNCHANGED <<head, slot, ptr, req>>
  BY DEF InsertNode, Before, Return
<1>2. /\ t \in F /\ t < n /\ BufferTells(n)
  BY <1>1 DEF IInv, Inserting
<1>3. /\ mem \in Memories /\ Blocks(mem, F \cup Taken) /\ F \cap Taken = {}
      /\ F \cup Taken \subseteq Headers /\ Listed(mem, head, F) /\ F \subseteq Headers
      /\ Taken = {Node(s) : s \in Live} \cup {n}
  BY <1>1, InvFacts DEF Taken
<1>4. /\ n \in Taken /\ n \notin F /\ n \in Headers /\ t \in Headers
      /\ n \in Int /\ t \in Int /\ t # NULL /\ n # NULL
      /\ mem[n + size] \in Nat /\ mem[t + size] \in Nat
      /\ t + HEADER_SIZE + mem[t + size] <= n
  <2>1. n \in Taken /\ n \notin F /\ n \in Headers /\ t \in Headers
    BY <1>2, <1>3
  <2>2. n \in Int /\ t \in Int /\ t # NULL /\ n # NULL
    BY <2>1, HeaderWords DEF NULL
  <2>3. /\ mem[n + size] \in Nat /\ mem[t + size] \in Nat
        /\ t + HEADER_SIZE + mem[t + size] <= n
    BY <1>2, <1>3, <2>1, BlockFacts
  <2> QED
    BY <2>1, <2>2, <2>3
<1>5. t + HEADER_SIZE <= n
  BY <1>4 DEF HEADER_SIZE
<1>6. mem[t + right] # NULL =>
        /\ mem[t + right] \in F /\ mem[t + right] \in Int /\ n < mem[t + right]
        /\ n + HEADER_SIZE + mem[n + size] <= mem[t + right]
  <2> SUFFICES ASSUME mem[t + right] # NULL
               PROVE  /\ mem[t + right] \in F /\ mem[t + right] \in Int /\ n < mem[t + right]
                      /\ n + HEADER_SIZE + mem[n + size] <= mem[t + right]
    OBVIOUS
  <2>1. mem[t + right] \in F /\ mem[t + right] \in Int
    BY <1>2, <1>3, ListFacts
  <2>2. n < mem[t + right]
    BY <1>1, <1>4, <2>1
  <2> QED
    BY <2>1, <2>2, <1>3, <1>4, BlockFacts
<1>7. /\ Live' = Live /\ Taken' = Taken \ {n}
      /\ \A s \in Live : Node(s)' = Node(s) /\ Node(s) # n /\ Node(s) \in Taken
  <2>1. Live' = Live /\ \A s \in Live : Node(s)' = Node(s) /\ Node(s) # n /\ Node(s) \in Taken
    BY <1>1, <1>3 DEF Live, Node, IInv, Held
  <2>2. Taken' = {Node(s)' : s \in Live'}
    BY <1>1, TakenIdle
  <2> QED
    BY <2>1, <2>2, <1>3
<1>8. /\ n + left \in Words /\ n + right \in Words /\ t + right \in Words
      /\ n + left # t + right /\ n + right # t + right /\ n + left # n + right
  BY <1>4, <1>5, HeaderWords DEF HEADER_SIZE, left, right
<1>9. /\ m \in Memories /\ m[n + left] = t /\ m[n + right] = mem[t + right] /\ m[t + right] = n
      /\ \A x \in Words : x \notin {n + right, t + right, n + left} => m[x] = mem[x]
  <2>1. mem[t + right] \in Int
    BY <1>3, <1>8 DEF Memories
  <2> QED
    BY <2>1, <1>3, <1>4, <1>8 DEF Memories
<1>10. ASSUME NEW a \in F \cup Taken
       PROVE  /\ m[a + size] = mem[a + size] /\ m[a + buffer] = mem[a + buffer]
              /\ a # n /\ a # t => m[a + right] = mem[a + right]
  <2>1. a \in Headers /\ a \in Int
    BY <1>3, HeaderWords
  <2>2. /\ a # n => a + HEADER_SIZE <= n \/ n + HEADER_SIZE <= a
        /\ a # t => a + HEADER_SIZE <= t \/ t + HEADER_SIZE <= a
    BY <1>2, <1>3, <1>4, HeadersApart
  <2>3. /\ a + size \notin {n + right, t + right, n + left}
        /\ a + buffer \notin {n + right, t + right, n + left}
        /\ a # n /\ a # t => a + right \notin {n + right, t + right, n + left}
    BY <2>1, <2>2, <1>4, <1>5 DEF HEADER_SIZE, left, right, size, buffer
  <2> QED
    BY <2>1, <2>3, <1>9, HeaderWords
<1> HIDE DEF m
<1>11. /\ m[t + size] = mem[t + size] /\ m[t + buffer] = mem[t + buffer]
       /\ m[n + size] = mem[n + size]
  BY <1>2, <1>4, <1>10
<1>12. CASE ~Adjoins(m, t)
  <2>1. mem' = m
    BY <1>1, <1>4, <1>9, <1>12 DEF CoalesceFreeNodes
  <2>2. Listed(mem', head', F \cup {n})
    <3>1. \A a \in F : a # t => mem'[a + right] = mem[a + right]
      BY <1>4, <1>10, <2>1
    <3>2. mem'[n + right] = mem[t + right] /\ mem'[t + right] = n
      BY <1>9, <2>1
    <3>3. mem[t + right] # NULL => n < mem[t + right]
      BY <1>6
    <3>4. Listed(mem', head, F \cup {n})
      <4> HIDE DEF n, t, F
      <4> QED
        BY <3>1, <3>2, <3>3, <1>2, <1>3, <1>4, ListInsert
    <3> QED
      BY <3>4, <1>1
  <2>3. Blocks(mem', (F \cup {n}) \cup Taken')
    <3>1. (F \cup {n}) \cup Taken' \subseteq F \cup Taken
      BY <1>4, <1>7
    <3> QED
      BY <3>1, <1>3, <1>10, <2>1, BlocksPart
  <2>4. (F \cup {n}) \cap Taken' = {}
    BY <1>3, <1>7
  <2>5. Held'
    <3>1. \A s \in Live : /\ mem'[Node(s) + size] = mem[Node(s) + size]
                          /\ mem'[Node(s) + buffer] = mem[Node(s) + buffer]
      BY <1>7, <1>10, <2>1
    <3> QED
      BY <3>1, <1>1, <1>7 DEF IInv, Held
  <2> HIDE DEF n, F
  <2> QED
    BY <1>1, <2>2, <2>3, <2>4, <2>5, IdleInv
<1>13. CASE Adjoins(m, t)
  <2> DEFINE m1 == Merged(m, t, n)
  <2>1. mem[t + buffer] + mem[t + size] = n
    BY <1>9, <1>11, <1>13 DEF Adjoins
  <2>2. t + HEADER_SIZE + mem[t + size] = n
    <3>1. ASSUME NEW b \in F, b < n PROVE b <= t
      <4>1. b \in Int
        BY <1>3, ListFacts
      <4>2. t < b => mem[t + right] # NULL /\ mem[t + right] <= b
        BY <1>2, <1>3, ListFacts
      <4> QED
        BY <4>1, <4>2, <3>1, <1>4, <1>6
    <3>2. InFront(F, t, n)
      BY <3>1, <1>2 DEF InFront
    <3> QED
      BY <3>2, <2>1, <1>2 DEF BufferTells
  <2>3. /\ m1[t + size] = mem[t + size] + mem[n + size] /\ m1[t + right] = mem[t + right]
        /\ \A x \in Words : x # t + size /\ x # t + right => m1[x] = m[x]
    <3>1. /\ m1[t + size] = m[t + size] + m[n + size] /\ m1[t + right] = m[n + right]
          /\ \A x \in Words : x # t + size /\ x # t + right => m1[x] = m[x]
      BY <1>4, <1>9, HeaderWords DEF Merged, Memories, right, size
    <3> QED
      BY <3>1, <1>9, <1>11
  <2> HIDE DEF m1
  <2>4. ASSUME NEW a \in F \cup Taken, a # n
        PROVE  /\ a # t => m1[a + size] = mem[a + size]
               /\ m1[a + buffer] = mem[a + buffer]
               /\ m1[a + right] = mem[a + right]
    <3>1. a \in Headers /\ a \in Int /\ (a # t => a + HEADER_SIZE <= t \/ t + HEADER_SIZE <= a)
      BY <1>2, <1>3, HeaderWords, HeadersApart
    <3>2. /\ a + buffer # t + size /\ a + buffer # t + right
          /\ a # t => /\ a + size # t + size /\ a + size # t + right
                      /\ a + right # t + size /\ a + right # t + right
      BY <3>1, <1>4 DEF HEADER_SIZE, right, size, buffer
    <3>3. m1[a + buffer] = mem[a + buffer]
      BY <3>1, <3>2, <1>10, <2>3, HeaderWords
    <3>4. a # t => m1[a + size] = mem[a + size] /\ m1[a + right] = mem[a + right]
      BY <3>1, <3>2, <1>10, <2>3, <2>4, HeaderWords
    <3> QED
      BY <3>3, <3>4, <2>3
  <2>5. mem' = m1
    <3>1. ~Adjoins(m1, t)
      <4>1. m1[t + buffer] = mem[t + buffer]
        BY <2>4, <1>2, <1>4
      <4>2. mem[t + buffer] \in Int
        BY <1>3, <1>4, HeaderWords DEF Memories
      <4>3. m1[t + buffer] + m1[t + size] = n + mem[n + size]
        BY <4>1, <4>2, <1>4, <2>1, <2>3
      <4>4. n + mem[n + size] # mem[t + right]
        <5>1. n + mem[n + size] # NULL
          BY <1>4, HeaderWords DEF NULL
        <5> QED
          BY <5>1, <1>4, <1>6 DEF HEADER_SIZE
      <4> QED
        BY <4>3, <4>4, <2>3 DEF Adjoins
    <3> QED
      BY <3>1, <1>1, <1>4, <1>9, <1>13 DEF CoalesceFreeNodes, m1
  <2>6. Listed(mem', head', F)
    <3>1. \A a \in F : mem'[a + right] = mem[a + right]
      BY <1>4, <2>4, <2>5
    <3> QED
      BY <3>1, <1>1, <1>3, ListSame
  <2>7. Blocks(mem', (F \cup Taken) \ {n})
    <3>1. t \in F \cup Taken /\ n \in F \cup Taken
      BY <1>2, <1>4
    <3>2. \A x \in F \cup Taken : x # t /\ x # n => mem'[x + size] = mem[x + size]
      BY <2>4, <2>5
    <3>3. mem'[t + size] = mem[t + size] + mem[n + size]
      BY <2>3, <2>5
    <3> HIDE DEF n, t, F
    <3> QED
      BY <3>1, <3>2, <3>3, <1>3, <2>2, BlocksMerge
  <2>8. Blocks(mem', F \cup Taken')
    <3>1. F \cup Taken' \subseteq (F \cup Taken) \ {n}
      BY <1>4, <1>7
    <3> QED
      BY <2>7, <3>1, BlocksPart
  <2>9. F \cap Taken' = {}
    BY <1>3, <1>7
  <2>10. Held'
    <3>1. \A s \in Live : /\ mem'[Node(s) + size] = mem[Node(s) + size]
                          /\ mem'[Node(s) + buffer] = mem[Node(s) + buffer]
      BY <1>2, <1>3, <1>7, <2>4, <2>5
    <3> QED
      BY <3>1, <1>1, <1>7 DEF IInv, Held
  <2> HIDE DEF n, F
  <2> QED
    BY <1>1, <2>6, <2>8, <2>9, <2>10, IdleInv
<1> QED
  BY <1>12, <1>13

-----------------------------------------------------------------------------
(* MyMalloc. *)
LEMMA RoundedUp ==
  ASSUME NEW n \in Nat
  PROVE  /\ FixAlignment8Bytes(n) \in Nat /\ FixAlignment8Bytes(n) % 8 = 0
         /\ n <= FixAlignment8Bytes(n)
BY DEF FixAlignment8Bytes

(* The loop ends on the block that the request fits. *)
LEMMA FoundFits ==
  ASSUME IInv, Found
  PROVE  /\ tmp \in FreeBlocks /\ slot \in Slots /\ ptr[slot] = NULL /\ pc = "scan"
         /\ arg \in Nat /\ arg % 8 = 0 /\ req[slot] \in Nat /\ req[slot] <= arg
         /\ arg <= mem[tmp + size]
         /\ tmp # head => mem[tmp + left] \in FreeBlocks /\ mem[mem[tmp + left] + right] = tmp
<1> DEFINE F == FreeBlocks
<1>1. /\ pc = "scan" /\ tmp \in Headers /\ slot \in Slots
      /\ ptr[slot] = NULL /\ req[slot] \in Requests /\ arg = FixAlignment8Bytes(req[slot])
      /\ tmp \in F /\ \A a \in F : a < tmp => ~Stops(a, arg)
      /\ Fits(req[slot]) /\ LinkedBack(req[slot])
  BY DEF Found, IInv, Scanning, TypeOK
<1>2. req[slot] \in Nat
  BY <1>1, ClientAssumption, Zenon
<1>3. arg \in Nat /\ arg % 8 = 0 /\ req[slot] <= arg
  BY <1>1, <1>2, RoundedUp
<1>4. mem[tmp + size] \in Int /\ arg \in Int
  BY <1>1, <1>3, InvFacts, HeaderWords DEF Memories
<1>5. Stops(tmp, arg)
  BY <1>4 DEF Found, Skip, Stops
<1>6. FirstFit(F, tmp, arg)
  BY <1>1, <1>5 DEF FirstFit
<1>7. PICK b \in F : FirstFit(F, b, arg) /\ mem[b + size] >= arg
  BY <1>1 DEF Fits
<1>8. b = tmp
  <2>1. b \in Int /\ tmp \in Int
    BY <1>1, InvFacts, ListFacts
  <2>2. ~(b < tmp) /\ ~(tmp < b)
    BY <1>1, <1>5, <1>7 DEF FirstFit
  <2> QED
    BY <2>1, <2>2
<1>9. tmp # head => mem[tmp + left] \in F /\ mem[mem[tmp + left] + right] = tmp
  BY <1>1, <1>6 DEF LinkedBack
<1>10. arg <= mem[tmp + size]
  BY <1>4, <1>7, <1>8
<1> QED
  BY <1>1, <1>2, <1>3, <1>9, <1>10

(* The block at tmp becomes the client's, and F the free blocks. *)
LEMMA TookInv ==
  ASSUME IInv, TypeOK', Found, NEW F,
         pc' = "idle", req' = req, slot' = slot,
         ptr' = [ptr EXCEPT ![slot] = tmp + HEADER_SIZE],
         mem'[tmp + size] = arg, mem'[tmp + buffer] = tmp + HEADER_SIZE,
         \A a \in Taken : mem'[a + size] = mem[a + size] /\ mem'[a + buffer] = mem[a + buffer],
         Blocks(mem', F \cup (Taken \cup {tmp})), F \cap (Taken \cup {tmp}) = {},
         Listed(mem', head', F)
  PROVE  IInv'
<1>1. /\ tmp \in FreeBlocks /\ slot \in Slots /\ slot \notin Live /\ pc = "scan"
      /\ req[slot] <= arg
  BY FoundFits DEF Live
<1>2. /\ tmp \in Headers /\ tmp \in Int /\ tmp >= 256 /\ tmp \notin Taken
  BY <1>1, InvFacts, HeaderWords
<1>3. /\ ptr'[slot] = tmp + HEADER_SIZE /\ ptr'[slot] # NULL /\ Node(slot)' = tmp
      /\ \A s \in Live : s # slot /\ ptr'[s] = ptr[s] /\ Node(s)' = Node(s)
  <2>1. /\ ptr'[slot] = tmp + HEADER_SIZE
        /\ \A s \in Live : s # slot /\ ptr'[s] = ptr[s]
    BY <1>1, InvFacts DEF TypeOK, Live
  <2>2. ptr'[slot] # NULL /\ Node(slot)' = tmp
    BY <2>1, <1>2 DEF Node, HEADER_SIZE, NULL
  <2> QED
    BY <2>1, <2>2 DEF Node
<1>4. Live' = Live \cup {slot}
  BY <1>1, <1>3, InvFacts DEF Live, TypeOK
<1>5. Taken' = Taken \cup {tmp}
  <2>1. Taken = {Node(s) : s \in Live}
    BY <1>1 DEF Taken
  <2>2. Taken' = {Node(s)' : s \in Live'}
    BY TakenIdle
  <2>3. \A x : x \in Taken' <=> x \in Taken \/ x = tmp
    BY <2>1, <2>2, <1>3, <1>4
  <2> QED
    BY <2>3
<1>6. Held'
  <2>1. ASSUME NEW s \in Live
        PROVE  /\ req'[s] <= mem'[(Node(s) + size)'] /\ mem'[(Node(s) + buffer)'] = ptr'[s]
               /\ ptr'[s] # ptr'[slot]
    <3>1. Node(s) \in Taken /\ ptr[s] = Node(s) + HEADER_SIZE /\ Node(s) \in Int
      BY InvFacts, HeaderWords
    <3>2. /\ req'[s] <= mem'[(Node(s) + size)'] /\ mem'[(Node(s) + buffer)'] = ptr'[s]
      BY <3>1, <1>3 DEF IInv, Held, size, buffer
    <3>3. Node(s) # tmp
      BY <3>1, <1>2
    <3> QED
      BY <3>1, <3>2, <3>3, <1>2, <1>3 DEF HEADER_SIZE
  <2>2. req'[slot] <= mem'[(Node(slot) + size)'] /\ mem'[(Node(slot) + buffer)'] = ptr'[slot]
    BY <1>1, <1>3 DEF size, buffer
  <2>3. \A s, u \in Live' : ptr'[s] = ptr'[u] => s = u
    BY <2>1, <1>3, <1>4 DEF IInv, Held
  <2>4. ASSUME NEW s \in Live'
        PROVE  /\ req'[s] <= mem'[(Node(s) + size)'] /\ mem'[(Node(s) + buffer)'] = ptr'[s]
               /\ (pc = "insert" => Node(s) # arg)'
               /\ \A t \in Live' : ptr'[s] = ptr'[t] => s = t
    <3>1. CASE s = slot
      BY <3>1, <2>2, <2>3
    <3>2. CASE s \in Live
      BY <3>2, <2>1, <2>3
    <3> QED
      BY <3>1, <3>2, <1>4
  <2> QED
    BY <2>4 DEF Held
<1> QED
  BY <1>5, <1>6, IdleInv

(* What _ProcessNodeFound writes. *)
LEMMA SizedMem ==
  ASSUME TypeInv, tmp \in Headers
  PROVE  /\ Sized \in Memories /\ Sized[tmp + size] = arg
         /\ \A x \in Words : x # tmp + size => Sized[x] = mem[x]
<1>1. mem \in [Words -> Int] /\ tmp + size \in Words
  BY HeaderWords DEF TypeInv, TypeOK
<1> QED
  BY <1>1, SizedType DEF Sized

LEMMA AllocatedMem ==
  ASSUME tmp \in Headers, NEW m \in Memories, Allocated(m)
  PROVE  /\ mem'[tmp + size] = m[tmp + size] /\ mem'[tmp + buffer] = tmp + HEADER_SIZE
         /\ \A x \in Words : Outside(x, tmp) => mem'[x] = m[x]
         /\ pc' = "idle" /\ req' = req /\ slot' = slot
         /\ ptr' = [ptr EXCEPT ![slot] = tmp + HEADER_SIZE]
<1>1. /\ mem' = [m EXCEPT ![tmp + left] = NULL, ![tmp + right] = NULL,
                          ![tmp + buffer] = tmp + HEADER_SIZE]
      /\ pc' = "idle" /\ req' = req /\ slot' = slot
      /\ ptr' = [ptr EXCEPT ![slot] = tmp + HEADER_SIZE]
  BY DEF Allocated, Return
<1>2. /\ tmp \in Int /\ tmp + size \in Words /\ tmp + buffer \in Words
      /\ tmp + size # tmp + left /\ tmp + size # tmp + right /\ tmp + size # tmp + buffer
      /\ tmp + buffer # tmp + left /\ tmp + buffer # tmp + right
  <2>1. tmp \in Int /\ tmp + size \in Words /\ tmp + buffer \in Words
    BY HeaderWords
  <2> QED
    BY <2>1 DEF left, right, size, buffer
<1>3. \A x \in Words : Outside(x, tmp) => x \notin {tmp + left, tmp + right, tmp + buffer}
  BY <1>2 DEF Outside, HEADER_SIZE, left, right, buffer
<1>4. mem'[tmp + size] = m[tmp + size] /\ mem'[tmp + buffer] = tmp + HEADER_SIZE
  BY <1>1, <1>2 DEF Memories
<1>5. \A x \in Words : x \notin {tmp + left, tmp + right, tmp + buffer} => mem'[x] = m[x]
  BY <1>1 DEF Memories
<1> QED
  BY <1>1, <1>3, <1>4, <1>5

LEMMA RelinkedMem ==
  ASSUME TypeOK, NEW m \in Memories, NEW p \in Headers, NEW r, NEW new \in Int, NEW back \in Int,
         tmp \in Headers, m[tmp + left] = p, m[tmp + right] = r, p # tmp,
         r # NULL => r \in Headers /\ p + HEADER_SIZE <= r
  PROVE  /\ Relinked(m, new, back) \in Memories
         /\ Relinked(m, new, back)[p + right] = new
         /\ \A x \in Words : x # p + right /\ (r # NULL => x # r + left) =>
              Relinked(m, new, back)[x] = m[x]
<1> DEFINE m1 == [m EXCEPT ![p + right] = new]
<1>1. /\ p + right \in Words /\ tmp + right \in Words /\ p + right # tmp + right
      /\ r # NULL => r + left \in Words /\ p + right # r + left
  <2>1. /\ p + right \in Words /\ tmp + right \in Words /\ p \in Int /\ tmp \in Int
        /\ r # NULL => r + left \in Words /\ r \in Int
    BY HeaderWords
  <2>2. p + right # tmp + right /\ (r # NULL => p + right # r + left)
    BY <2>1 DEF HEADER_SIZE, left, right
  <2> QED
    BY <2>1, <2>2
<1>2. /\ m1 \in Memories /\ m1[p + right] = new /\ m1[tmp + right] = r
      /\ \A x \in Words : x # p + right => m1[x] = m[x]
  BY <1>1 DEF Memories
<1>3. Relinked(m, new, back) = IF r # NULL THEN [m1 EXCEPT ![r + left] = back] ELSE m1
  BY <1>2 DEF Relinked
<1> HIDE DEF m1
<1>4. CASE r = NULL
  BY <1>2, <1>3, <1>4
<1>5. CASE r # NULL
  BY <1>1, <1>2, <1>3, <1>5 DEF Memories
<1> QED
  BY <1>4, <1>5

(* The block tmp points to, its neighbours and the room in it.              *)
LEMMA FoundPlace ==
  ASSUME IInv, Found
  PROVE  /\ tmp \in Headers /\ tmp \in Int /\ tmp # NULL /\ mem[tmp + size] \in Nat /\ arg \in Nat
         /\ mem[tmp + right] \in Int /\ mem[tmp + left] \in Int
         /\ NewSize = mem[tmp + size] - arg - HEADER_SIZE /\ NewSize \in Int
         /\ NewNode = tmp + HEADER_SIZE + arg /\ NewNode \in Int /\ tmp + HEADER_SIZE <= NewNode
         /\ mem[tmp + right] # NULL =>
              /\ mem[tmp + right] \in FreeBlocks /\ mem[tmp + right] \in Headers
              /\ tmp + HEADER_SIZE + mem[tmp + size] <= mem[tmp + right]
         /\ tmp # head =>
              /\ mem[tmp + left] \in FreeBlocks /\ mem[tmp + left] \in Headers
              /\ mem[tmp + left] + HEADER_SIZE <= tmp /\ mem[mem[tmp + left] + right] = tmp
<1>1. /\ tmp \in FreeBlocks /\ arg \in Nat
      /\ tmp # head => mem[tmp + left] \in FreeBlocks /\ mem[mem[tmp + left] + right] = tmp
  BY FoundFits
<1>2. /\ tmp \in Headers /\ tmp \in Int /\ tmp # NULL /\ mem[tmp + size] \in Nat
      /\ mem[tmp + right] \in Int /\ mem[tmp + left] \in Int
  <2>1. tmp \in Headers /\ tmp \in Int /\ tmp # NULL /\ mem[tmp + size] \in Nat
    BY <1>1, InvFacts, BlockFacts, ListFacts
  <2> QED
    BY <2>1, InvFacts, HeaderWords DEF Memories
<1>3. /\ NewSize = mem[tmp + size] - arg - HEADER_SIZE /\ NewSize \in Int
      /\ NewNode = tmp + HEADER_SIZE + arg /\ NewNode \in Int /\ tmp + HEADER_SIZE <= NewNode
  BY <1>1, <1>2 DEF NewSize, NewNode, HEADER_SIZE
<1>4. ASSUME mem[tmp + right] # NULL
      PROVE  /\ mem[tmp + right] \in FreeBlocks /\ mem[tmp + right] \in Headers
             /\ tmp + HEADER_SIZE + mem[tmp + size] <= mem[tmp + right]
  <2>1. mem[tmp + right] \in FreeBlocks /\ tmp < mem[tmp + right]
    BY <1>1, <1>4, InvFacts, ListFacts
  <2> QED
    BY <1>1, <2>1, InvFacts, BlockFacts
<1>5. ASSUME tmp # head
      PROVE  /\ mem[tmp + left] \in Headers /\ mem[tmp + left] + HEADER_SIZE <= tmp
  <2>1. mem[tmp + left] \in FreeBlocks /\ mem[mem[tmp + left] + right] = tmp
    BY <1>1, <1>5
  <2>2. mem[tmp + left] < tmp
    BY <1>2, <2>1, InvFacts, ListFacts
  <2>3. /\ mem[mem[tmp + left] + size] \in Nat /\ mem[tmp + left] \in Headers
        /\ mem[tmp + left] + HEADER_SIZE + mem[mem[tmp + left] + size] <= tmp
    BY <1>1, <2>1, <2>2, InvFacts, BlockFacts
  <2> QED
    BY <1>2, <2>3 DEF HEADER_SIZE
<1> QED
  BY <1>1, <1>2, <1>3, <1>4, <1>5

LEMMA TakeHeadWholeMem ==
  ASSUME IInv, TakeHeadWhole
  PROVE  /\ mem'[tmp + size] = arg /\ mem'[tmp + buffer] = tmp + HEADER_SIZE
         /\ \A x \in Words : Outside(x, tmp) => mem'[x] = mem[x]
<1>1. tmp \in Headers /\ tmp \in Int /\ TypeInv /\ Allocated(Sized)
  BY FoundPlace, InvFacts DEF TakeHeadWhole
<1>2. /\ Sized \in Memories /\ Sized[tmp + size] = arg
      /\ \A x \in Words : x # tmp + size => Sized[x] = mem[x]
  BY <1>1, SizedMem
<1>3. \A x \in Words : Outside(x, tmp) => x # tmp + size
  BY <1>1 DEF Outside, HEADER_SIZE, size
<1> QED
  BY <1>1, <1>2, <1>3, AllocatedMem

LEMMA TakeHeadSplitMem ==
  ASSUME IInv, TakeHeadSplit
  PROVE  /\ mem'[tmp + size] = arg /\ mem'[tmp + buffer] = tmp + HEADER_SIZE
         /\ mem'[NewNode + size] = NewSize /\ mem'[NewNode + right] = mem[tmp + right]
         /\ \A x \in Words : Outside(x, tmp) /\ Outside(x, NewNode) => mem'[x] = mem[x]
<1> DEFINE n == NewNode
<1> DEFINE m == [Sized EXCEPT ![n + size] = NewSize, ![n + right] = mem[tmp + right],
                              ![n + left] = NULL]
<1>1. /\ tmp \in Headers /\ tmp \in Int /\ TypeInv /\ Allocated(m) /\ n \in Headers /\ n \in Int
      /\ tmp + HEADER_SIZE <= n /\ NewSize \in Int /\ mem[tmp + right] \in Int
  BY FoundPlace, InvFacts DEF TakeHeadSplit
<1>2. /\ Sized \in Memories /\ Sized[tmp + size] = arg
      /\ \A x \in Words : x # tmp + size => Sized[x] = mem[x]
  BY <1>1, SizedMem
<1>3. /\ n + left \in Words /\ n + right \in Words /\ n + size \in Words /\ tmp + size \in Words
  BY <1>1, HeaderWords
<1>4. /\ n + size # n + right /\ n + size # n + left /\ n + right # n + left
      /\ tmp + size \notin {n + size, n + right, n + left}
      /\ Outside(n + size, tmp) /\ Outside(n + right, tmp)
  BY <1>1 DEF Outside, HEADER_SIZE, left, right, size
<1>5. m \in Memories
  <2>1. NewSize \in Int /\ mem[tmp + right] \in Int /\ NULL \in Int
    BY <1>1 DEF NULL
  <2> QED
    BY <2>1, <1>2 DEF Memories
<1>6. /\ m[n + size] = NewSize /\ m[n + right] = mem[tmp + right] /\ m[tmp + size] = arg
      /\ \A x \in Words : x \notin {n + size, n + right, n + left} => m[x] = Sized[x]
  BY <1>2, <1>3, <1>4 DEF Memories
<1> HIDE DEF m
<1>7. \A x \in Words : Outside(x, tmp) /\ Outside(x, n) => x \notin {tmp + size, n + size, n + right, n + left}
  BY <1>1 DEF Outside, HEADER_SIZE, left, right, size
<1>8. /\ mem'[tmp + size] = m[tmp + size] /\ mem'[tmp + buffer] = tmp + HEADER_SIZE
      /\ \A x \in Words : Outside(x, tmp) => mem'[x] = m[x]
  BY <1>1, <1>5, AllocatedMem
<1> QED
  BY <1>2, <1>3, <1>4, <1>6, <1>7, <1>8

LEMMA TakeInnerWholeMem ==
  ASSUME IInv, TakeInnerWhole
  PROVE  /\ mem'[tmp + size] = arg /\ mem'[tmp + buffer] = tmp + HEADER_SIZE
         /\ mem'[mem[tmp + left] + right] = mem[tmp + right]
         /\ \A x \in Words :
              /\ Outside(x, tmp) /\ x # mem[tmp + left] + right
              /\ mem[tmp + right] # NULL => x # mem[tmp + right] + left
              => mem'[x] = mem[x]
<1> DEFINE p == mem[tmp + left]
<1> DEFINE r == mem[tmp + right]
<1> DEFINE w == Relinked(Sized, r, p)
<1>1. /\ tmp \in Headers /\ tmp \in Int /\ TypeInv /\ TypeOK /\ Allocated(w)
      /\ p \in Headers /\ p \in Int /\ r \in Int /\ p + HEADER_SIZE <= tmp
      /\ r # NULL => r \in Headers /\ tmp + HEADER_SIZE + mem[tmp + size] <= r
      /\ mem[tmp + size] \in Nat
  BY FoundPlace, InvFacts DEF TakeInnerWhole
<1>2. /\ Sized \in Memories /\ Sized[tmp + size] = arg
      /\ \A x \in Words : x # tmp + size => Sized[x] = mem[x]
  BY <1>1, SizedMem
<1>3. Sized[tmp + left] = p /\ Sized[tmp + right] = r
  <2>1. tmp + left \in Words /\ tmp + right \in Words /\ tmp + left # tmp + size /\ tmp + right # tmp + size
    BY <1>1, HeaderWords DEF left, right, size
  <2> QED
    BY <1>2, <2>1
<1>4. p # tmp /\ (r # NULL => p + HEADER_SIZE <= r)
  BY <1>1 DEF HEADER_SIZE
<1> HIDE DEF p, r
<1>5. /\ w \in Memories /\ w[p + right] = r
      /\ \A x \in Words : x # p + right /\ (r # NULL => x # r + left) => w[x] = Sized[x]
  BY <1>1, <1>2, <1>3, <1>4, RelinkedMem
<1> HIDE DEF w
<1>6. /\ tmp + size # p + right /\ (r # NULL => tmp + size # r + left)
      /\ tmp + size \in Words /\ p + right \in Words /\ Outside(p + right, tmp)
  <2>1. tmp + size \in Words /\ p + right \in Words
    BY <1>1, HeaderWords
  <2>2. /\ tmp + size # p + right /\ Outside(p + right, tmp)
        /\ r # NULL => tmp + size # r + left
    BY <1>1 DEF Outside, HEADER_SIZE, left, right, size
  <2> QED
    BY <2>1, <2>2
<1>7. \A x \in Words : Outside(x, tmp) => x # tmp + size
  BY <1>1 DEF Outside, HEADER_SIZE, size
<1>8. /\ mem'[tmp + size] = w[tmp + size] /\ mem'[tmp + buffer] = tmp + HEADER_SIZE
      /\ \A x \in Words : Outside(x, tmp) => mem'[x] = w[x]
  BY <1>1, <1>5, AllocatedMem
<1>9. mem'[tmp + size] = arg /\ mem'[p + right] = r
  BY <1>2, <1>5, <1>6, <1>8
<1>10. ASSUME NEW x \in Words, Outside(x, tmp), x # p + right, r # NULL => x # r + left
       PROVE  mem'[x] = mem[x]
  BY <1>2, <1>5, <1>7, <1>8, <1>10
<1> QED
  BY <1>8, <1>9, <1>10 DEF p, r

LEMMA TakeInnerSplitMem ==
  ASSUME IInv, TakeInnerSplit
  PROVE  /\ mem'[tmp + size] = arg /\ mem'[tmp + buffer] = tmp + HEADER_SIZE
         /\ mem'[mem[tmp + left] + right] = NewNode
         /\ mem'[NewNode + size] = NewSize /\ mem'[NewNode + right] = mem[tmp + right]
         /\ \A x \in Words :
              /\ Outside(x, tmp) /\ Outside(x, NewNode) /\ x # mem[tmp + left] + right
              /\ mem[tmp + right] # NULL => x # mem[tmp + right] + left
              => mem'[x] = mem[x]
<1> DEFINE p == mem[tmp + left]
<1> DEFINE r == mem[tmp + right]
<1> DEFINE n == NewNode
<1> DEFINE m == [Sized EXCEPT ![n + size] = NewSize, ![n + left] = p, ![n + right] = r]
<1> DEFINE w == Relinked(m, n, n)
<1>1. /\ tmp \in Headers /\ tmp \in Int /\ TypeInv /\ TypeOK /\ Allocated(w)
      /\ p \in Headers /\ p \in Int /\ r \in Int /\ p + HEADER_SIZE <= tmp
      /\ r # NULL => r \in Headers /\ tmp + HEADER_SIZE + mem[tmp + size] <= r
      /\ mem[tmp + size] \in Nat /\ n \in Headers /\ n \in Int /\ n = tmp + HEADER_SIZE + arg
      /\ NewSize = mem[tmp + size] - arg - HEADER_SIZE /\ NewSize \in Int /\ NewSize >= 0
      /\ arg \in Nat
  BY FoundPlace, InvFacts DEF TakeInnerSplit
<1>2. /\ Sized \in Memories /\ Sized[tmp + size] = arg
      /\ \A x \in Words : x # tmp + size => Sized[x] = mem[x]
  BY <1>1, SizedMem
<1>3. /\ n + left \in Words /\ n + right \in Words /\ n + size \in Words /\ tmp + size \in Words
      /\ tmp + left \in Words /\ tmp + right \in Words /\ p + right \in Words
  BY <1>1, HeaderWords
<1>4. /\ tmp + HEADER_SIZE <= n /\ (r # NULL => n + HEADER_SIZE <= r)
  BY <1>1 DEF HEADER_SIZE
<1>5. /\ n + size # n + right /\ n + size # n + left /\ n + right # n + left
      /\ tmp + size \notin {n + size, n + right, n + left}
      /\ tmp + left \notin {n + size, n + right, n + left, tmp + size}
      /\ tmp + right \notin {n + size, n + right, n + left, tmp + size}
      /\ p + right \notin {n + size, n + right, n + left, tmp + size}
      /\ Outside(n + size, tmp) /\ Outside(n + right, tmp) /\ Outside(p + right, tmp)
      /\ p # tmp
  BY <1>1, <1>4 DEF Outside, HEADER_SIZE, left, right, size
<1>6. r # NULL => /\ p + HEADER_SIZE <= r
                  /\ r + left \notin {n + size, n + right, tmp + size}
  BY <1>1, <1>4 DEF HEADER_SIZE, left, right, size
<1>7. m \in Memories
  BY <1>1, <1>2 DEF Memories
<1>8. /\ m[n + size] = NewSize /\ m[n + right] = r /\ m[tmp + size] = arg
      /\ \A x \in Words : x \notin {n + size, n + right, n + left} => m[x] = Sized[x]
  BY <1>2, <1>3, <1>5 DEF Memories
<1>9. m[tmp + left] = p /\ m[tmp + right] = r
  BY <1>2, <1>3, <1>5, <1>8
<1> HIDE DEF m, p, r, n
<1>10. /\ w \in Memories /\ w[p + right] = n
       /\ \A x \in Words : x # p + right /\ (r # NULL => x # r + left) => w[x] = m[x]
  BY <1>1, <1>5, <1>6, <1>7, <1>9, RelinkedMem
<1> HIDE DEF w
<1>11. /\ mem'[tmp + size] = w[tmp + size] /\ mem'[tmp + buffer] = tmp + HEADER_SIZE
       /\ \A x \in Words : Outside(x, tmp) => mem'[x] = w[x]
  BY <1>1, <1>10, AllocatedMem
<1>12. \A x \in Words : Outside(x, tmp) /\ Outside(x, n) => x \notin {tmp + size, n + size, n + right, n + left}
  BY <1>1 DEF Outside, HEADER_SIZE, left, right, size
<1>13. w[tmp + size] = arg /\ w[n + size] = NewSize /\ w[n + right] = r
  BY <1>3, <1>5, <1>6, <1>8, <1>10
<1>14. mem'[tmp + size] = arg /\ mem'[p + right] = n /\ mem'[n + size] = NewSize /\ mem'[n + right] = r
  BY <1>3, <1>5, <1>10, <1>11, <1>13
<1>15. ASSUME NEW x \in Words, Outside(x, tmp), Outside(x, n), x # p + right, r # NULL => x # r + left
       PROVE  mem'[x] = mem[x]
  BY <1>2, <1>8, <1>10, <1>11, <1>12, <1>15
<1> QED
  BY <1>11, <1>14, <1>15 DEF p, r, n

(* The other headers are apart from the one taken, and from the one that    *)
(* begins behind it.                                                        *)
LEMMA OthersApart ==
  ASSUME IInv, Found, NEW a \in FreeBlocks \cup Taken, a # tmp
  PROVE  /\ a \in Headers /\ a \in Int
         /\ Outside(a + right, tmp) /\ Outside(a + size, tmp) /\ Outside(a + buffer, tmp)
         /\ NewSize >= 0 => /\ Outside(a + right, NewNode) /\ Outside(a + size, NewNode)
                            /\ Outside(a + buffer, NewNode)
<1>1. /\ Blocks(mem, FreeBlocks \cup Taken) /\ tmp \in FreeBlocks \cup Taken
      /\ a \in Headers /\ a \in Int /\ mem[a + size] \in Nat
  BY FoundFits, InvFacts, BlockFacts
<1>2. /\ tmp \in Int /\ mem[tmp + size] \in Nat /\ arg \in Nat
      /\ NewSize = mem[tmp + size] - arg - HEADER_SIZE /\ NewNode = tmp + HEADER_SIZE + arg
      /\ NewNode \in Int
  BY FoundPlace
<1>3. a + HEADER_SIZE <= tmp \/ tmp + HEADER_SIZE <= a
  BY <1>1, HeadersApart
<1>4. /\ a < tmp => a + HEADER_SIZE + mem[a + size] <= tmp
      /\ tmp < a => tmp + HEADER_SIZE + mem[tmp + size] <= a
  <2> DEFINE B == FreeBlocks \cup Taken
  <2>1. Blocks(mem, B) /\ tmp \in B /\ a \in B
    BY <1>1
  <2> HIDE DEF B
  <2> QED
    BY <2>1, BlockFacts
<1>5. NewSize >= 0 => a + HEADER_SIZE <= NewNode \/ NewNode + HEADER_SIZE <= a
  BY <1>1, <1>2, <1>4 DEF HEADER_SIZE
<1> QED
  BY <1>1, <1>2, <1>3, <1>5, FieldsOutside

LEMMA NeighboursApart ==
  ASSUME IInv, Found, tmp # head, NEW a \in FreeBlocks \cup Taken
  PROVE  /\ a + size # mem[tmp + left] + right /\ a + buffer # mem[tmp + left] + right
         /\ a # mem[tmp + left] => a + right # mem[tmp + left] + right
         /\ mem[tmp + right] # NULL =>
              /\ a + size # mem[tmp + right] + left /\ a + buffer # mem[tmp + right] + left
              /\ a + right # mem[tmp + right] + left
<1> DEFINE p == mem[tmp + left]
<1> DEFINE r == mem[tmp + right]
<1> DEFINE B == FreeBlocks \cup Taken
<1>1. /\ Blocks(mem, B) /\ p \in B /\ (r # NULL => r \in B)
  BY FoundPlace, InvFacts
<1>2. /\ a \in Int /\ p \in Int /\ (r # NULL => r \in Int)
      /\ a # p => a + HEADER_SIZE <= p \/ p + HEADER_SIZE <= a
      /\ r # NULL /\ a # r => a + HEADER_SIZE <= r \/ r + HEADER_SIZE <= a
  BY <1>1, BlockFacts, HeadersApart
<1> HIDE DEF p, r
<1>3. /\ a + size # p + right /\ a + buffer # p + right
      /\ a # p => a + right # p + right
  BY <1>2 DEF HEADER_SIZE, left, right, size, buffer
<1>4. r # NULL => /\ a + size # r + left /\ a + buffer # r + left
                  /\ a + right # r + left
  BY <1>2 DEF HEADER_SIZE, left, right, size, buffer
<1> QED
  BY <1>3, <1>4 DEF p, r

(* The blocks once tmp is cut to arg, whole or with a block behind it.      *)
LEMMA TakenWhole ==
  ASSUME IInv, Found, mem'[tmp + size] = arg,
         \A a \in FreeBlocks \cup Taken : a # tmp => mem'[a + size] = mem[a + size]
  PROVE  \A F : F \subseteq FreeBlocks => Blocks(mem', F \cup (Taken \cup {tmp}))
<1> DEFINE B == FreeBlocks \cup Taken
<1>1. tmp \in B /\ arg \in Nat /\ arg % 8 = 0 /\ arg <= mem[tmp + size] /\ Blocks(mem, B)
  BY FoundFits, InvFacts
<1>2. Blocks(mem', B)
  <2> HIDE DEF B
  <2>1. \A a \in B : a # tmp => mem'[a + size] = mem[a + size]
    BY DEF B
  <2> QED
    BY <1>1, <2>1, BlocksShrink
<1> SUFFICES ASSUME NEW F, F \subseteq FreeBlocks PROVE Blocks(mem', F \cup (Taken \cup {tmp}))
  OBVIOUS
<1>3. F \cup (Taken \cup {tmp}) \subseteq B
  BY <1>1
<1> HIDE DEF B
<1> QED
  BY <1>2, <1>3, BlocksPart

LEMMA TakenSplit ==
  ASSUME IInv, Found, NewSize >= 0, NewNode \in Headers,
         mem'[tmp + size] = arg, mem'[NewNode + size] = NewSize,
         \A a \in FreeBlocks \cup Taken : a # tmp => mem'[a + size] = mem[a + size]
  PROVE  /\ Blocks(mem', ((FreeBlocks \ {tmp}) \cup {NewNode}) \cup (Taken \cup {tmp}))
         /\ NewNode \notin FreeBlocks \cup Taken
         /\ \A b \in FreeBlocks : (b < tmp => b < NewNode) /\ (tmp < b => NewNode < b)
<1> DEFINE B == FreeBlocks \cup Taken
<1>1. tmp \in B /\ tmp \in FreeBlocks /\ arg \in Nat /\ arg % 8 = 0 /\ Blocks(mem, B)
  BY FoundFits, InvFacts
<1>2. /\ tmp \in Int /\ mem[tmp + size] \in Nat
      /\ NewSize = mem[tmp + size] - arg - HEADER_SIZE /\ NewNode = tmp + HEADER_SIZE + arg
  BY FoundPlace
<1>3. arg + HEADER_SIZE <= mem[tmp + size]
  BY <1>1, <1>2 DEF HEADER_SIZE
<1>4. Blocks(mem', B \cup {NewNode}) /\ NewNode \notin B
  <2> DEFINE w == mem'
  <2> DEFINE n == NewNode
  <2> HIDE DEF B
  <2>1. \A a \in B : a # tmp => w[a + size] = mem[a + size]
    BY DEF B
  <2>2. /\ w[n + size] = mem[tmp + size] - arg - HEADER_SIZE /\ w[tmp + size] = arg
        /\ n \in Headers /\ n = tmp + HEADER_SIZE + arg
    BY <1>2
  <2> HIDE DEF w, n
  <2>3. Blocks(w, B \cup {n}) /\ n \notin B
    BY <1>1, <1>3, <2>1, <2>2, BlocksSplit
  <2> QED
    BY <2>3 DEF w, n
<1>5. ((FreeBlocks \ {tmp}) \cup {NewNode}) \cup (Taken \cup {tmp}) \subseteq B \cup {NewNode}
  BY <1>1
<1>6. ASSUME NEW b \in FreeBlocks
      PROVE  (b < tmp => b < NewNode) /\ (tmp < b => NewNode < b)
  <2>1. b \in Int /\ (tmp < b => tmp + HEADER_SIZE + mem[tmp + size] <= b)
    BY <1>1, BlockFacts
  <2> QED
    BY <2>1, <1>1, <1>2, <1>3 DEF HEADER_SIZE
<1>7. Blocks(mem', ((FreeBlocks \ {tmp}) \cup {NewNode}) \cup (Taken \cup {tmp}))
  <2> HIDE DEF B
  <2> QED
    BY <1>4, <1>5, BlocksPart
<1> QED
  BY <1>4, <1>6, <1>7

LEMMA TakeHeadWholeInv ==
  ASSUME IInv, TypeOK', TakeHeadWhole
  PROVE  IInv'
<1>1. Found /\ head' = NULL /\ Allocated(Sized)
  BY DEF TakeHeadWhole
<1>2. /\ mem'[tmp + size] = arg /\ mem'[tmp + buffer] = tmp + HEADER_SIZE
      /\ \A x \in Words : Outside(x, tmp) => mem'[x] = mem[x]
  BY TakeHeadWholeMem
<1>3. ASSUME NEW a \in FreeBlocks \cup Taken, a # tmp
      PROVE  mem'[a + size] = mem[a + size] /\ mem'[a + buffer] = mem[a + buffer]
  <2>1. a \in Headers /\ Outside(a + size, tmp) /\ Outside(a + buffer, tmp)
    BY <1>1, <1>3, OthersApart
  <2> QED
    BY <2>1, <1>2, HeaderWords
<1>4. tmp \in FreeBlocks /\ tmp \notin Taken /\ tmp \in Headers
  BY <1>1, FoundFits, InvFacts
<1>5. Blocks(mem', {} \cup (Taken \cup {tmp}))
  BY <1>1, <1>2, <1>3, TakenWhole
<1>6. Listed(mem', head', {})
  BY <1>1 DEF Listed
<1>7. /\ pc' = "idle" /\ req' = req /\ slot' = slot
      /\ ptr' = [ptr EXCEPT ![slot] = tmp + HEADER_SIZE]
  BY <1>1 DEF Allocated, Return
<1> QED
  BY <1>1, <1>2, <1>3, <1>4, <1>5, <1>6, <1>7, TookInv

LEMMA TakeHeadSplitInv ==
  ASSUME IInv, TypeOK', TakeHeadSplit
  PROVE  IInv'
<1> DEFINE G == (FreeBlocks \ {tmp}) \cup {NewNode}
<1>1. Found /\ tmp = head /\ head' = NewNode /\ NewSize >= 0 /\ NewNode \in Headers
  BY DEF TakeHeadSplit
<1>2. /\ mem'[tmp + size] = arg /\ mem'[tmp + buffer] = tmp + HEADER_SIZE
      /\ mem'[NewNode + size] = NewSize /\ mem'[NewNode + right] = mem[tmp + right]
      /\ \A x \in Words : Outside(x, tmp) /\ Outside(x, NewNode) => mem'[x] = mem[x]
  BY TakeHeadSplitMem
<1>3. ASSUME NEW a \in FreeBlocks \cup Taken, a # tmp
      PROVE  /\ mem'[a + size] = mem[a + size] /\ mem'[a + buffer] = mem[a + buffer]
             /\ mem'[a + right] = mem[a + right]
  <2>1. /\ a \in Headers /\ Outside(a + size, tmp) /\ Outside(a + buffer, tmp) /\ Outside(a + right, tmp)
        /\ Outside(a + size, NewNode) /\ Outside(a + buffer, NewNode) /\ Outside(a + right, NewNode)
    BY <1>1, <1>3, OthersApart
  <2> QED
    BY <2>1, <1>2, HeaderWords
<1>4. /\ tmp \in FreeBlocks /\ tmp \notin Taken /\ FreeBlocks \subseteq Headers
      /\ FreeBlocks \cap Taken = {} /\ Listed(mem, head, FreeBlocks)
  BY <1>1, FoundFits, InvFacts
<1>5. /\ Blocks(mem', G \cup (Taken \cup {tmp})) /\ NewNode \notin FreeBlocks \cup Taken
      /\ \A b \in FreeBlocks : (b < tmp => b < NewNode) /\ (tmp < b => NewNode < b)
  BY <1>1, <1>2, <1>3, TakenSplit
<1>6. Listed(mem', head', G)
  <2>1. \A a \in FreeBlocks : mem[a + right] # tmp
    <3> SUFFICES ASSUME NEW a \in FreeBlocks, mem[a + right] = tmp PROVE FALSE
      OBVIOUS
    <3>1. a < tmp /\ tmp <= a /\ a \in Int /\ tmp \in Int
      BY <1>1, <1>4, ListFacts
    <3> QED
      BY <3>1
  <2>2. \A a \in FreeBlocks : a # tmp =>
          mem'[a + right] = IF mem[a + right] = tmp THEN NewNode ELSE mem[a + right]
    BY <2>1, <1>3
  <2>3. Listed(mem', IF head = tmp THEN NewNode ELSE head, (FreeBlocks \ {tmp}) \cup {NewNode})
    BY <2>2, <1>1, <1>2, <1>4, <1>5, ListReplace
  <2> QED
    BY <2>3, <1>1
<1>7. /\ pc' = "idle" /\ req' = req /\ slot' = slot
      /\ ptr' = [ptr EXCEPT ![slot] = tmp + HEADER_SIZE]
  BY DEF TakeHeadSplit, Allocated, Return
<1>8. G \cap (Taken \cup {tmp}) = {}
  BY <1>4, <1>5
<1> HIDE DEF G
<1> QED
  BY <1>1, <1>2, <1>3, <1>4, <1>5, <1>6, <1>7, <1>8, TookInv

LEMMA TakeInnerWholeInv ==
  ASSUME IInv, TypeOK', TakeInnerWhole
  PROVE  IInv'
<1> DEFINE G == FreeBlocks \ {tmp}
<1> DEFINE p == mem[tmp + left]
<1> DEFINE r == mem[tmp + right]
<1>1. Found /\ tmp # head /\ head' = head
  BY DEF TakeInnerWhole
<1>2. /\ mem'[tmp + size] = arg /\ mem'[tmp + buffer] = tmp + HEADER_SIZE
      /\ mem'[p + right] = r
      /\ \A x \in Words : /\ Outside(x, tmp) /\ x # p + right
                          /\ r # NULL => x # r + left
                          => mem'[x] = mem[x]
  BY TakeInnerWholeMem
<1>3. ASSUME NEW a \in FreeBlocks \cup Taken, a # tmp
      PROVE  /\ mem'[a + size] = mem[a + size] /\ mem'[a + buffer] = mem[a + buffer]
             /\ a # p => mem'[a + right] = mem[a + right]
  <2>1. /\ a \in Headers /\ Outside(a + size, tmp) /\ Outside(a + buffer, tmp) /\ Outside(a + right, tmp)
    BY <1>1, <1>3, OthersApart
  <2>2. /\ a + size # p + right /\ a + buffer # p + right
        /\ a # p => a + right # p + right
        /\ r # NULL => /\ a + size # r + left /\ a + buffer # r + left
                       /\ a + right # r + left
    BY <1>1, NeighboursApart
  <2>3. a + size \in Words /\ a + buffer \in Words /\ a + right \in Words
    BY <2>1, HeaderWords
  <2> HIDE DEF p, r
  <2> QED
    BY <2>1, <2>2, <2>3, <1>2
<1>4. /\ tmp \in FreeBlocks /\ tmp \notin Taken /\ FreeBlocks \subseteq Headers
      /\ FreeBlocks \cap Taken = {} /\ Listed(mem, head, FreeBlocks)
      /\ p \in FreeBlocks /\ mem[p + right] = tmp /\ tmp # NULL
  BY <1>1, FoundFits, FoundPlace, InvFacts
<1>5. Blocks(mem', G \cup (Taken \cup {tmp}))
  BY <1>1, <1>2, <1>3, TakenWhole
<1>6. Listed(mem', head', G)
  <2>1. \A a \in FreeBlocks : a # p => mem[a + right] # tmp
    BY <1>4, OnePrevious
  <2>2. \A a \in FreeBlocks : a # tmp =>
          mem'[a + right] = IF mem[a + right] = tmp THEN mem[tmp + right] ELSE mem[a + right]
    BY <2>1, <1>2, <1>3, <1>4
  <2>3. Listed(mem', head, FreeBlocks \ {tmp})
    BY <2>2, <1>1, <1>4, ListRemove
  <2> QED
    BY <2>3, <1>1
<1>7. /\ pc' = "idle" /\ req' = req /\ slot' = slot
      /\ ptr' = [ptr EXCEPT ![slot] = tmp + HEADER_SIZE]
  BY DEF TakeInnerWhole, Allocated, Return
<1>8. G \cap (Taken \cup {tmp}) = {}
  BY <1>4
<1> HIDE DEF G
<1> QED
  BY <1>1, <1>2, <1>3, <1>4, <1>5, <1>6, <1>7, <1>8, TookInv

LEMMA TakeInnerSplitInv ==
  ASSUME IInv, TypeOK', TakeInnerSplit
  PROVE  IInv'
<1> DEFINE G == (FreeBlocks \ {tmp}) \cup {NewNode}
<1> DEFINE p == mem[tmp + left]
<1> DEFINE r == mem[tmp + right]
<1>1. Found /\ tmp # head /\ head' = head /\ NewSize >= 0 /\ NewNode \in Headers
  BY DEF TakeInnerSplit
<1>2. /\ mem'[tmp + size] = arg /\ mem'[tmp + buffer] = tmp + HEADER_SIZE
      /\ mem'[p + right] = NewNode
      /\ mem'[NewNode + size] = NewSize /\ mem'[NewNode + right] = r
      /\ \A x \in Words : /\ Outside(x, tmp) /\ Outside(x, NewNode) /\ x # p + right
                          /\ r # NULL => x # r + left
                          => mem'[x] = mem[x]
  BY TakeInnerSplitMem
<1>3. ASSUME NEW a \in FreeBlocks \cup Taken, a # tmp
      PROVE  /\ mem'[a + size] = mem[a + size] /\ mem'[a + buffer] = mem[a + buffer]
             /\ a # p => mem'[a + right] = mem[a + right]
  <2>1. /\ a \in Headers /\ Outside(a + size, tmp) /\ Outside(a + buffer, tmp) /\ Outside(a + right, tmp)
        /\ Outside(a + size, NewNode) /\ Outside(a + buffer, NewNode) /\ Outside(a + right, NewNode)
    BY <1>1, <1>3, OthersApart
  <2>2. /\ a + size # p + right /\ a + buffer # p + right
        /\ a # p => a + right # p + right
        /\ r # NULL => /\ a + size # r + left /\ a + buffer # r + left
                       /\ a + right # r + left
    BY <1>1, NeighboursApart
  <2>3. a + size \in Words /\ a + buffer \in Words /\ a + right \in Words
    BY <2>1, HeaderWords
  <2> HIDE DEF p, r
  <2> QED
    BY <2>1, <2>2, <2>3, <1>2
<1>4. /\ tmp \in FreeBlocks /\ tmp \notin Taken /\ FreeBlocks \subseteq Headers
      /\ FreeBlocks \cap Taken = {} /\ Listed(mem, head, FreeBlocks)
      /\ p \in FreeBlocks /\ mem[p + right] = tmp /\ tmp # NULL
  BY <1>1, FoundFits, FoundPlace, InvFacts
<1>5. /\ Blocks(mem', G \cup (Taken \cup {tmp})) /\ NewNode \notin FreeBlocks \cup Taken
      /\ \A b \in FreeBlocks : (b < tmp => b < NewNode) /\ (tmp < b => NewNode < b)
  BY <1>1, <1>2, <1>3, TakenSplit
<1>6. Listed(mem', head', G)
  <2>1. \A a \in FreeBlocks : a # p => mem[a + right] # tmp
    BY <1>4, OnePrevious
  <2>2. \A a \in FreeBlocks : a # tmp =>
          mem'[a + right] = IF mem[a + right] = tmp THEN NewNode ELSE mem[a + right]
    BY <2>1, <1>2, <1>3, <1>4
  <2>3. Listed(mem', IF head = tmp THEN NewNode ELSE head, (FreeBlocks \ {tmp}) \cup {NewNode})
    BY <2>2, <1>1, <1>2, <1>4, <1>5, ListReplace
  <2> QED
    BY <2>3, <1>1
<1>7. /\ pc' = "idle" /\ req' = req /\ slot' = slot
      /\ ptr' = [ptr EXCEPT ![slot] = tmp + HEADER_SIZE]
  BY DEF TakeInnerSplit, Allocated, Return
<1>8. G \cap (Taken \cup {tmp}) = {}
  BY <1>4, <1>5
<1> HIDE DEF G
<1> QED
  BY <1>1, <1>2, <1>3, <1>4, <1>5, <1>6, <1>7, <1>8, TookInv

-----------------------------------------------------------------------------
(* The heap the client is promised. *)
LEMMA CarefulInit == Init => IInv
<1> SUFFICES ASSUME Init PROVE IInv
  OBVIOUS
<1>1. /\ head = BigBuffer /\ pc = "idle" /\ ptr = [s \in Slots |-> NULL]
      /\ mem = [a \in Words |-> CASE a = head + buffer -> head + HEADER_SIZE
                                  [] a = head + size -> MAX_MALLOC_SIZE - HEADER_SIZE
                                  [] OTHER -> 0]
  BY DEF Init
<1>2. /\ Live = {} /\ Taken = {}
  BY <1>1 DEF Live, Taken
<1>3. head \in Headers
  BY <1>1, MemoryAssumption DEF Headers, Words, End, HEADER_SIZE
<1>4. /\ head \in Int /\ head # NULL /\ head + size \in Words /\ head + right \in Words
      /\ head + size # head + buffer /\ head + right # head + buffer /\ head + right # head + size
  <2>1. head \in Int /\ head >= 256 /\ head + size \in Words /\ head + right \in Words
    BY <1>3, HeaderWords
  <2> QED
    BY <2>1 DEF size, right, buffer, NULL
<1>5. mem[head + size] = MAX_MALLOC_SIZE - HEADER_SIZE /\ mem[head + right] = NULL
  BY <1>1, <1>4 DEF NULL
<1>6. /\ mem[head + size] \in Nat /\ mem[head + size] % 8 = 0
      /\ head + HEADER_SIZE + mem[head + size] <= End
  BY <1>1, <1>5, MemoryAssumption DEF HEADER_SIZE, End
<1>7. Blocks(mem, {head})
  BY <1>3, <1>4, <1>6, BlocksAre
<1>8. Listed(mem, head, {head})
  BY <1>4, <1>5 DEF Listed
<1>9. FreeBlocks = {head}
  BY <1>7, <1>8, ListIs DEF FreeBlocks
<1>10. HeapInv
  BY <1>2, <1>7, <1>8, <1>9 DEF HeapInv
<1>11. TypeOK
  BY TypeInit DEF TypeInv
<1> QED
  BY <1>1, <1>2, <1>10, <1>11 DEF IInv, Held, Scanning, Inserting

LEMMA StutterInv == IInv /\ UNCHANGED vars => IInv'
<1> SUFFICES ASSUME IInv, UNCHANGED vars PROVE IInv'
  OBVIOUS
<1>1. UNCHANGED <<mem, head, pc, tmp, arg, slot, ptr, req>>
  BY DEF vars
<1>2. /\ FreeBlocks' = FreeBlocks
      /\ \A n : (Fits(n)' <=> Fits(n)) /\ (LinkedBack(n)' <=> LinkedBack(n))
      /\ \A a, sz : Stops(a, sz)' <=> Stops(a, sz)
      /\ \A a : BufferTells(a)' <=> BufferTells(a)
  BY <1>1, SameHeap
<1>3. Taken' = Taken /\ Live' = Live /\ \A s : Node(s)' = Node(s)
  BY <1>1 DEF Taken, Live, Node
<1>4. TypeOK'
  BY <1>1 DEF IInv, TypeOK
<1>5. HeapInv' /\ Held'
  BY <1>1, <1>2, <1>3 DEF IInv, HeapInv, Held
<1>6. Fits(req[slot])' = Fits(req[slot]) /\ LinkedBack(req[slot])' = LinkedBack(req[slot])
  BY <1>1, <1>2 DEF Fits, LinkedBack, FirstFit, Stops
<1>7. Scanning'
  BY <1>1, <1>2, <1>6 DEF IInv, Scanning
<1>8. BufferTells(arg)' = BufferTells(arg)
  BY <1>1, <1>2 DEF BufferTells
<1>9. Inserting'
  BY <1>1, <1>2, <1>8 DEF IInv, Inserting
<1> QED
  BY <1>4, <1>5, <1>7, <1>9 DEF IInv

LEMMA CarefulIsNext == [CarefulNext]_vars => [Next]_vars
BY DEF CarefulNext, Next, Client

LEMMA CarefulInvNext == IInv /\ [CarefulNext]_vars => IInv'
<1> SUFFICES ASSUME IInv, [CarefulNext]_vars PROVE IInv'
  OBVIOUS
<1>1. TypeOK'
  BY InvFacts, CarefulIsNext, TypeNext DEF TypeInv
<1>2. CASE Allocator
  BY <1>1, <1>2, FirstFitStepInv, TakeHeadWholeInv, TakeHeadSplitInv, TakeInnerWholeInv,
     TakeInnerSplitInv, InsertStepInv, InsertNodeInv DEF Allocator
<1>3. CASE \E s \in Slots, n \in Requests : Fits(n) /\ LinkedBack(n) /\ MyMalloc(s, n)
  BY <1>1, <1>3, CallInv
<1>4. CASE \E s \in Slots : BufferTells(Node(s)) /\ Free(s)
  BY <1>1, <1>4, FreeIntoEmptyInv, FreeInFrontInv, FreeBehindInv DEF Free
<1>5. CASE \E s \in Slots, d \in UserData : Fill(s, d)
  BY <1>1, <1>5, FillInv
<1>6. CASE UNCHANGED vars
  BY <1>6, StutterInv
<1> QED
  BY <1>2, <1>3, <1>4, <1>5, <1>6 DEF CarefulNext

(* The heap is disjoint blocks, free or held, and the list is the free ones *)
(* in the order of their addresses, through every call of a client that     *)
(* asks for what fits.                                                      *)
THEOREM HeapInvariance == CarefulSpec => []IInv
BY CarefulInit, CarefulInvNext, PTL DEF CarefulSpec

LEMMA InvFree == IInv => FreeIsFree
<1> SUFFICES ASSUME IInv, NEW a \in FreeBlocks, NEW s \in Live
             PROVE  (a .. a + HEADER_SIZE + mem[a + size] - 1) \cap BlockOf(s) = {}
  BY DEF FreeIsFree
<1> DEFINE B == FreeBlocks \cup Taken
<1>1. /\ a \in B /\ Node(s) \in B /\ ptr[s] = Node(s) + HEADER_SIZE /\ Blocks(mem, B)
      /\ a # Node(s)
  BY InvFacts
<1>2. /\ a \in Int /\ mem[a + size] \in Nat /\ Node(s) \in Int /\ mem[Node(s) + size] \in Nat
      /\ (a < Node(s) => a + HEADER_SIZE + mem[a + size] <= Node(s))
      /\ (Node(s) < a => Node(s) + HEADER_SIZE + mem[Node(s) + size] <= a)
  <2> HIDE DEF B
  <2> QED
    BY <1>1, BlockFacts
<1>3. req[s] \in Int /\ req[s] <= mem[Node(s) + size]
  BY ReqInt DEF IInv, Held
<1>4. ptr[s] + req[s] - 1 < Node(s) + HEADER_SIZE + mem[Node(s) + size]
  BY <1>1, <1>2, <1>3 DEF HEADER_SIZE
<1>5. ptr[s] + req[s] - 1 \in Int
  BY <1>1, <1>2, <1>3 DEF HEADER_SIZE
<1> QED
  BY <1>1, <1>2, <1>4, <1>5 DEF BlockOf, HEADER_SIZE

(* A byte is never both in a free block and in one the client holds.        *)
THEOREM FreeStaysFree == CarefulSpec => []FreeIsFree
BY HeapInvariance, InvFree, PTL

LEMMA InvSorted == IInv => Sorted
<1> SUFFICES ASSUME IInv, NEW a \in FreeBlocks, mem[a + right] # NULL
             PROVE  /\ mem[a + right] \in Headers
                    /\ a + HEADER_SIZE + mem[a + size] <= mem[a + right]
  BY DEF Sorted
<1>1. mem[a + right] \in FreeBlocks /\ a < mem[a + right] /\ Blocks(mem, FreeBlocks)
  BY InvFacts DEF Listed
<1> QED
  BY <1>1, BlockFacts

(* The free list is in the order of the addresses, each block ending before *)
(* the next begins.                                                         *)
THEOREM ListStaysSorted == CarefulSpec => []Sorted
BY HeapInvariance, InvSorted, PTL

LEMMA InvInside == IInv => InsideHeap
<1> SUFFICES ASSUME IInv PROVE InsideHeap
  OBVIOUS
<1>1. pc # "idle" => tmp \in Headers
  <2>1. pc \in {"idle", "scan", "insert"} /\ FreeBlocks \subseteq Headers
    BY InvFacts DEF IInv, TypeOK
  <2> QED
    BY <2>1 DEF IInv, Scanning, Inserting
<1>2. ASSUME Found, NewSize >= 0 PROVE NewNode \in Headers
  <2>1. /\ tmp \in Headers /\ tmp \in Int /\ mem[tmp + size] \in Nat /\ arg \in Nat
        /\ NewSize = mem[tmp + size] - arg - HEADER_SIZE /\ NewNode = tmp + HEADER_SIZE + arg
    BY <1>2, FoundPlace
  <2>2. arg % 8 = 0 /\ tmp % 8 = 0 /\ BigBuffer <= tmp
    BY <1>2, <2>1, FoundFits, HeaderWords
  <2>3. tmp + HEADER_SIZE + mem[tmp + size] <= End /\ End \in Int /\ BigBuffer \in Int
    <3>1. tmp \in FreeBlocks
      BY <1>2, FoundFits
    <3> QED
      BY <3>1, InvFacts, BlockFacts, MemoryAssumption
  <2>4. NewNode % 8 = 0 /\ BigBuffer <= NewNode /\ NewNode + HEADER_SIZE <= End /\ NewNode \in Int
    BY <1>2, <2>1, <2>2, <2>3 DEF HEADER_SIZE
  <2>5. NewNode \in BigBuffer .. End - 1
    BY <2>3, <2>4 DEF HEADER_SIZE
  <2> HIDE DEF NewNode
  <2> QED
    BY <2>4, <2>5 DEF Headers, Words
<1>3. Found /\ tmp # head => Linked /\ mem[mem[tmp + left] + right] = tmp
  BY FoundPlace DEF Linked
<1> QED
  BY <1>1, <1>2, <1>3 DEF InsideHeap

(* No call follows a link, or begins a header, outside BigBuffer.           *)
THEOREM CallsStayInside == CarefulSpec => []InsideHeap
BY HeapInvariance, InvInside, PTL

-----------------------------------------------------------------------------
(* The bytes of a block that is held. *)
LEMMA OffFields ==
  ASSUME NEW x \in Int, NEW a \in Int, Outside(x, a)
  PROVE  x # a + left /\ x # a + right /\ x # a + size /\ x # a + buffer
BY DEF Outside, HEADER_SIZE, left, right, size, buffer

LEMMA DataOffFields ==
  ASSUME IInv, NEW s \in Live, NEW x \in DataWords(s), NEW a \in FreeBlocks \cup Taken
  PROVE  x # a + left /\ x # a + right /\ x # a + size /\ x # a + buffer
<1>1. x \in Int /\ a \in Int /\ Outside(x, a)
  BY DataWithin, DataOutside, InvFacts, BlockFacts
<1> QED
  BY <1>1, OffFields

(* Nor of the header a split begins inside the block it takes.              *)
LEMMA DataOutsideNew ==
  ASSUME IInv, Found, NewSize >= 0, NEW s \in Live, NEW x \in DataWords(s)
  PROVE  Outside(x, NewNode)
<1>1. /\ x \in Int /\ Node(s) \in Int /\ mem[Node(s) + size] \in Nat
      /\ Node(s) \in Taken
      /\ Node(s) + HEADER_SIZE <= x /\ x < Node(s) + HEADER_SIZE + mem[Node(s) + size]
  BY DataWithin, InvFacts
<1>2. /\ tmp \in FreeBlocks /\ tmp # Node(s) /\ tmp \in Int /\ mem[tmp + size] \in Nat /\ arg \in Nat
      /\ NewSize = mem[tmp + size] - arg - HEADER_SIZE /\ NewNode = tmp + HEADER_SIZE + arg
  BY <1>1, FoundFits, FoundPlace, InvFacts
<1>3. /\ (tmp < Node(s) => tmp + HEADER_SIZE + mem[tmp + size] <= Node(s))
      /\ (Node(s) < tmp => Node(s) + HEADER_SIZE + mem[Node(s) + size] <= tmp)
  <2> DEFINE B == FreeBlocks \cup Taken
  <2>1. Blocks(mem, B) /\ tmp \in B /\ Node(s) \in B
    BY <1>1, <1>2, InvFacts
  <2> HIDE DEF B
  <2> QED
    BY <2>1, BlockFacts
<1> QED
  BY <1>1, <1>2, <1>3 DEF Outside, HEADER_SIZE

LEMMA TakeKeepsData ==
  ASSUME IInv, NEW s \in Live, NEW x \in DataWords(s),
         TakeHeadWhole \/ TakeHeadSplit \/ TakeInnerWhole \/ TakeInnerSplit
  PROVE  mem'[x] = mem[x]
<1>1. x \in Words
  BY DataWithin
<1>2. Found /\ tmp \in FreeBlocks \cup Taken /\ Outside(x, tmp)
  BY FoundFits, DataOutside DEF TakeHeadWhole, TakeHeadSplit, TakeInnerWhole, TakeInnerSplit
<1>3. TakeHeadSplit \/ TakeInnerSplit => Outside(x, NewNode)
  BY <1>2, DataOutsideNew DEF TakeHeadSplit, TakeInnerSplit
<1>4. TakeInnerWhole \/ TakeInnerSplit =>
        /\ x # mem[tmp + left] + right
        /\ mem[tmp + right] # NULL => x # mem[tmp + right] + left
  BY <1>2, FoundPlace, DataOffFields DEF TakeInnerWhole, TakeInnerSplit
<1> QED
  BY <1>1, <1>2, <1>3, <1>4, TakeHeadWholeMem, TakeHeadSplitMem, TakeInnerWholeMem, TakeInnerSplitMem

(* _CoalesceFreeNodes writes the size and the right link of the node and of *)
(* the one in front of it, and nothing else.                                *)
LEMMA MergedWrites ==
  ASSUME NEW m \in Memories, NEW a \in Headers, NEW b \in Headers,
         NEW x \in Words, x # a + size, x # a + right
  PROVE  Merged(m, a, b)[x] = m[x]
BY DEF Merged, Memories

LEMMA CoalesceWrites ==
  ASSUME NEW m \in Memories, NEW node \in Headers, m[node + left] \in Headers \cup {NULL},
         CoalesceFreeNodes(m, node), NEW x \in Words, x # node + size, x # node + right,
         m[node + left] # NULL => x # m[node + left] + size /\ x # m[node + left] + right
  PROVE  mem'[x] = m[x]
<1> DEFINE n == IF m[node + left] # NULL THEN m[node + left] ELSE node
<1> DEFINE m1 == IF m[node + left] # NULL /\ Adjoins(m, m[node + left])
                 THEN Merged(m, m[node + left], node) ELSE m
<1>1. n \in Headers /\ m1 \in Memories /\ x # n + size /\ x # n + right
  BY MergedType
<1>2. m1[x] = m[x]
  BY MergedWrites
<1>3. mem' = m1 \/ (m[node + right] \in Headers /\ mem' = Merged(m1, n, m[node + right]))
  BY DEF CoalesceFreeNodes
<1> HIDE DEF n, m1
<1> QED
  BY <1>1, <1>2, <1>3, MergedWrites

LEMMA ThreeWrites ==
  ASSUME NEW m \in Memories, NEW a, NEW b, NEW c, NEW u \in Int, NEW v \in Int, NEW w \in Int
  PROVE  [m EXCEPT ![a] = u, ![b] = v, ![c] = w] \in Memories
BY DEF Memories

LEMMA FreeKeepsData ==
  ASSUME IInv, NEW s \in Live, NEW x \in DataWords(s), NEW t \in Slots, Free(t)
  PROVE  mem'[x] = mem[x]
<1> DEFINE n == Node(t)
<1>1. x \in Words
  BY DataWithin
<1>2. /\ FreeSlot(t) /\ mem \in Memories
  BY InvFacts DEF Free, FreeIntoEmpty, FreeInFront, FreeBehind
<1>3. n \in Headers /\ n \in FreeBlocks \cup Taken /\ n \in Int
  BY <1>2, FreeSlotFacts, HeaderWords
<1>4. x # n + left /\ x # n + right /\ x # n + size
  BY <1>3, DataOffFields
<1> HIDE DEF n
<1>5. CASE FreeIntoEmpty(t)
  <2>1. mem' = [mem EXCEPT ![n + right] = NULL, ![n + left] = NULL]
    BY <1>5 DEF FreeIntoEmpty, n
  <2> QED
    BY <2>1, <1>1, <1>2, <1>4 DEF Memories
<1>6. CASE FreeInFront(t)
  <2> DEFINE m == [mem EXCEPT ![head + left] = n, ![n + right] = head, ![n + left] = NULL]
  <2>1. head # NULL /\ CoalesceFreeNodes(m, n)
    BY <1>6 DEF FreeInFront, n
  <2>2. head \in FreeBlocks \cup Taken /\ head \in Int
    BY <2>1, InvFacts, ListFacts
  <2>3. x # head + left
    BY <2>2, DataOffFields
  <2>4. m \in Memories /\ m[x] = mem[x]
    <3>1. m \in Memories
      <4>1. NULL \in Int /\ mem \in Memories /\ n \in Int /\ head \in Int
        BY <1>2, <1>3, <2>2 DEF NULL
      <4> QED
        BY <4>1, ThreeWrites
    <3>2. m[x] = mem[x]
      BY <1>1, <1>2, <1>4, <2>3 DEF Memories
    <3> QED
      BY <3>1, <3>2
  <2>5. m[n + left] = NULL
    BY <1>2, <1>3, HeaderWords DEF Memories
  <2> HIDE DEF m
  <2> QED
    BY <1>1, <1>3, <1>4, <2>1, <2>4, <2>5, CoalesceWrites
<1>7. CASE FreeBehind(t)
  BY <1>7 DEF FreeBehind
<1> QED
  BY <1>5, <1>6, <1>7 DEF Free

LEMMA InsertKeepsData ==
  ASSUME IInv, NEW s \in Live, NEW x \in DataWords(s), InsertNode
  PROVE  mem'[x] = mem[x]
<1> DEFINE m == [mem EXCEPT ![arg + right] = mem[tmp + right], ![tmp + right] = arg,
                            ![arg + left] = tmp]
<1>1. x \in Words
  BY DataWithin
<1>2. /\ pc = "insert" /\ mem \in Memories /\ CoalesceFreeNodes(m, arg)
  BY InvFacts DEF InsertNode
<1>3. /\ tmp \in FreeBlocks \cup Taken /\ arg \in FreeBlocks \cup Taken
  BY <1>2 DEF IInv, Inserting, Taken
<1>4. /\ tmp \in Headers /\ arg \in Headers /\ tmp \in Int /\ arg \in Int /\ mem[tmp + right] \in Int
  BY <1>2, <1>3, InvFacts, HeaderWords DEF Memories
<1>5. /\ x # arg + left /\ x # arg + right /\ x # arg + size
      /\ x # tmp + left /\ x # tmp + right /\ x # tmp + size
  BY <1>3, DataOffFields
<1>6. m \in Memories /\ m[x] = mem[x]
  BY <1>1, <1>2, <1>4, <1>5 DEF Memories
<1>7. m[arg + left] = tmp
  BY <1>2, <1>4, HeaderWords DEF Memories
<1> HIDE DEF m
<1> QED
  BY <1>1, <1>2, <1>4, <1>5, <1>6, <1>7, CoalesceWrites

(* What one pointer of the client points to is not what another does.       *)
LEMMA FillKeepsData ==
  ASSUME IInv, NEW s \in Live, NEW x \in DataWords(s), NEW t \in Slots, t # s,
         NEW d \in UserData, Fill(t, d)
  PROVE  mem'[x] = mem[x]
<1>1. /\ t \in Live /\ mem' = [a \in Words |-> IF a \in DataWords(t) THEN d ELSE mem[a]]
  BY DEF Fill, Live
<1>2. /\ x \in Words /\ x \in Int /\ Node(s) \in Int /\ mem[Node(s) + size] \in Nat
      /\ Node(s) \in FreeBlocks \cup Taken
      /\ Node(s) + HEADER_SIZE <= x /\ x < Node(s) + HEADER_SIZE + mem[Node(s) + size]
  BY DataWithin
<1>3. x \notin DataWords(t)
  <2> SUFFICES ASSUME x \in DataWords(t) PROVE FALSE
    OBVIOUS
  <2>1. /\ Node(t) \in Int /\ mem[Node(t) + size] \in Nat /\ Node(t) \in FreeBlocks \cup Taken
        /\ Node(t) + HEADER_SIZE <= x /\ x < Node(t) + HEADER_SIZE + mem[Node(t) + size]
    BY <1>1, DataWithin
  <2>2. Node(s) # Node(t)
    <3>1. ptr[s] # ptr[t] /\ ptr[s] = Node(s) + HEADER_SIZE /\ ptr[t] = Node(t) + HEADER_SIZE
      BY <1>1, InvFacts DEF IInv, Held
    <3> QED
      BY <3>1
  <2>3. /\ (Node(t) < Node(s) => Node(t) + HEADER_SIZE + mem[Node(t) + size] <= Node(s))
        /\ (Node(s) < Node(t) => Node(s) + HEADER_SIZE + mem[Node(s) + size] <= Node(t))
    BY <1>2, <2>1, InvFacts, BlockFacts
  <2> QED
    BY <1>2, <2>1, <2>2, <2>3 DEF HEADER_SIZE
<1> QED
  BY <1>1, <1>2, <1>3

DataKept ==
  \A s \in Slots :
    ptr[s] # NULL /\ ptr'[s] = ptr[s] =>
      \/ \E d \in UserData : Fill(s, d)
      \/ \A a \in DataWords(s) : mem'[a] = mem[a]

LEMMA StepKeepsData == IInv /\ [CarefulNext]_vars => [DataKept]_vars
<1> SUFFICES ASSUME IInv, CarefulNext, NEW s \in Slots, ptr[s] # NULL,
                    ~\E d \in UserData : Fill(s, d), NEW x \in DataWords(s)
             PROVE  mem'[x] = mem[x]
  BY DEF DataKept
<1>1. s \in Live
  BY DEF Live
<1>2. CASE Allocator
  BY <1>1, <1>2, TakeKeepsData, InsertKeepsData DEF Allocator, FirstFitStep, InsertStep
<1>3. CASE \E t \in Slots, n \in Requests : MyMalloc(t, n)
  BY <1>3 DEF MyMalloc
<1>4. CASE \E t \in Slots : Free(t)
  BY <1>1, <1>4, FreeKeepsData
<1>5. CASE \E t \in Slots, d \in UserData : Fill(t, d)
  BY <1>1, <1>5, FillKeepsData
<1> QED
  BY <1>2, <1>3, <1>4, <1>5 DEF CarefulNext

(* What the client stored in a block it holds, nobody else changes: the     *)
(* allocator writes its links and sizes only to headers.                    *)
THEOREM DataStaysUntouched == CarefulSpec => DataUntouched
<1>1. CarefulSpec => [][DataKept]_vars
  BY HeapInvariance, StepKeepsData, PTL DEF CarefulSpec
<1> QED
  BY <1>1 DEF DataUntouched, DataKept

-----------------------------------------------------------------------------
(* The allocator implements its contract. *)
LEMMA HeapInitRefines == Init => Contract!Init
<1> SUFFICES ASSUME Init PROVE Contract!Init
  OBVIOUS
<1>1. \A s \in Slots : ptr[s] = NULL
  BY DEF Init
<1>2. BlockView = [s \in Slots |-> [at |-> 0, bytes |-> 0]] /\ AskedView = {}
  BY <1>1 DEF Init, BlockView, AskedView
<1> QED
  BY <1>2 DEF Contract!Init, Contract!NoBlock

LEMMA CallRefines ==
  ASSUME IInv, NEW s \in Slots, NEW n \in Requests, MyMalloc(s, n)
  PROVE  Contract!Ask(s, n)
<1>1. /\ pc = "idle" /\ ptr[s] = NULL /\ pc' = "scan" /\ slot' = s /\ ptr' = ptr
      /\ req' = [req EXCEPT ![s] = n] /\ req \in [Slots -> Requests \cup {0}]
  BY DEF MyMalloc, IInv, TypeOK
<1>2. BlockView' = BlockView
  BY <1>1 DEF BlockView
<1>3. AskedView = {} /\ AskedView' = {[slot |-> s, bytes |-> n]}
  BY <1>1 DEF AskedView
<1>4. BlockView[s] = [at |-> 0, bytes |-> 0]
  BY <1>1 DEF BlockView
<1> QED
  BY <1>2, <1>3, <1>4 DEF Contract!Ask, Contract!NoBlock

LEMMA HiddenRefines ==
  ASSUME IInv,
         FirstFitStep \/ InsertStep \/ InsertNode \/ UNCHANGED vars
           \/ \E s \in Slots, d \in UserData : Fill(s, d)
  PROVE  UNCHANGED Contract!vars
<1>1. /\ ptr' = ptr /\ req' = req /\ slot' = slot
      /\ pc' = pc \/ (pc = "insert" /\ pc' = "idle")
  BY DEF FirstFitStep, InsertStep, InsertNode, Return, Fill, vars
<1> QED
  BY <1>1 DEF Contract!vars, BlockView, AskedView

LEMMA FreeRefines ==
  ASSUME IInv, NEW s \in Slots, Free(s)
  PROVE  Contract!Release(s)
<1>1. /\ FreeSlot(s) /\ pc' \in {"idle", "insert"}
  BY DEF Free, FreeIntoEmpty, FreeInFront, FreeBehind, FreeSlot
<1>2. /\ pc = "idle" /\ ptr[s] # NULL /\ ptr' = [ptr EXCEPT ![s] = NULL]
      /\ req' = [req EXCEPT ![s] = 0] /\ ptr[s] # 0
      /\ ptr \in [Slots -> {NULL} \cup {a + HEADER_SIZE : a \in Headers}]
      /\ req \in [Slots -> Requests \cup {0}]
  BY <1>1 DEF FreeSlot, IInv, TypeOK, NULL
<1>3. AskedView = {} /\ AskedView' = {}
  BY <1>1, <1>2 DEF AskedView
<1>4. BlockView[s] # [at |-> 0, bytes |-> 0]
  BY <1>2 DEF BlockView
<1>5. BlockView' = [BlockView EXCEPT ![s] = [at |-> 0, bytes |-> 0]]
  BY <1>2 DEF BlockView
<1> QED
  BY <1>3, <1>4, <1>5 DEF Contract!Release, Contract!NoBlock

(* What a Take leaves the client with: the bytes behind the header at tmp.  *)
LEMMA TakeRefines ==
  ASSUME IInv, TakeHeadWhole \/ TakeHeadSplit \/ TakeInnerWhole \/ TakeInnerSplit
  PROVE  Contract!Answer
<1> DEFINE p == tmp + HEADER_SIZE
<1> DEFINE n == req[slot]
<1>1. /\ Found /\ pc' = "idle" /\ req' = req /\ slot' = slot
      /\ ptr' = [ptr EXCEPT ![slot] = p]
      /\ ptr \in [Slots -> {NULL} \cup {a + HEADER_SIZE : a \in Headers}]
  BY DEF TakeHeadWhole, TakeHeadSplit, TakeInnerWhole, TakeInnerSplit, Allocated, Return,
         IInv, TypeOK
<1>2. /\ tmp \in FreeBlocks /\ slot \in Slots /\ ptr[slot] = NULL /\ pc = "scan"
      /\ arg \in Nat /\ n \in Nat /\ n <= arg /\ arg <= mem[tmp + size]
  BY <1>1, FoundFits
<1>3. /\ tmp \in Headers /\ tmp \in Int /\ mem[tmp + size] \in Nat /\ tmp >= 256 /\ tmp % 8 = 0
      /\ BigBuffer <= tmp /\ tmp + HEADER_SIZE + mem[tmp + size] <= End
  BY <1>2, InvFacts, BlockFacts, HeaderWords
<1> HIDE DEF n
<1>4. BigBuffer \in Nat /\ End \in Nat /\ BigBuffer < End
  BY MemoryAssumption DEF End, HEADER_SIZE
<1>5. p \in Int /\ p % 8 = 0 /\ p # NULL /\ BigBuffer <= p /\ p + n <= End /\ p <= End
  BY <1>2, <1>3, <1>4 DEF HEADER_SIZE, NULL
<1>6. p \in Contract!Aligned
  <2>1. p \in BigBuffer .. End - 1 \/ p = (End - 1) + 1
    BY <1>4, <1>5
  <2>2. End - 1 \in BigBuffer .. End - 1
    BY <1>4
  <2> QED
    BY <1>5, <2>1, <2>2 DEF Contract!Aligned
<1>7. p .. p + n - 1 \subseteq BigBuffer .. End - 1
  BY <1>2, <1>4, <1>5
<1>8. ASSUME NEW s \in Slots
      PROVE  (p .. p + n - 1) \cap (BlockView[s].at .. BlockView[s].at + BlockView[s].bytes - 1) = {}
  <2>1. CASE ptr[s] = NULL
    BY <2>1 DEF BlockView
  <2>2. CASE ptr[s] # NULL
    <3>1. BlockView[s].at = ptr[s] /\ BlockView[s].bytes = req[s]
      BY <2>2 DEF BlockView
    <3>2. s \in Live
      BY <2>2 DEF Live
    <3>3. /\ Node(s) \in Taken /\ ptr[s] = Node(s) + HEADER_SIZE /\ Node(s) # tmp
          /\ req[s] \in Nat /\ req[s] <= mem[Node(s) + size]
      BY <1>2, <3>2, InvFacts, ReqInt DEF IInv, Held
    <3>4. /\ Node(s) \in Int /\ mem[Node(s) + size] \in Nat
          /\ (tmp < Node(s) => tmp + HEADER_SIZE + mem[tmp + size] <= Node(s))
          /\ (Node(s) < tmp => Node(s) + HEADER_SIZE + mem[Node(s) + size] <= tmp)
      <4> DEFINE B == FreeBlocks \cup Taken
      <4>1. Blocks(mem, B) /\ tmp \in B /\ Node(s) \in B
        BY <1>2, <3>3, InvFacts
      <4> HIDE DEF B
      <4> QED
        BY <4>1, BlockFacts
    <3>5. p + n <= ptr[s] \/ ptr[s] + req[s] <= p
      BY <1>2, <1>3, <3>3, <3>4 DEF HEADER_SIZE
    <3>6. ptr[s] \in Int
      BY <3>3, <3>4 DEF HEADER_SIZE
    <3> HIDE DEF p
    <3> QED
      BY <1>2, <1>5, <3>1, <3>3, <3>5, <3>6
  <2> QED
    BY <2>1, <2>2
<1>9. AskedView = {[slot |-> slot, bytes |-> n]} /\ AskedView' = {}
  BY <1>1, <1>2 DEF AskedView, n
<1>10. BlockView' = [BlockView EXCEPT ![slot] = [at |-> p, bytes |-> n]]
  <2> HIDE DEF p
  <2> QED
    BY <1>1, <1>2, <1>5 DEF BlockView, n
<1> HIDE DEF p
<1> DEFINE b == [at |-> p, bytes |-> n]
<1>11. /\ Contract!Extent(b) \subseteq BigBuffer .. End - 1
       /\ \A s \in Slots : Contract!Extent(b) \cap Contract!Extent(BlockView[s]) = {}
  BY <1>7, <1>8 DEF Contract!Extent
<1> DEFINE q == [slot |-> slot, bytes |-> n]
<1>12. q \in AskedView /\ q.bytes = n /\ q.slot = slot
  BY <1>9
<1> HIDE DEF q
<1> QED
  BY <1>6, <1>9, <1>10, <1>11, <1>12 DEF Contract!Answer

(* A request is answered with aligned bytes of BigBuffer that no other      *)
(* pointer of the client has a share in, and they stay the client's until   *)
(* it frees them.                                                           *)
THEOREM HeapServes == CarefulSpec => Contract!Safety
<1>1. IInv /\ [CarefulNext]_vars => [Contract!Next]_(Contract!vars)
  <2> SUFFICES ASSUME IInv, [CarefulNext]_vars
               PROVE  [Contract!Next]_(Contract!vars)
    OBVIOUS
  <2>1. CASE TakeHeadWhole \/ TakeHeadSplit \/ TakeInnerWhole \/ TakeInnerSplit
    BY <2>1, TakeRefines DEF Contract!Next
  <2>2. CASE FirstFitStep \/ InsertStep \/ InsertNode \/ UNCHANGED vars
               \/ \E s \in Slots, d \in UserData : Fill(s, d)
    BY <2>2, HiddenRefines
  <2>3. CASE \E s \in Slots, n \in Requests : MyMalloc(s, n)
    BY <2>3, CallRefines DEF Contract!Next
  <2>4. CASE \E s \in Slots : Free(s)
    BY <2>4, FreeRefines DEF Contract!Next
  <2> QED
    BY <2>1, <2>2, <2>3, <2>4 DEF CarefulNext, Allocator
<1> QED
  BY <1>1, HeapInitRefines, HeapInvariance, PTL DEF CarefulSpec, Contract!Safety
=============================================================================
