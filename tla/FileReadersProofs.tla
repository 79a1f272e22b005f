-------------------------- MODULE FileReadersProofs --------------------------
(***************************************************************************)
(* Proofs about the programs that read a file: my-wc counts the words,     *)
(* lines and characters of its file, for every file and every number of    *)
(* failed reads; fetch never returns memory it has not filled, whatever    *)
(* size the file has and an int makes of it, under any truncations and     *)
(* writes; my-cat prints any files whole and in order, for every size of   *)
(* its buffer.                                                             *)
(***************************************************************************)
EXTENDS MCFileReaders, FiniteSetTheorems, SequenceTheorems, TLAPS

(* CountsMatch is not inductive: whether a character starts a word or the   *)
(* text of a line is read off insideWord and newLine, which have to agree   *)
(* with the characters seen, and ent has to be the last of them for a       *)
(* failed read to count nothing again.                                      *)
BytesSeen == Chars \cup {"nul"}

InWordAtEnd(s) == Len(s) # 0 /\ InWord(s[Len(s)])
NoTextYet(s) == \A j \in 1 .. Len(s) : InWord(s[j]) => \E m \in j + 1 .. Len(s) : s[m] = "newline"

FlagsMatch ==
  /\ insideWord <=> InWordAtEnd(seen)
  /\ newLine <=> NoTextYet(seen)
  /\ ent = IF seen = <<>> THEN "nul" ELSE seen[Len(seen)]

CountInv == TypeOK /\ FlagsMatch /\ CountsMatch

-----------------------------------------------------------------------------
(* Sets of positions are finite, and one more position counts one more.     *)
LEMMA OnePositionMore ==
  ASSUME NEW n \in Nat, NEW S \in SUBSET (1 .. n)
  PROVE  /\ Cardinality(S) \in Nat
         /\ Cardinality(S \cup {n + 1}) = Cardinality(S) + 1
<1>1. IsFiniteSet(1 .. n)
  BY FS_Interval
<1>2. IsFiniteSet(S)
  BY <1>1, FS_Subset
<1>3. n + 1 \notin S
  OBVIOUS
<1>4. QED
  BY <1>2, <1>3, FS_AddElement, FS_CardinalityType

(* The sequence t is s with one more character, c. *)
OneLonger(s, n, c, t) ==
  /\ n \in Nat /\ n = Len(s) /\ DOMAIN s = 1 .. n
  /\ Len(t) = n + 1 /\ DOMAIN t = 1 .. n + 1
  /\ \A k \in 1 .. n : t[k] = s[k]
  /\ t[n + 1] = c

(* That is what Append gives. *)
LEMMA AppendIsLonger ==
  ASSUME NEW s \in Seq(BytesSeen), NEW c \in BytesSeen
  PROVE  Append(s, c) \in Seq(BytesSeen) /\ OneLonger(s, Len(s), c, Append(s, c))
<1>1. Len(s) \in Nat /\ DOMAIN s = 1 .. Len(s)
  OBVIOUS
<1>2. /\ Append(s, c) \in Seq(BytesSeen) /\ Len(Append(s, c)) = Len(s) + 1
      /\ \A k \in 1 .. Len(s) : Append(s, c)[k] = s[k]
      /\ Append(s, c)[Len(s) + 1] = c
  BY AppendProperties
<1>3. DOMAIN Append(s, c) = 1 .. Len(s) + 1
  BY <1>2
<1>4. QED
  BY <1>1, <1>2, <1>3 DEF OneLonger

(* It starts a word if it belongs to one and no word is under way. *)
LEMMA WordsGrow ==
  ASSUME NEW s, NEW n, NEW c, NEW t, OneLonger(s, n, c, t)
  PROVE  Words(t) = IF InWord(c) /\ ~InWordAtEnd(s) THEN Words(s) \cup {n + 1} ELSE Words(s)
<1>1. /\ n \in Nat /\ n = Len(s) /\ DOMAIN s = 1 .. n /\ DOMAIN t = 1 .. n + 1
      /\ \A k \in 1 .. n : t[k] = s[k]
      /\ t[n + 1] = c
  BY DEF OneLonger
<1>2. ASSUME NEW k \in 1 .. n
      PROVE  StartsWord(t, k) <=> StartsWord(s, k)
  <2>1. k = 1 \/ k - 1 \in 1 .. n
    BY <1>1
  <2>2. QED
    BY <1>1, <2>1 DEF StartsWord
<1>3. StartsWord(t, n + 1) <=> InWord(c) /\ ~InWordAtEnd(s)
  <2>1. (n + 1 = 1 <=> n = 0) /\ n + 1 - 1 = n /\ (n # 0 => n \in 1 .. n)
    BY <1>1
  <2>2. QED
    BY <1>1, <2>1 DEF StartsWord, InWordAtEnd
<1>4. /\ \A k \in 1 .. n + 1 : k \in 1 .. n \/ k = n + 1
      /\ \A k \in 1 .. n : k \in 1 .. n + 1
      /\ n + 1 \in 1 .. n + 1
  BY <1>1
<1>5. CASE InWord(c) /\ ~InWordAtEnd(s)
  BY <1>1, <1>2, <1>3, <1>4, <1>5 DEF Words
<1>6. CASE ~(InWord(c) /\ ~InWordAtEnd(s))
  BY <1>1, <1>2, <1>3, <1>4, <1>6 DEF Words
<1>7. QED
  BY <1>5, <1>6

(* It starts the text of a line if it belongs to a word and the line has no *)
(* text yet.                                                                *)
LEMMA TextsGrow ==
  ASSUME NEW s, NEW n, NEW c, NEW t, OneLonger(s, n, c, t)
  PROVE  Texts(t) = IF InWord(c) /\ NoTextYet(s) THEN Texts(s) \cup {n + 1} ELSE Texts(s)
<1>1. /\ n \in Nat /\ n = Len(s) /\ DOMAIN s = 1 .. n /\ DOMAIN t = 1 .. n + 1
      /\ \A k \in 1 .. n : t[k] = s[k]
      /\ t[n + 1] = c
  BY DEF OneLonger
<1>2. ASSUME NEW k \in 1 .. n
      PROVE  StartsText(t, k) <=> StartsText(s, k)
  <2>1. \A j \in 1 .. k - 1 : j \in 1 .. n /\ \A m \in j + 1 .. k - 1 : m \in 1 .. n
    BY <1>1
  <2>2. QED
    BY <1>1, <2>1 DEF StartsText
<1>3. StartsText(t, n + 1) <=> InWord(c) /\ NoTextYet(s)
  <2>1. n + 1 - 1 = n /\ \A j \in 1 .. n : \A m \in j + 1 .. n : m \in 1 .. n
    BY <1>1
  <2>2. QED
    BY <1>1, <2>1 DEF StartsText, NoTextYet
<1>4. /\ \A k \in 1 .. n + 1 : k \in 1 .. n \/ k = n + 1
      /\ \A k \in 1 .. n : k \in 1 .. n + 1
      /\ n + 1 \in 1 .. n + 1
  BY <1>1
<1>5. CASE InWord(c) /\ NoTextYet(s)
  BY <1>1, <1>2, <1>3, <1>4, <1>5 DEF Texts
<1>6. CASE ~(InWord(c) /\ NoTextYet(s))
  BY <1>1, <1>2, <1>3, <1>4, <1>6 DEF Texts
<1>7. QED
  BY <1>5, <1>6

(* What the last character says of a word and of the text of a line.        *)
LEMMA AtEnd ==
  ASSUME NEW s \in Seq(BytesSeen), s # <<>>
  PROVE  /\ Len(s) \in Nat /\ Len(s) >= 1 /\ s[Len(s)] \in BytesSeen
         /\ InWordAtEnd(s) <=> InWord(s[Len(s)])
         /\ s[Len(s)] = "newline" => NoTextYet(s)
         /\ InWord(s[Len(s)]) => ~NoTextYet(s)
<1> DEFINE n == Len(s)
<1>1. n \in Nat /\ n >= 1
  BY EmptySeq
<1>2. n \in 1 .. n /\ n # 0 /\ s[n] \in BytesSeen
  BY <1>1, ElementOfSeq
<1>3. InWordAtEnd(s) <=> InWord(s[n])
  BY <1>2 DEF InWordAtEnd
<1>4. ASSUME s[n] = "newline"
      PROVE  NoTextYet(s)
  <2>1. ASSUME NEW j \in 1 .. n, InWord(s[j])
        PROVE  n \in j + 1 .. n
    <3>1. j # n
      BY <1>4, <2>1 DEF InWord
    <3>2. QED
      BY <1>1, <3>1
  <2>2. QED
    BY <1>4, <2>1 DEF NoTextYet
<1>5. ASSUME InWord(s[n])
      PROVE  ~NoTextYet(s)
  <2>1. n + 1 .. n = {}
    BY <1>1
  <2>2. QED
    BY <1>2, <1>5, <2>1 DEF NoTextYet
<1>6. QED
  BY <1>1, <1>2, <1>3, <1>4, <1>5

(* A character leaves the flags as Count does. *)
LEMMA FlagsGrow ==
  ASSUME NEW s, NEW n, NEW c, NEW t, OneLonger(s, n, c, t)
  PROVE  /\ InWordAtEnd(t) <=> InWord(c)
         /\ NoTextYet(t) <=> EndsLine(c) \/ (NoTextYet(s) /\ ~InWord(c))
<1>1. /\ n \in Nat /\ n = Len(s) /\ Len(t) = n + 1
      /\ \A k \in 1 .. n : t[k] = s[k]
      /\ t[n + 1] = c
  BY DEF OneLonger
<1>2. InWordAtEnd(t) <=> InWord(c)
  BY <1>1 DEF InWordAtEnd
<1>3. ASSUME EndsLine(c)
      PROVE  NoTextYet(t)
  <2>1. ASSUME NEW j \in 1 .. n + 1, InWord(t[j])
        PROVE  n + 1 \in j + 1 .. n + 1
    <3>1. j # n + 1
      BY <1>1, <1>3, <2>1 DEF InWord, EndsLine
    <3>2. QED
      BY <1>1, <3>1
  <2>2. t[n + 1] = "newline"
    BY <1>1, <1>3 DEF EndsLine
  <2>3. QED
    BY <1>1, <2>1, <2>2 DEF NoTextYet
<1>4. ASSUME NoTextYet(s), ~InWord(c)
      PROVE  NoTextYet(t)
  <2>1. ASSUME NEW j \in 1 .. n + 1, InWord(t[j])
        PROVE  \E m \in j + 1 .. n + 1 : t[m] = "newline"
    <3>1. j \in 1 .. n
      BY <1>1, <1>4, <2>1
    <3>2. PICK m \in j + 1 .. n : s[m] = "newline"
      BY <1>1, <1>4, <2>1, <3>1 DEF NoTextYet
    <3>3. m \in 1 .. n /\ m \in j + 1 .. n + 1
      BY <1>1, <3>1
    <3>4. QED
      BY <1>1, <3>2, <3>3
  <2>2. QED
    BY <1>1, <2>1 DEF NoTextYet
<1>5. ASSUME NoTextYet(t), ~EndsLine(c)
      PROVE  NoTextYet(s) /\ ~InWord(c)
  <2>1. n + 1 \in 1 .. n + 1 /\ n + 1 + 1 .. n + 1 = {}
    BY <1>1
  <2>2. ~InWord(c)
    BY <1>1, <1>5, <2>1 DEF NoTextYet
  <2>3. ASSUME NEW j \in 1 .. n, InWord(s[j])
        PROVE  \E m \in j + 1 .. n : s[m] = "newline"
    <3>1. j \in 1 .. n + 1 /\ InWord(t[j])
      BY <1>1, <2>3
    <3>2. PICK m \in j + 1 .. n + 1 : t[m] = "newline"
      BY <1>1, <1>5, <3>1 DEF NoTextYet
    <3>3. m # n + 1
      BY <1>1, <1>5, <3>2 DEF EndsLine
    <3>4. m \in 1 .. n /\ m \in j + 1 .. n
      BY <1>1, <3>3
    <3>5. QED
      BY <1>1, <3>2, <3>4
  <2>4. QED
    BY <1>1, <2>2, <2>3 DEF NoTextYet
<1>6. QED
  BY <1>2, <1>3, <1>4, <1>5

-----------------------------------------------------------------------------
(* Nothing is counted at first. *)
LEMMA InitCountInv == Init => CountInv
<1> SUFFICES ASSUME Init
             PROVE  CountInv
  OBVIOUS
<1>1. Len(seen) = 0 /\ DOMAIN seen = {} /\ seen \in Seq(BytesSeen) /\ seen = <<>>
  BY EmptySeq DEF Init
<1>2. TypeOK
  <2>1. /\ argv \in {"none", "file"} /\ pc = "open" /\ ent = "nul"
        /\ insideWord = FALSE /\ newLine = TRUE
        /\ lcount = 0 /\ wcount = 0 /\ acount = 0 /\ errors = 0
    BY DEF Init
  <2>2. wcount \in 0 .. acount /\ lcount \in 0 .. wcount /\ acount \in Nat /\ errors \in 0 .. MaxErrors
    BY <2>1, WordCountAssumption
  <2>3. /\ ent \in Chars \cup {"nul"} /\ insideWord \in BOOLEAN /\ newLine \in BOOLEAN
        /\ pc \in {"open", "loop", "print", "done", "failed", "crashed"}
    BY <2>1
  <2>4. QED
    BY <1>1, <2>1, <2>2, <2>3, Zenon DEF TypeOK, BytesSeen
<1>3. FlagsMatch
  BY <1>1 DEF Init, FlagsMatch, InWordAtEnd, NoTextYet
<1>4. Words(seen) = {} /\ Texts(seen) = {}
  BY <1>1 DEF Words, Texts
<1>5. CountsMatch
  BY <1>1, <1>4, FS_EmptySet DEF Init, CountsMatch, StartedByError
<1>6. QED
  BY <1>2, <1>3, <1>5 DEF CountInv

(* A character that is new, from the file or the 0 in ent. *)
LEMMA NewChar ==
  ASSUME CountInv, NEW c \in BytesSeen, Count(c), seen' = Append(seen, c)
  PROVE  /\ insideWord' <=> InWordAtEnd(seen')
         /\ newLine' <=> NoTextYet(seen')
         /\ seen' \in Seq(BytesSeen) /\ seen' # <<>> /\ seen'[Len(seen')] = c
         /\ Len(seen') = Len(seen) + 1
         /\ wcount' = Cardinality(Words(seen')) /\ lcount' = Cardinality(Texts(seen'))
<1> DEFINE n == Len(seen)
<1>1. /\ seen \in Seq(BytesSeen) /\ (insideWord <=> InWordAtEnd(seen)) /\ (newLine <=> NoTextYet(seen))
      /\ wcount = Cardinality(Words(seen)) /\ lcount = Cardinality(Texts(seen))
  BY DEF CountInv, TypeOK, FlagsMatch, CountsMatch, BytesSeen
<1>2. seen' \in Seq(BytesSeen) /\ OneLonger(seen, n, c, seen')
  BY <1>1, AppendIsLonger
<1>3. /\ n \in Nat /\ DOMAIN seen = 1 .. n /\ Len(seen') = n + 1 /\ seen'[n + 1] = c
  BY <1>2 DEF OneLonger
<1>4. seen' # <<>>
  BY <1>3, EmptySeq
<1>5. /\ insideWord' <=> InWordAtEnd(seen')
      /\ newLine' <=> NoTextYet(seen')
  BY <1>1, <1>2, FlagsGrow DEF Count
<1>6. wcount' = Cardinality(Words(seen'))
  <2>1. Words(seen') = IF InWord(c) /\ ~insideWord THEN Words(seen) \cup {n + 1} ELSE Words(seen)
    BY <1>1, <1>2, WordsGrow
  <2>2. Words(seen) \in SUBSET (1 .. n)
    BY <1>3 DEF Words
  <2>3. Cardinality(Words(seen) \cup {n + 1}) = Cardinality(Words(seen)) + 1
    BY <1>3, <2>2, OnePositionMore
  <2>4. QED
    BY <1>1, <2>1, <2>3 DEF Count
<1>7. lcount' = Cardinality(Texts(seen'))
  <2>1. Texts(seen') = IF InWord(c) /\ newLine THEN Texts(seen) \cup {n + 1} ELSE Texts(seen)
    BY <1>1, <1>2, TextsGrow
  <2>2. Texts(seen) \in SUBSET (1 .. n)
    BY <1>3 DEF Texts
  <2>3. Cardinality(Texts(seen) \cup {n + 1}) = Cardinality(Texts(seen)) + 1
    BY <1>3, <2>2, OnePositionMore
  <2>4. QED
    BY <1>1, <2>1, <2>3 DEF Count, StartsLine
<1>8. QED
  BY <1>2, <1>3, <1>4, <1>5, <1>6, <1>7

(* The last character again counts nothing and leaves the flags alone. *)
LEMMA SameChar ==
  ASSUME CountInv, seen # <<>>, Count(ent)
  PROVE  UNCHANGED <<insideWord, newLine, wcount, lcount>>
<1>1. /\ seen \in Seq(BytesSeen) /\ insideWord \in BOOLEAN /\ newLine \in BOOLEAN
      /\ ent = seen[Len(seen)]
      /\ (insideWord <=> InWordAtEnd(seen)) /\ (newLine <=> NoTextYet(seen))
  BY DEF CountInv, TypeOK, FlagsMatch, BytesSeen
<1>2. /\ insideWord <=> InWord(ent)
      /\ ent = "newline" => newLine
      /\ InWord(ent) => ~newLine
  BY <1>1, AtEnd
<1>3. InWord(ent) \in BOOLEAN
  BY DEF InWord
<1>4. insideWord' = insideWord
  BY <1>1, <1>2, <1>3 DEF Count
<1>5. newLine' = newLine
  BY <1>1, <1>2, <1>3 DEF Count, EndsLine, InWord
<1>6. wcount' = wcount /\ lcount' = lcount
  BY <1>2 DEF Count, StartsLine
<1>7. QED
  BY <1>4, <1>5, <1>6

(* Every character leaves the counters numbers in their order.              *)
LEMMA CountersOrdered ==
  ASSUME CountInv, NEW c, Count(c)
  PROVE  /\ insideWord' \in BOOLEAN /\ newLine' \in BOOLEAN
         /\ acount' \in Nat /\ wcount' \in 0 .. acount' /\ lcount' \in 0 .. wcount'
<1>1. /\ insideWord \in BOOLEAN /\ newLine \in BOOLEAN /\ seen \in Seq(BytesSeen)
      /\ acount \in Nat /\ wcount \in 0 .. acount /\ lcount \in 0 .. wcount
  BY DEF CountInv, TypeOK, BytesSeen
<1>2. newLine => ~insideWord
  <2>1. CASE seen = <<>>
    BY <2>1, EmptySeq DEF CountInv, FlagsMatch, InWordAtEnd
  <2>2. CASE seen # <<>>
    BY <1>1, <2>2, AtEnd DEF CountInv, FlagsMatch
  <2>3. QED
    BY <2>1, <2>2
<1>3. insideWord' \in BOOLEAN /\ newLine' \in BOOLEAN
  BY DEF Count, InWord
<1>4. /\ acount' = acount + 1
      /\ \/ wcount' = wcount + 1 /\ lcount' \in {lcount, lcount + 1}
         \/ wcount' = wcount /\ lcount' = lcount
  BY <1>2 DEF Count, StartsLine
<1>5. QED
  BY <1>1, <1>3, <1>4

(* A byte read is counted, and is a byte of the file. *)
LEMMA ScanStep ==
  ASSUME CountInv, Scan
  PROVE  CountInv'
<1>1. /\ pc = "loop" /\ ent' \in Chars /\ Count(ent') /\ seen' = Append(seen, ent')
      /\ UNCHANGED <<argv, pc, errors>>
  BY DEF Scan
<1>2. ent' \in BytesSeen /\ ent' # "nul"
  BY <1>1 DEF BytesSeen, Chars
<1>3. /\ insideWord' <=> InWordAtEnd(seen')
      /\ newLine' <=> NoTextYet(seen')
      /\ seen' \in Seq(BytesSeen) /\ seen' # <<>> /\ seen'[Len(seen')] = ent'
      /\ Len(seen') = Len(seen) + 1
      /\ wcount' = Cardinality(Words(seen')) /\ lcount' = Cardinality(Texts(seen'))
  BY <1>1, <1>2, NewChar
<1>4. TypeOK'
  <2>1. /\ insideWord' \in BOOLEAN /\ newLine' \in BOOLEAN
        /\ acount' \in Nat /\ wcount' \in 0 .. acount' /\ lcount' \in 0 .. wcount'
    BY <1>1, CountersOrdered
  <2>2. TypeOK
    BY DEF CountInv
  <2>3. QED
    BY <1>1, <1>2, <1>3, <2>1, <2>2, Zenon DEF TypeOK, BytesSeen
<1>5. FlagsMatch'
  BY <1>3 DEF FlagsMatch
<1>6. acount' = Len(seen') + errors' - (IF StartedByError' THEN 1 ELSE 0)
  <2>1. /\ acount = Len(seen) + errors - (IF StartedByError THEN 1 ELSE 0)
        /\ seen \in Seq(BytesSeen) /\ errors \in Int
    BY DEF CountInv, TypeOK, CountsMatch, BytesSeen
  <2>2. Len(seen) \in Nat
    BY <2>1
  <2>3. StartedByError' <=> StartedByError
    <3>1. CASE seen = <<>>
      <4>1. Len(seen') = 1
        BY <1>3, <3>1, EmptySeq
      <4>2. seen'[1] = ent'
        BY <1>3, <4>1
      <4>3. QED
        BY <1>2, <3>1, <4>2 DEF StartedByError
    <3>2. CASE seen # <<>>
      <4>1. 1 \in 1 .. Len(seen)
        BY <2>1, <2>2, <3>2, EmptySeq
      <4>2. seen'[1] = seen[1]
        BY <1>1, <1>2, <2>1, <4>1, AppendIsLonger DEF OneLonger
      <4>3. QED
        BY <1>3, <3>2, <4>2 DEF StartedByError
    <3>3. QED
      BY <3>1, <3>2
  <2>4. acount' = acount + 1
    BY <1>1 DEF Count
  <2>5. QED
    BY <1>1, <1>3, <2>1, <2>2, <2>3, <2>4
<1>7. CountsMatch'
  BY <1>3, <1>6 DEF CountsMatch
<1>8. QED
  BY <1>4, <1>5, <1>7 DEF CountInv

(* A read that fails counts the 0 in ent, or nothing but a character.       *)
LEMMA ScanFailsStep ==
  ASSUME CountInv, ScanFails
  PROVE  CountInv'
<1>1. /\ pc = "loop" /\ errors < MaxErrors /\ Count(ent) /\ errors' = errors + 1
      /\ seen' = IF seen = <<>> THEN <<ent>> ELSE seen
      /\ UNCHANGED <<argv, pc, ent>>
  BY DEF ScanFails
<1>2. /\ TypeOK /\ seen \in Seq(BytesSeen) /\ ent \in BytesSeen /\ errors \in Nat /\ errors' \in 0 .. MaxErrors
      /\ ent = IF seen = <<>> THEN "nul" ELSE seen[Len(seen)]
      /\ acount = Len(seen) + errors - (IF StartedByError THEN 1 ELSE 0)
      /\ acount' = acount + 1
  BY <1>1, WordCountAssumption DEF CountInv, TypeOK, FlagsMatch, CountsMatch, Count, BytesSeen
<1>3. Len(seen) \in Nat
  BY <1>2
<1>4. /\ insideWord' \in BOOLEAN /\ newLine' \in BOOLEAN
      /\ acount' \in Nat /\ wcount' \in 0 .. acount' /\ lcount' \in 0 .. wcount'
  BY <1>1, CountersOrdered
<1>5. CASE seen = <<>>
  <2>1. seen' = Append(seen, ent) /\ Len(seen) = 0 /\ ent = "nul"
    BY <1>1, <1>2, <1>5, EmptySeq
  <2>2. /\ insideWord' <=> InWordAtEnd(seen')
        /\ newLine' <=> NoTextYet(seen')
        /\ seen' \in Seq(BytesSeen) /\ seen' # <<>> /\ seen'[Len(seen')] = ent
        /\ Len(seen') = 1
        /\ wcount' = Cardinality(Words(seen')) /\ lcount' = Cardinality(Texts(seen'))
    BY <1>1, <1>2, <2>1, NewChar
  <2>3. TypeOK'
    BY <1>1, <1>2, <1>4, <2>2, Zenon DEF TypeOK, BytesSeen
  <2>4. FlagsMatch'
    BY <1>1, <2>2 DEF FlagsMatch
  <2>5. StartedByError' /\ ~StartedByError
    BY <1>5, <2>1, <2>2 DEF StartedByError
  <2>6. acount' = Len(seen') + errors' - 1
    BY <1>1, <1>2, <2>1, <2>2, <2>5
  <2>7. CountsMatch'
    BY <2>2, <2>5, <2>6 DEF CountsMatch
  <2>8. QED
    BY <2>3, <2>4, <2>7 DEF CountInv
<1>6. CASE seen # <<>>
  <2>1. seen' = seen /\ UNCHANGED <<insideWord, newLine, wcount, lcount>>
    BY <1>1, <1>6, SameChar
  <2>2. TypeOK'
    BY <1>1, <1>2, <1>4, <2>1, Zenon DEF TypeOK
  <2>3. FlagsMatch'
    BY <1>1, <2>1 DEF CountInv, FlagsMatch
  <2>4. acount' = Len(seen') + errors' - (IF StartedByError' THEN 1 ELSE 0)
    <3>1. StartedByError' <=> StartedByError
      BY <2>1 DEF StartedByError
    <3>2. Len(seen') = Len(seen) /\ errors' = errors + 1 /\ acount' = acount + 1
      BY <1>1, <1>2, <2>1
    <3>3. CASE StartedByError
      BY <1>2, <1>3, <3>1, <3>2, <3>3
    <3>4. CASE ~StartedByError
      BY <1>2, <1>3, <3>1, <3>2, <3>4
    <3>5. QED
      BY <3>3, <3>4
  <2>5. CountsMatch'
    BY <2>1, <2>4 DEF CountInv, CountsMatch
  <2>6. QED
    BY <2>2, <2>3, <2>5 DEF CountInv
<1>7. QED
  BY <1>5, <1>6

(* The other steps count nothing. *)
LEMMA OtherStep ==
  ASSUME CountInv, Fopen \/ Feof \/ PrintCounts \/ UNCHANGED vars
  PROVE  CountInv'
<1>1. UNCHANGED <<argv, ent, insideWord, newLine, lcount, wcount, acount, seen, errors>>
  BY DEF Fopen, Feof, PrintCounts, vars, counters
<1>2. pc' \in {"open", "loop", "print", "done", "failed", "crashed"}
  BY DEF CountInv, TypeOK, Fopen, Feof, PrintCounts, vars
<1>3. TypeOK'
  BY <1>1, <1>2, Zenon DEF CountInv, TypeOK
<1>4. FlagsMatch' /\ CountsMatch'
  BY <1>1 DEF CountInv, FlagsMatch, CountsMatch, StartedByError
<1>5. QED
  BY <1>3, <1>4 DEF CountInv

(* The invariant holds of every state my-wc reaches. *)
THEOREM CountInvariance == Spec => []CountInv
<1>1. CountInv /\ [Next]_vars => CountInv'
  BY ScanStep, ScanFailsStep, OtherStep DEF Next
<1>2. QED
  BY InitCountInv, <1>1, PTL DEF Spec

(* The counters are numbers: no more words than characters, no more lines   *)
(* than words.                                                              *)
THEOREM CountTypeCorrect == Spec => []TypeOK
<1>1. CountInv => TypeOK
  BY DEF CountInv
<1>2. QED
  BY <1>1, CountInvariance, PTL

(* What my-wc has counted is what it has read, wherever reads have failed.  *)
THEOREM CountsAreRight == Spec => []CountsMatch
<1>1. CountInv => CountsMatch
  BY DEF CountInv
<1>2. QED
  BY <1>1, CountInvariance, PTL

-----------------------------------------------------------------------------
(* The file offset keeps step with fetchPos, and what is filled was in the file. *)
InStep ==
  /\ offset = fetchPos
  /\ fetchPc \in {"open", "seek"} => fetchPos = 0 /\ page = <<>>
  /\ fetchPc = "returned" => fetchPos = Len(page)

FileHeld == fetchPc \notin {"open", "null"} => Bytes(file) \subseteq held

FilledHeld == \A k \in 1 .. fetchPos : <<k, page[k]>> \in held

FetchInv == FetchTypeOK /\ InStep /\ FileHeld /\ FilledHeld

(* What was held stays so when another byte is written. *)
LEMMA TypesGrow ==
  ASSUME NEW n \in Nat, NEW s \in Seq(1 .. n), NEW p \in Seq(0 .. n)
  PROVE  s \in Seq(1 .. n + 1) /\ p \in Seq(0 .. n + 1)
<1>1. s \in [1 .. Len(s) -> 1 .. n] /\ p \in [1 .. Len(p) -> 0 .. n] /\ Len(s) \in Nat /\ Len(p) \in Nat
  BY LenProperties
<1>2. s \in [1 .. Len(s) -> 1 .. n + 1] /\ p \in [1 .. Len(p) -> 0 .. n + 1]
  BY <1>1
<1> QED
  BY <1>1, <1>2, SeqDef

LEMMA FunctionIsSeq ==
  ASSUME NEW S, NEW n \in Nat, NEW f \in [1 .. n -> S]
  PROVE  f \in Seq(S) /\ Len(f) = n
<1>1. f \in Seq(S)
  BY SeqDef
<1>2. Len(f) \in Nat /\ 1 .. Len(f) = 1 .. n
  BY <1>1, LenProperties
<1> QED
  BY <1>1, <1>2

LEMMA BytesType ==
  ASSUME NEW S, NEW n \in Nat, NEW f \in Seq(S), Len(f) <= n
  PROVE  Bytes(f) \subseteq (1 .. n) \X S
<1>1. Len(f) \in Nat /\ f \in [1 .. Len(f) -> S]
  BY LenProperties
<1>2. ASSUME NEW k \in DOMAIN f PROVE k \in 1 .. n /\ f[k] \in S
  BY <1>1
<1> QED
  BY <1>2 DEF Bytes

(* A file that has been cut. *)
LEMMA PrefixHas ==
  ASSUME NEW S, NEW f \in Seq(S), NEW n \in 0 .. Len(f) - 1
  PROVE  /\ SubSeq(f, 1, n) \in Seq(S) /\ Len(SubSeq(f, 1, n)) = n
         /\ Bytes(SubSeq(f, 1, n)) \subseteq Bytes(f)
<1>1. Len(f) \in Nat /\ f \in [1 .. Len(f) -> S]
  BY LenProperties
<1>2. SubSeq(f, 1, n) = [k \in 1 .. n |-> f[k]]
  BY <1>1
<1>3. \A k \in 1 .. n : f[k] \in S
  BY <1>1
<1>4. Bytes(SubSeq(f, 1, n)) \subseteq Bytes(f)
  <2>1. ASSUME NEW k \in DOMAIN SubSeq(f, 1, n)
        PROVE  k \in DOMAIN f /\ SubSeq(f, 1, n)[k] = f[k]
    <3>1. k \in 1 .. n
      BY <1>2
    <3> QED
      BY <3>1, <1>1, <1>2
  <2> QED
    BY <2>1 DEF Bytes
<1> QED
  BY <1>3, <1>4, SubSeqProperties, <1>1

LEMMA InitFetchInv == FetchInit => FetchInv
<1> SUFFICES ASSUME FetchInit PROVE FetchInv
  OBVIOUS
<1> USE FileAssumption
<1>1. PICK size \in 0 .. MaxSize : file = [k \in 1 .. size |-> k]
  BY DEF FetchInit
<1>2. stamp = MaxSize /\ size \in Nat /\ file \in [1 .. size -> 1 .. stamp]
  BY <1>1 DEF FetchInit
<1>3. file \in Seq(1 .. stamp) /\ Len(file) = size
  BY <1>2, FunctionIsSeq, Zenon
<1>4. page \in Seq(0 .. stamp) /\ Len(page) = 0
  BY DEF FetchInit
<1>5. FetchTypeOK
  BY <1>2, <1>3, <1>4 DEF FetchInit, FetchTypeOK
<1> QED
  BY <1>4, <1>5 DEF FetchInit, FetchInv, InStep, FileHeld, FilledHeld

LEMMA TruncateInv == FetchInv /\ Truncate => FetchInv'
<1> SUFFICES ASSUME FetchInv, Truncate PROVE FetchInv'
  OBVIOUS
<1> USE FileAssumption
<1>1. PICK n \in 0 .. Len(file) - 1 : file' = SubSeq(file, 1, n)
  BY DEF Truncate
<1>2. file \in Seq(1 .. stamp) /\ Len(file) \in Nat /\ Len(file) <= MaxSize /\ n \in Nat
  BY <1>1 DEF FetchInv, FetchTypeOK
<1>3. file' \in Seq(1 .. stamp) /\ Len(file') = n /\ Bytes(file') \subseteq Bytes(file)
  BY <1>1, <1>2, PrefixHas
<1> QED
  BY <1>2, <1>3 DEF Truncate, FetchInv, FetchTypeOK, InStep, FileHeld, FilledHeld, fetch

LEMMA WriteInv == FetchInv /\ Write => FetchInv'
<1> SUFFICES ASSUME FetchInv, Write PROVE FetchInv'
  OBVIOUS
<1> USE FileAssumption
<1>1. /\ stamp \in Nat /\ stamp' = stamp + 1 /\ stamp' <= MaxSize + MaxWrites
      /\ UNCHANGED <<fetchPc, page, fetchPos, offset>>
      /\ held' = IF fetchPc = "open" THEN held ELSE held \cup Bytes(file')
  BY DEF Write, FetchInv, FetchTypeOK, fetch
<1>2. file \in Seq(1 .. stamp) /\ page \in Seq(0 .. stamp) /\ Len(file) \in 0 .. MaxSize
  BY DEF FetchInv, FetchTypeOK
<1>3. file \in Seq(1 .. stamp') /\ page' \in Seq(0 .. stamp')
  BY <1>1, <1>2, TypesGrow
<1>4. file' \in Seq(1 .. stamp') /\ Len(file') <= MaxSize
  <2>1. CASE Len(file) < MaxSize /\ file' = Append(file, stamp')
    BY <2>1, <1>1, <1>2, <1>3
  <2>2. CASE \E k \in DOMAIN file : file' = [file EXCEPT ![k] = stamp']
    BY <2>2, <1>1, <1>2, <1>3, ExceptSeq
  <2> QED
    BY <2>1, <2>2 DEF Write
<1>5. Bytes(file') \subseteq (1 .. MaxSize) \X (1 .. stamp')
  BY <1>4, BytesType
<1>6. held' \subseteq (1 .. MaxSize) \X (1 .. stamp')
  BY <1>1, <1>5 DEF FetchInv, FetchTypeOK
<1>7. FetchTypeOK'
  BY <1>1, <1>3, <1>4, <1>6 DEF FetchInv, FetchTypeOK
<1>8. held \subseteq held'
  BY <1>1
<1> QED
  BY <1>1, <1>7, <1>8 DEF FetchInv, InStep, FileHeld, FilledHeld

LEMMA OpenInv == FetchInv /\ Open => FetchInv'
<1> SUFFICES ASSUME FetchInv, Open PROVE FetchInv'
  OBVIOUS
<1>1. Bytes(file) \subseteq (1 .. MaxSize) \X (1 .. stamp)
  BY FileAssumption, BytesType DEF FetchInv, FetchTypeOK
<1>2. CASE fetchPc' = "seek" /\ held' = Bytes(file)
  BY <1>1, <1>2 DEF Open, FetchInv, FetchTypeOK, InStep, FileHeld, FilledHeld, others
<1>3. CASE fetchPc' = "null" /\ UNCHANGED held
  <2>1. FetchTypeOK' /\ InStep' /\ FilledHeld'
    BY <1>3 DEF Open, FetchInv, FetchTypeOK, InStep, FilledHeld, others
  <2> QED
    BY <1>3, <2>1 DEF FetchInv, FileHeld
<1> QED
  BY <1>2, <1>3 DEF Open

LEMMA AllocateInv == FetchInv /\ (Allocate \/ AllocateFails) => FetchInv'
<1> SUFFICES ASSUME FetchInv, Allocate \/ AllocateFails PROVE FetchInv'
  OBVIOUS
<1>1. /\ UNCHANGED <<file, stamp, fetchPos, held>> /\ fetchPc = "seek"
      /\ fetchPos = 0 /\ offset = 0 /\ stamp \in Nat /\ MaxSize \in Nat /\ INT_MAX \in Nat
      /\ page = <<>>
  BY FileAssumption DEF Allocate, AllocateFails, FetchInv, InStep, FetchTypeOK, others
<1>2. CASE Allocate
  <2>1. PICK size \in 0 .. INT_MAX : page' = [k \in 1 .. size |-> 0]
    BY <1>2 DEF Allocate
  <2>2. fetchPc' = "read" /\ offset' = 0
    BY <1>2 DEF Allocate, Rewound
  <2>3. size \in Nat /\ size <= INT_MAX
    BY <1>1
  <2>4. page' \in Seq(0 .. stamp) /\ Len(page') = size
    BY <1>1, <2>1, <2>3
  <2> QED
    BY <1>1, <2>2, <2>3, <2>4 DEF FetchInv, InStep, FileHeld, FilledHeld, FetchTypeOK
<1>3. CASE AllocateFails
  BY <1>1, <1>3 DEF AllocateFails, FetchInv, InStep, FileHeld, FilledHeld, FetchTypeOK
<1> QED
  BY <1>2, <1>3

LEMMA ReadInv == FetchInv /\ Read => FetchInv'
<1> SUFFICES ASSUME FetchInv, Read PROVE FetchInv'
  OBVIOUS
<1> USE FileAssumption
<1>1. PICK rv \in 1 .. Len(page) - fetchPos :
        /\ offset + rv <= Len(file)
        /\ page' = [k \in DOMAIN page |-> IF k \in fetchPos + 1 .. fetchPos + rv
                                           THEN file[offset + k - fetchPos] ELSE page[k]]
        /\ fetchPos' = fetchPos + rv /\ offset' = offset + rv
  BY DEF Read, Filled
<1>2. UNCHANGED <<file, stamp, fetchPc, held>> /\ fetchPc = "read"
  BY DEF Read, others
<1>3. /\ file \in Seq(1 .. stamp) /\ page \in Seq(0 .. stamp) /\ stamp \in Nat
      /\ fetchPos \in 0 .. Len(page) /\ offset = fetchPos
      /\ Len(page) \in Nat /\ Len(file) \in 0 .. MaxSize
      /\ rv \in Nat /\ fetchPos + rv <= Len(page)
  BY <1>1 DEF FetchInv, FetchTypeOK, InStep
<1>4. /\ DOMAIN page = 1 .. Len(page) /\ DOMAIN file = 1 .. Len(file)
      /\ \A k \in 1 .. Len(page) : page[k] \in 0 .. stamp
      /\ \A k \in 1 .. Len(file) : file[k] \in 0 .. stamp
  BY <1>3, LenProperties
<1>5. page' = [k \in 1 .. Len(page) |-> IF k \in fetchPos + 1 .. fetchPos + rv
                                        THEN file[k] ELSE page[k]]
  <2>1. \A k \in fetchPos + 1 .. fetchPos + rv : offset + k - fetchPos = k
    BY <1>3
  <2>2. \A k \in DOMAIN page :
          (IF k \in fetchPos + 1 .. fetchPos + rv THEN file[offset + k - fetchPos] ELSE page[k])
          = (IF k \in fetchPos + 1 .. fetchPos + rv THEN file[k] ELSE page[k])
    BY <2>1
  <2>3. page' = [k \in DOMAIN page |-> IF k \in fetchPos + 1 .. fetchPos + rv
                                       THEN file[k] ELSE page[k]]
    BY <1>1, <2>2
  <2> QED
    BY <2>3, <1>4
<1>6. page' \in [1 .. Len(page) -> 0 .. stamp]
  <2>1. ASSUME NEW k \in 1 .. Len(page), k \in fetchPos + 1 .. fetchPos + rv
        PROVE  file[k] \in 0 .. stamp
    BY <2>1, <1>1, <1>3, <1>4
  <2> QED
    BY <2>1, <1>4, <1>5
<1>7. page' \in Seq(0 .. stamp) /\ Len(page') = Len(page)
  <2>1. Len(page) \in Nat
    BY <1>3
  <2> QED
    BY <2>1, <1>6, FunctionIsSeq, Zenon
<1>8. FetchTypeOK'
  BY <1>1, <1>2, <1>3, <1>7 DEF FetchInv, FetchTypeOK
<1>9. FilledHeld'
  <2> SUFFICES ASSUME NEW k \in 1 .. fetchPos + rv PROVE <<k, page'[k]>> \in held
    BY <1>1, <1>2 DEF FilledHeld
  <2>1. CASE k \in fetchPos + 1 .. fetchPos + rv
    <3>1. page'[k] = file[k] /\ k \in DOMAIN file
      BY <2>1, <1>1, <1>3, <1>4, <1>5
    <3> QED
      BY <3>1, <1>2 DEF FetchInv, FileHeld, Bytes
  <2>2. CASE k \in 1 .. fetchPos
    <3>1. page'[k] = page[k]
      BY <2>2, <1>3, <1>5
    <3> QED
      BY <2>2, <3>1 DEF FetchInv, FilledHeld
  <2> QED
    BY <2>1, <2>2, <1>3
<1> QED
  BY <1>1, <1>2, <1>3, <1>8, <1>9 DEF FetchInv, InStep, FileHeld

(* Nothing but fetchPc changes when a read gives nothing, and at the end.   *)
LEMMA EndInv == FetchInv /\ (ReadNothing \/ ReadFails \/ Return) => FetchInv'
<1> SUFFICES ASSUME FetchInv, ReadNothing \/ ReadFails \/ Return PROVE FetchInv'
  OBVIOUS
<1>1. /\ UNCHANGED <<file, stamp, page, fetchPos, offset, held>> /\ fetchPc = "read"
      /\ \/ fetchPc' = "aborted"
         \/ fetchPc' = "returned" /\ fetchPos >= Len(page)
  BY DEF ReadNothing, ReadFails, Return, AfterShortRead, others
<1>2. fetchPos <= Len(page) /\ fetchPos \in Int /\ Len(page) \in Int
  BY DEF FetchInv, FetchTypeOK
<1> QED
  BY <1>1, <1>2 DEF FetchInv, FetchTypeOK, InStep, FileHeld, FilledHeld

LEMMA NextFetchInv == FetchInv /\ [FetchNext]_fetchVars => FetchInv'
<1>1. FetchInv /\ UNCHANGED fetchVars => FetchInv'
  BY DEF FetchInv, FetchTypeOK, InStep, FileHeld, FilledHeld, fetchVars, others, fetch
<1> QED
  BY <1>1, TruncateInv, WriteInv, OpenInv, AllocateInv, ReadInv, EndInv
  DEF FetchNext, Others, Fetch

(* FetchInv holds of every reachable state, for files of every size, those  *)
(* included that an int cannot say.                                         *)
THEOREM FetchInvariance == FetchSpec => []FetchInv
  BY InitFetchInv, NextFetchInv, PTL DEF FetchSpec

(* Every variable of fetch keeps its type: no more bytes are filled than    *)
(* the page has.                                                            *)
THEOREM FetchTypeCorrect == FetchSpec => []FetchTypeOK
<1>1. FetchInv => FetchTypeOK
  BY DEF FetchInv
<1> QED
  BY <1>1, FetchInvariance, PTL

(* A page that fetch returns has no byte that was not in the file, at its   *)
(* place, after it was opened.                                              *)
THEOREM ReturnedPageWasThere == FetchSpec => []PageWasThere
<1>1. FetchInv => PageWasThere
  <2> SUFFICES ASSUME FetchInv, fetchPc = "returned" PROVE Bytes(page) \subseteq held
    BY DEF PageWasThere
  <2>1. DOMAIN page = 1 .. fetchPos
    BY LenProperties DEF FetchInv, InStep, FetchTypeOK
  <2> QED
    BY <2>1 DEF FetchInv, FilledHeld, Bytes
<1> QED
  BY <1>1, FetchInvariance, PTL

-----------------------------------------------------------------------------
(* my-cat.  What has been printed while a file is read is everything before *)
(* it and what shows of the bytes that have been read, and the next piece   *)
(* begins a line unless there is no '\0' for it to matter.                  *)
LineStarts(text, k) ==
  Cat!FitsBuf(text) =>
    k = 0 \/ text[k] = "newline" \/ k = Len(text) \/ \A j \in 1 .. Len(text) : text[j] # "nul"

(* The next len bytes of argument i, as a set and in order.                 *)
NextBytes(i, k, len) == {<<i, k + j>> : j \in 1 .. len}
InOrder(i, k, len) == [j \in 1 .. len |-> <<i, k + j>>]

(* Of the bytes up to e that follow byte k, those up to p show.             *)
ShowsUpTo(text, k, e, p) == \A j \in k + 1 .. e : ~Cat!Hidden(text, j) <=> j <= p

SoFar ==
  IF catPc = "read" THEN Cat!ShownUpTo(catArgv, loop - 1) \cup Cat!Shown(catArgv, loop, catPos)
                    ELSE Cat!ShownUpTo(catArgv, loop - 1)

AllFit == \A i \in DOMAIN catArgv : Cat!FitsBuf(catArgv[i])

CatInv ==
  /\ catArgv \in Arguments /\ catPc \in {"loop", "usage", "wild", "read", "failed", "done"}
  /\ loop \in Int /\ catPos \in Nat /\ out \in Seq(Nat \X Nat)
  /\ catPc \in {"read", "failed"} => loop \in 1 .. Len(catArgv)
  /\ \/ loop \in 1 .. Len(catArgv) + 1
     \/ loop < 1 /\ Len(catArgv) >= CHAR_MAX /\ catPc \in {"loop", "wild"}
  /\ catPc = "wild" => Len(catArgv) >= CHAR_MAX
  /\ catPc = "loop" => catPos = 0
  /\ catPc = "done" => loop = Len(catArgv) + 1
  /\ catPc = "read" => catPos <= Len(catArgv[loop]) /\ LineStarts(catArgv[loop], catPos)
  /\ ~ioError /\ AllFit /\ loop >= 1 => Cat!Prints(out, SoFar)

LEMMA ArgumentFacts ==
  ASSUME catArgv \in Arguments
  PROVE  /\ Len(catArgv) \in Nat /\ DOMAIN catArgv = 1 .. Len(catArgv)
         /\ \A i \in 1 .. Len(catArgv) :
              /\ catArgv[i] \in Seq(TextBytes) /\ Len(catArgv[i]) \in Nat
              /\ DOMAIN catArgv[i] = 1 .. Len(catArgv[i])
<1>1. catArgv \in Seq(Seq(TextBytes))
  BY CatAssumption
<1>2. Len(catArgv) \in Nat /\ DOMAIN catArgv = 1 .. Len(catArgv)
  BY <1>1
<1>3. \A i \in 1 .. Len(catArgv) : catArgv[i] \in Seq(TextBytes)
  BY <1>1, ElementOfSeq
<1>4. QED
  BY <1>2, <1>3

(* Of a piece the bytes that show are those "%s" prints.                    *)
LEMMA PieceShows ==
  ASSUME NEW text \in Seq(TextBytes), catPos \in Nat, NEW e \in catPos + 1 .. Len(text),
         NEW p \in catPos .. Len(text), p <= e, Cat!PieceEnd(text, e), Cat!Printed(text, e, p),
         LineStarts(text, catPos), Cat!FitsBuf(text), NEW k \in catPos + 1 .. e
  PROVE  ~Cat!Hidden(text, k) <=> k <= p
<1>1. /\ Len(text) \in Nat /\ k \in Nat /\ e \in Nat /\ p \in Nat /\ k >= 1 /\ catPos < k /\ k <= e
      /\ catPos <= p /\ e <= Len(text) /\ DOMAIN text = 1 .. Len(text)
      /\ catPos \in Nat /\ catPos < e
  OBVIOUS
<1>2. /\ \A j \in catPos + 1 .. p : text[j] # "nul"
      /\ p < e => text[p + 1] = "nul"
  BY DEF Cat!Printed
<1>3. \A j \in catPos + 1 .. e - 1 : text[j] # "newline"
  BY DEF Cat!PieceEnd, Cat!EndsAt
<1>4. ASSUME k <= p, NEW n \in 1 .. k, text[n] = "nul", \A m \in n .. k - 1 : text[m] # "newline"
      PROVE  FALSE
  <2>1. n \in Nat /\ n >= 1 /\ n <= k
    BY <1>1
  <2>2. n <= catPos
    BY <1>1, <1>2, <1>4, <2>1
  <2>3. catPos >= 1 /\ catPos < Len(text)
    BY <1>1, <2>1, <2>2
  <2>4. n \in 1 .. Len(text)
    <3>1. \A l \in Nat : catPos < l => n \in 1 .. l
      BY <2>1, <2>2
    <3>2. QED
      BY <1>1, <2>3, <3>1
  <2>5. catPos # 0 /\ catPos # Len(text)
    <3>1. \A a, b \in Nat : a >= 1 /\ a < b => a # 0 /\ a # b
      OBVIOUS
    <3>2. QED
      BY <1>1, <2>3, <3>1, Zenon
  <2>6. text[catPos] = "newline"
    BY <1>4, <2>4, <2>5 DEF LineStarts
  <2>7. catPos \in n .. k - 1
    BY <1>1, <2>1, <2>2
  <2>8. QED
    BY <1>4, <2>6, <2>7
<1>5. ASSUME k > p PROVE Cat!Hidden(text, k)
  <2>1. p + 1 \in 1 .. k /\ p < e
    BY <1>1, <1>5
  <2>2. text[p + 1] = "nul"
    BY <1>2, <2>1
  <2>3. \A m \in p + 1 .. k - 1 : text[m] # "newline"
    BY <1>1, <1>3
  <2>4. QED
    BY <2>1, <2>2, <2>3 DEF Cat!Hidden
<1>6. QED
  BY <1>1, <1>4, <1>5 DEF Cat!Hidden

(* The piece after it begins a line, too. *)
LEMMA NextLineStarts ==
  ASSUME NEW text \in Seq(TextBytes), catPos \in Nat, NEW e \in catPos + 1 .. Len(text),
         Cat!PieceEnd(text, e)
  PROVE  LineStarts(text, e)
<1>1. Len(text) \in Nat /\ e \in Nat /\ e <= Len(text) /\ catPos < e /\ MAX_LINE_SIZE \in Nat
      /\ DOMAIN text = 1 .. Len(text)
  BY CatAssumption
<1>2. text[e] = "newline" \/ e = Len(text) \/ e = catPos + MAX_LINE_SIZE - 1
  BY DEF Cat!PieceEnd, Cat!EndsAt
<1>3. e = catPos + MAX_LINE_SIZE - 1 /\ Len(text) < MAX_LINE_SIZE => e = Len(text)
  BY <1>1
<1>4. QED
  BY <1>1, <1>2, <1>3 DEF LineStarts, Cat!FitsBuf

LEMMA OneFileMore ==
  ASSUME NEW a, NEW i \in Int, i >= 1
  PROVE  Cat!ShownUpTo(a, i) = Cat!ShownUpTo(a, i - 1) \cup Cat!Shown(a, i, Len(a[i]))
<1>1. 1 .. i = (1 .. i - 1) \cup {i}
  OBVIOUS
<1>2. QED
  BY <1>1 DEF Cat!ShownUpTo

(* Printing bytes that come after all of S, in order.                       *)
LEMMA PrintsOn ==
  ASSUME NEW s \in Seq(Nat \X Nat), NEW S, Cat!Prints(s, S), NEW i \in Nat, NEW k \in Nat,
         \A b \in S : b[1] < i \/ (b[1] = i /\ b[2] <= k), NEW len \in Nat
  PROVE  Cat!Prints(s \o InOrder(i, k, len), S \cup NextBytes(i, k, len))
<1> DEFINE t == InOrder(i, k, len)
<1> DEFINE u == s \o t
<1>1. t \in Seq(Nat \X Nat) /\ Len(t) = len /\ \A j \in 1 .. len : t[j] = <<i, k + j>>
  <2>1. \A j \in 1 .. len : <<i, k + j>> \in Nat \X Nat
    OBVIOUS
  <2>2. t \in [1 .. len -> Nat \X Nat]
    BY <2>1 DEF InOrder
  <2>3. QED
    BY <2>2 DEF InOrder
<1> HIDE DEF t
<1> DEFINE L == Len(s)
<1>2. L \in Nat /\ DOMAIN s = 1 .. L /\ \A j \in 1 .. L : s[j] \in S
  <2>1. DOMAIN s = 1 .. L /\ L \in Nat
    OBVIOUS
  <2>2. QED
    BY <2>1 DEF Cat!Prints
<1>3. /\ u \in Seq(Nat \X Nat) /\ Len(u) = L + len
      /\ \A j \in 1 .. L + len : u[j] = IF j <= L THEN s[j] ELSE t[j - L]
  BY <1>1, ConcatProperties
<1>4. DOMAIN u = 1 .. L + len
  BY <1>3
<1> HIDE DEF u, L
<1>5. ASSUME NEW x \in 1 .. L + len, NEW y \in 1 .. L + len, x < y
      PROVE  Cat!Comes(u[x], u[y])
  <2>1. /\ L \in Nat /\ len \in Nat /\ x \in Nat /\ y \in Nat
        /\ 1 <= x /\ x <= L + len /\ 1 <= y /\ y <= L + len
    BY <1>2
  <2>2. CASE y <= L
    <3>1. x \in 1 .. L /\ y \in 1 .. L /\ u[x] = s[x] /\ u[y] = s[y]
      BY <1>2, <1>3, <1>5, <2>2
    <3>2. QED
      BY <1>2, <1>5, <3>1 DEF Cat!Prints
  <2>3. CASE x <= L /\ y > L
    <3>1. x \in 1 .. L /\ y - L \in 1 .. len /\ ~(y <= L)
      BY <1>2, <2>1, <2>3
    <3>2. u[x] = s[x] /\ u[y] = t[y - L]
      BY <1>3, <2>3, <3>1
    <3>3. u[y] = <<i, k + (y - L)>> /\ u[x] \in S
      BY <1>1, <1>2, <3>1, <3>2
    <3>4. u[x] \in Nat \X Nat
      BY <1>2, <3>1, <3>2, ElementOfSeq DEF L
    <3>5. u[x][1] < i \/ (u[x][1] = i /\ u[x][2] <= k)
      BY <3>3
    <3>6. u[y][1] = i /\ u[y][2] = k + (y - L)
      BY <3>3
    <3>7. u[x][1] \in Nat /\ u[x][2] \in Nat
      BY <3>4
    <3>8. y - L \in Nat /\ y - L >= 1
      BY <2>1, <3>1
    <3>9. u[x][1] < u[y][1] \/ (u[x][1] = u[y][1] /\ u[x][2] < u[y][2])
      BY <3>5, <3>6, <3>7, <3>8
    <3>10. QED
      BY <3>9 DEF Cat!Comes
  <2>4. CASE x > L
    <3>1. /\ x - L \in 1 .. len /\ y - L \in 1 .. len /\ u[x] = t[x - L] /\ u[y] = t[y - L]
      BY <1>2, <1>3, <1>5, <2>4
    <3>2. u[x] = <<i, k + (x - L)>> /\ u[y] = <<i, k + (y - L)>>
      BY <1>1, <3>1
    <3>3. QED
      BY <1>2, <1>5, <3>2 DEF Cat!Comes
  <2>5. QED
    BY <1>2, <1>5, <2>2, <2>3, <2>4
<1>6. {u[x] : x \in 1 .. L + len} = S \cup {<<i, k + j>> : j \in 1 .. len}
  <2>1. ASSUME NEW x \in 1 .. L + len PROVE u[x] \in S \cup {<<i, k + j>> : j \in 1 .. len}
    <3>1. CASE x <= L
      <4>1. x \in 1 .. L
        BY <1>2, <3>1
      <4>2. u[x] = s[x]
        BY <1>3, <3>1
      <4>3. QED
        BY <1>2, <4>1, <4>2
    <3>2. CASE x > L
      <4>1. x - L \in 1 .. len /\ u[x] = t[x - L]
        BY <1>2, <1>3, <3>2
      <4>2. QED
        BY <1>1, <4>1
    <3>3. QED
      BY <1>2, <3>1, <3>2
  <2>2. ASSUME NEW b \in S PROVE \E x \in 1 .. L + len : u[x] = b
    <3>1. PICK x \in 1 .. L : s[x] = b
      BY <1>2 DEF Cat!Prints
    <3>2. x \in 1 .. L + len /\ u[x] = s[x]
      BY <1>2, <1>3
    <3>3. QED
      BY <3>1, <3>2
  <2>3. ASSUME NEW j \in 1 .. len PROVE \E x \in 1 .. L + len : u[x] = <<i, k + j>>
    <3>1. L + j \in 1 .. L + len /\ ~(L + j <= L) /\ (L + j) - L = j
      BY <1>2
    <3>2. u[L + j] = t[j]
      BY <1>3, <3>1
    <3>3. QED
      BY <1>1, <3>1, <3>2
  <2>4. {u[x] : x \in 1 .. L + len} \subseteq S \cup {<<i, k + j>> : j \in 1 .. len}
    BY <2>1
  <2>5. S \cup {<<i, k + j>> : j \in 1 .. len} \subseteq {u[x] : x \in 1 .. L + len}
    BY <2>2, <2>3
  <2>6. QED
    BY <2>4, <2>5
<1>7. QED
  BY <1>3, <1>4, <1>5, <1>6 DEF Cat!Prints, NextBytes, u, t

(* The bytes of the piece are all that shows more, and they come last.      *)
LEMMA MoreShows ==
  ASSUME NEW a, NEW i \in Nat, NEW k \in Nat, NEW e \in Nat, NEW p \in Nat,
         k <= p, p <= e, ShowsUpTo(a[i], k, e, p)
  PROVE  Cat!Shown(a, i, e) = Cat!Shown(a, i, k) \cup NextBytes(i, k, p - k)
<1>1. ASSUME NEW n \in 1 .. e, ~Cat!Hidden(a[i], n)
      PROVE  <<i, n>> \in Cat!Shown(a, i, k) \cup {<<i, k + j>> : j \in 1 .. p - k}
  <2>1. CASE n <= k
    <3>1. n \in 1 .. k
      BY <2>1
    <3>2. QED
      BY <1>1, <3>1 DEF Cat!Shown
  <2>2. CASE n > k
    <3>1. n \in k + 1 .. e
      BY <2>2
    <3>2. n <= p
      BY <1>1, <3>1 DEF ShowsUpTo
    <3>3. n - k \in 1 .. p - k /\ k + (n - k) = n
      BY <2>2, <3>2
    <3>4. QED
      BY <3>3
  <2>3. QED
    BY <2>1, <2>2
<1>2. ASSUME NEW n \in 1 .. k, ~Cat!Hidden(a[i], n) PROVE <<i, n>> \in Cat!Shown(a, i, e)
  <2>1. n \in 1 .. e
    OBVIOUS
  <2>2. QED
    BY <1>2, <2>1 DEF Cat!Shown
<1>3. ASSUME NEW j \in 1 .. p - k PROVE <<i, k + j>> \in Cat!Shown(a, i, e)
  <2>1. k + j \in k + 1 .. e /\ k + j \in 1 .. e /\ k + j <= p
    OBVIOUS
  <2>2. ~Cat!Hidden(a[i], k + j)
    BY <2>1 DEF ShowsUpTo
  <2>3. QED
    BY <2>1, <2>2 DEF Cat!Shown
<1>4. Cat!Shown(a, i, e) \subseteq Cat!Shown(a, i, k) \cup {<<i, k + j>> : j \in 1 .. p - k}
  BY <1>1 DEF Cat!Shown
<1>5. Cat!Shown(a, i, k) \subseteq Cat!Shown(a, i, e)
  BY <1>2 DEF Cat!Shown
<1>6. {<<i, k + j>> : j \in 1 .. p - k} \subseteq Cat!Shown(a, i, e)
  BY <1>3
<1>7. QED
  BY <1>4, <1>5, <1>6 DEF NextBytes

LEMMA ComeBefore ==
  ASSUME NEW a, NEW i \in Nat, NEW k \in Nat,
         NEW b \in Cat!ShownUpTo(a, i - 1) \cup Cat!Shown(a, i, k)
  PROVE  b[1] < i \/ (b[1] = i /\ b[2] <= k)
<1>1. CASE b \in Cat!Shown(a, i, k)
  <2>1. PICK n \in 1 .. k : b = <<i, n>>
    BY <1>1 DEF Cat!Shown
  <2>2. QED
    BY <2>1
<1>2. CASE b \in Cat!ShownUpTo(a, i - 1)
  <2>1. PICK j \in 1 .. i - 1 : b \in Cat!Shown(a, j, Len(a[j]))
    BY <1>2 DEF Cat!ShownUpTo
  <2>2. b[1] = j
    BY <2>1 DEF Cat!Shown
  <2>3. QED
    BY <2>2
<1>3. QED
  BY <1>1, <1>2

LEMMA PieceIsTyped ==
  ASSUME NEW s \in Seq(Nat \X Nat), NEW i \in Nat, NEW k \in Nat, NEW len \in Nat
  PROVE  s \o InOrder(i, k, len) \in Seq(Nat \X Nat)
<1>1. \A j \in 1 .. len : <<i, k + j>> \in Nat \X Nat
  OBVIOUS
<1>2. InOrder(i, k, len) \in Seq(Nat \X Nat)
  BY <1>1 DEF InOrder
<1>3. QED
  BY <1>2, ConcatProperties

LEMMA InitCatInv == Cat!Init => CatInv
<1> SUFFICES ASSUME Cat!Init PROVE CatInv
  OBVIOUS
<1>1. /\ catArgv \in Arguments /\ loop = 1 /\ catPc = "loop" /\ catPos = 0
      /\ out = <<>> /\ ioError = FALSE
  BY DEF Cat!Init
<1>2. Len(catArgv) \in Nat
  BY <1>1, ArgumentFacts
<1>3. out \in Seq(Nat \X Nat)
  BY <1>1
<1>4. SoFar = {}
  <2>1. 1 .. loop - 1 = {}
    BY <1>1
  <2>2. QED
    BY <1>1, <2>1 DEF SoFar, Cat!ShownUpTo
<1>5. Cat!Prints(out, {})
  <2>1. DOMAIN out = {}
    BY <1>1
  <2>2. QED
    BY <2>1 DEF Cat!Prints
<1>6. QED
  BY <1>1, <1>2, <1>3, <1>4, <1>5 DEF CatInv

(* A file may be opened, and argv may have come to its end.                 *)
LEMMA LoopInv == CatInv /\ (Cat!Usage \/ Cat!Fopen \/ Cat!Return) => CatInv'
<1> SUFFICES ASSUME CatInv, Cat!Usage \/ Cat!Fopen \/ Cat!Return PROVE CatInv'
  OBVIOUS
<1>1. /\ UNCHANGED <<catArgv, loop, catPos, out, ioError>> /\ catPc = "loop"
      /\ \/ catPc' = "usage" /\ Len(catArgv) = 0
         \/ catPc' = "wild" /\ loop < 1
         \/ catPc' \in {"read", "failed"} /\ ~(loop < 1) /\ loop <= Len(catArgv)
         \/ catPc' = "done" /\ ~(loop <= Len(catArgv))
  BY DEF Cat!Usage, Cat!Fopen, Cat!Return, Cat!Remains
<1>2. /\ Len(catArgv) \in Nat /\ loop \in Int /\ catPos = 0
      /\ \/ loop \in 1 .. Len(catArgv) + 1
         \/ loop < 1 /\ Len(catArgv) >= CHAR_MAX
      /\ CHAR_MAX \in Nat \ {0}
  BY <1>1, ArgumentFacts, CatAssumption DEF CatInv
<1>3. SoFar' = SoFar
  <2>1. catPc' = "read" => Cat!Shown(catArgv, loop, catPos) = {}
    <3>1. 1 .. catPos = {}
      BY <1>2
    <3>2. QED
      BY <3>1 DEF Cat!Shown
  <2>2. SoFar = Cat!ShownUpTo(catArgv, loop - 1)
    BY <1>1 DEF SoFar
  <2>3. QED
    BY <1>1, <2>1, <2>2 DEF SoFar
<1>4. (~ioError /\ AllFit /\ loop >= 1 => Cat!Prints(out, SoFar))'
  BY <1>1, <1>3 DEF CatInv, AllFit, Cat!Prints
<1>5. catPc' = "read" => catPos' <= Len(catArgv'[loop']) /\ LineStarts(catArgv'[loop'], catPos')
  <2>1. catPc' = "read" => loop \in 1 .. Len(catArgv)
    BY <1>1, <1>2
  <2>2. catPc' = "read" => Len(catArgv[loop]) \in Nat
    BY <2>1, ArgumentFacts DEF CatInv
  <2>3. QED
    BY <1>1, <1>2, <2>2 DEF LineStarts
<1>6. /\ (catPc \in {"read", "failed"} => loop \in 1 .. Len(catArgv))'
      /\ (\/ loop \in 1 .. Len(catArgv) + 1
          \/ loop < 1 /\ Len(catArgv) >= CHAR_MAX /\ catPc \in {"loop", "wild"})'
      /\ (catPc = "wild" => Len(catArgv) >= CHAR_MAX)'
      /\ (catPc = "done" => loop = Len(catArgv) + 1)'
  BY <1>1, <1>2
<1>7. /\ (catArgv \in Arguments /\ catPc \in {"loop", "usage", "wild", "read", "failed", "done"})'
      /\ (loop \in Int /\ catPos \in Nat /\ out \in Seq(Nat \X Nat))'
      /\ (catPc = "loop" => catPos = 0)'
  BY <1>1, <1>2 DEF CatInv
<1>8. QED
  BY <1>4, <1>5, <1>6, <1>7 DEF CatInv

LEMMA FgetsInv == CatInv /\ Cat!Fgets => CatInv'
<1> SUFFICES ASSUME CatInv, Cat!Fgets PROVE CatInv'
  OBVIOUS
<1> DEFINE text == catArgv[loop]
<1>1. /\ UNCHANGED <<catArgv, loop, catPc, ioError>> /\ catPc = "read" /\ loop \in 1 .. Len(catArgv)
      /\ catArgv \in Arguments /\ catPos \in Nat /\ out \in Seq(Nat \X Nat)
      /\ LineStarts(text, catPos)
  BY DEF Cat!Fgets, CatInv
<1>2. PICK e \in catPos + 1 .. Len(text), p \in catPos .. Len(text) :
        /\ p <= e /\ Cat!PieceEnd(text, e) /\ Cat!Printed(text, e, p)
        /\ catPos' = e
        /\ out' = out \o InOrder(loop, catPos, p - catPos)
  BY DEF Cat!Fgets, InOrder
<1>3. text \in Seq(TextBytes) /\ Len(text) \in Nat /\ Len(catArgv) \in Nat
  BY <1>1, ArgumentFacts
<1>4. /\ loop \in Nat /\ loop >= 1 /\ e \in Nat /\ p \in Nat /\ e <= Len(text)
      /\ catPos <= p /\ p - catPos \in Nat
  BY <1>1, <1>2, <1>3
<1>5. out' \in Seq(Nat \X Nat)
  BY <1>1, <1>2, <1>4, PieceIsTyped
<1>6. LineStarts(text, e)
  BY <1>1, <1>2, <1>3, NextLineStarts
<1>7. ASSUME ~ioError, AllFit PROVE Cat!Prints(out', SoFar')
  <2>1. Cat!Prints(out, SoFar)
    BY <1>4, <1>7 DEF CatInv
  <2>2. Cat!FitsBuf(text)
    <3>1. loop \in DOMAIN catArgv
      BY <1>1, ArgumentFacts
    <3>2. QED
      BY <1>7, <3>1 DEF AllFit
  <2>3. \A j \in catPos + 1 .. e : ~Cat!Hidden(text, j) <=> j <= p
    BY <1>1, <1>2, <1>3, <2>2, PieceShows
  <2>4. Cat!Shown(catArgv, loop, e)
          = Cat!Shown(catArgv, loop, catPos) \cup NextBytes(loop, catPos, p - catPos)
    <3>1. catPos \in Nat /\ loop \in Nat /\ e \in Nat /\ p \in Nat /\ catPos <= p /\ p <= e
      BY <1>1, <1>2, <1>4
    <3> HIDE DEF text
    <3>2. ShowsUpTo(catArgv[loop], catPos, e, p)
      BY <2>3 DEF text, ShowsUpTo
    <3>3. QED
      BY <3>1, <3>2, MoreShows, SMT
  <2>5. SoFar' = SoFar \cup NextBytes(loop, catPos, p - catPos)
    BY <1>1, <1>2, <2>4 DEF SoFar
  <2>6. \A b \in SoFar : b[1] < loop \/ (b[1] = loop /\ b[2] <= catPos)
    BY <1>1, <1>4, ComeBefore DEF SoFar
  <2>7. Cat!Prints(out \o InOrder(loop, catPos, p - catPos),
                   SoFar \cup NextBytes(loop, catPos, p - catPos))
    <3> HIDE DEF text
    <3>1. out \in Seq(Nat \X Nat) /\ loop \in Nat /\ catPos \in Nat /\ p - catPos \in Nat
      BY <1>1, <1>4
    <3>2. QED
      BY <3>1, <2>1, <2>6, PrintsOn
  <2>8. QED
    BY <1>2, <2>5, <2>7
<1>8. (~ioError /\ AllFit /\ loop >= 1 => Cat!Prints(out, SoFar))'
  <2>1. AllFit' = AllFit
    BY <1>1 DEF AllFit
  <2>2. (~ioError)' => ~ioError
    BY <1>1
  <2>3. ~ioError /\ AllFit => Cat!Prints(out', SoFar')
    BY <1>7
  <2>4. Cat!Prints(out, SoFar)' <=> Cat!Prints(out', SoFar')
    BY DEF Cat!Prints
  <2>5. QED
    BY <2>1, <2>2, <2>3, <2>4
<1>9. QED
  BY <1>1, <1>2, <1>3, <1>4, <1>5, <1>6, <1>8 DEF CatInv

LEMMA NextFileInv == CatInv /\ (Cat!FgetsEof \/ Cat!FgetsFails) => CatInv'
<1> SUFFICES ASSUME CatInv, Cat!FgetsEof \/ Cat!FgetsFails PROVE CatInv'
  OBVIOUS
<1>1. /\ UNCHANGED <<catArgv, out>> /\ catPc = "read" /\ loop \in 1 .. Len(catArgv)
      /\ catPc' = "loop" /\ loop' = Cat!Incr(loop) /\ catPos' = 0
      /\ ioError' \/ (ioError' = ioError /\ catPos = Len(catArgv[loop]))
      /\ catArgv \in Arguments /\ out \in Seq(Nat \X Nat)
  BY DEF Cat!FgetsEof, Cat!FgetsFails, Cat!NextFile, CatInv
<1>2. Len(catArgv) \in Nat /\ loop \in Nat /\ loop >= 1 /\ loop <= Len(catArgv) /\ CHAR_MAX \in Nat
  BY <1>1, ArgumentFacts, CatAssumption
<1>3. \/ loop' = loop + 1
      \/ loop' = -CHAR_MAX - 1 /\ loop = CHAR_MAX
  BY <1>1 DEF Cat!Incr
<1>4. /\ loop' \in Int
      /\ \/ loop' \in 1 .. Len(catArgv) + 1
         \/ loop' < 1 /\ Len(catArgv) >= CHAR_MAX
      /\ loop' >= 1 => loop' = loop + 1
  <2>1. CASE loop' = loop + 1
    <3>1. loop' \in Int /\ 1 <= loop' /\ loop' <= Len(catArgv) + 1
      BY <1>2, <2>1
    <3>2. loop' \in 1 .. Len(catArgv) + 1
      BY <1>2, <3>1
    <3>3. QED
      BY <1>2, <2>1, <3>1, <3>2
  <2>2. CASE loop' = -CHAR_MAX - 1 /\ loop = CHAR_MAX
    <3>1. loop' \in Int /\ loop' < 1 /\ Len(catArgv) >= CHAR_MAX
      BY <1>2, <2>2
    <3>2. QED
      BY <3>1
  <2>3. QED
    BY <1>3, <2>1, <2>2
<1>5. ASSUME ~ioError', AllFit, loop' >= 1 PROVE Cat!Prints(out', SoFar')
  <2>1. ioError' = ioError /\ catPos = Len(catArgv[loop]) /\ loop' - 1 = loop
    BY <1>1, <1>2, <1>4, <1>5
  <2>2. Cat!Prints(out, SoFar)
    BY <1>2, <1>5, <2>1 DEF CatInv
  <2>3. SoFar = Cat!ShownUpTo(catArgv, loop)
    BY <1>1, <1>2, <2>1, OneFileMore DEF SoFar
  <2>4. SoFar' = SoFar
    BY <1>1, <2>1, <2>3 DEF SoFar
  <2>5. QED
    BY <1>1, <2>2, <2>4
<1>6. (~ioError /\ AllFit /\ loop >= 1 => Cat!Prints(out, SoFar))'
  <2>1. AllFit' = AllFit
    BY <1>1 DEF AllFit
  <2>2. Cat!Prints(out, SoFar)' <=> Cat!Prints(out', SoFar')
    BY DEF Cat!Prints
  <2>3. QED
    BY <1>5, <2>1, <2>2
<1>7. QED
  BY <1>1, <1>4, <1>6 DEF CatInv

LEMMA NextCatInv == CatInv /\ [Cat!Next]_(Cat!vars) => CatInv'
<1>1. CatInv /\ UNCHANGED Cat!vars => CatInv'
  BY DEF CatInv, Cat!vars, SoFar, AllFit, Cat!Prints
<1>2. QED
  BY <1>1, LoopInv, FgetsInv, NextFileInv DEF Cat!Next

(* CatInv holds of every reachable state, for every list of files, size of  *)
(* the buffer and range of a char.                                          *)
THEOREM CatInvariance == Cat!Spec => []CatInv
  BY InitCatInv, NextCatInv, PTL DEF Cat!Spec

(* my-cat prints its files: all of them when it ends, those before the one  *)
(* that cannot be opened when it gives up; and its index leaves argv only   *)
(* when there are more arguments than a char counts.                        *)
THEOREM FilesAreCopied == Cat!Spec => []CopiesFiles
<1>1. CatInv => CopiesFiles
  <2> SUFFICES ASSUME CatInv PROVE CopiesFiles
    OBVIOUS
  <2>1. Len(catArgv) \in Nat /\ CHAR_MAX \in Nat
    BY ArgumentFacts, CatAssumption DEF CatInv
  <2>2. catPc = "done" => loop - 1 = Len(catArgv) /\ loop >= 1
    BY <2>1 DEF CatInv
  <2>3. catPc = "failed" => loop >= 1
    BY <2>1 DEF CatInv
  <2>4. catPc \in {"done", "failed"} => SoFar = Cat!ShownUpTo(catArgv, loop - 1)
    BY DEF SoFar
  <2>5. QED
    BY <2>2, <2>3, <2>4 DEF CatInv, AllFit, CopiesFiles, Cat!CopiesFiles
<1>2. QED
  BY <1>1, CatInvariance, PTL
=============================================================================
