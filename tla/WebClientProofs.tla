--------------------------- MODULE WebClientProofs ---------------------------
(***************************************************************************)
(* Rio hands the stream on in order and inside its buffers, and the web    *)
(* client's page never overflows, for every size of the buffers, every     *)
(* reply and every way it is cut up; and Rio gives the client the lines    *)
(* LineReader promises.                                                    *)
(*                                                                         *)
(* StreamInOrder says what is in the line and in rio_buf.  Besides it, a   *)
(* line under way has no '\n' in it and leaves room for a byte and the     *)
(* '\0', and what a call returns is never less than what it has read.      *)
(* PageIsBody needs, besides, where the loops over the headers and over    *)
(* the body have come to in the reply.                                     *)
(***************************************************************************)
EXTENDS WebClient, SequenceTheorems, WellFoundedInduction, TLAPS

Unfinished ==
  /\ call = "reading" => /\ Len(line) <= MAXBUF - 2
                         /\ \A k \in DOMAIN line : reply[line[k]] # "lf"
  /\ call = "none" => line = <<>>

Counted ==
  /\ call = "returned" => n >= Len(line)
  /\ ended => arrived = Len(reply)
  /\ rio_cnt <= taken

RioInv == RioTypeOK /\ InLine /\ InBuffer /\ Unfinished /\ Counted

-----------------------------------------------------------------------------
(* What the type invariant says of the sequences and of the numbers. *)
LEMMA SequenceFacts ==
  ASSUME RioTypeOK
  PROVE  /\ reply \in Seq(Chars) /\ Len(reply) \in Nat
         /\ line \in Seq(1 .. Len(reply)) /\ Len(line) \in Nat /\ DOMAIN line = 1 .. Len(line)
         /\ DOMAIN rio_buf = 1 .. RIO_BUFSIZE
         /\ rio_buf \in [1 .. RIO_BUFSIZE -> 0 .. Len(reply)]
<1>1. reply \in Seq(Chars) /\ line \in Seq(1 .. Len(reply))
  BY RioAssumption DEF RioTypeOK
<1>2. Len(reply) \in Nat /\ Len(line) \in Nat /\ DOMAIN line = 1 .. Len(line)
  BY <1>1
<1>3. rio_buf \in [1 .. RIO_BUFSIZE -> 0 .. Len(reply)]
  BY DEF RioTypeOK
<1>4. QED
  BY <1>1, <1>2, <1>3

(* The ranges of the counters of rio_t and of the constants.                *)
LEMMA Numbers ==
  ASSUME RioTypeOK
  PROVE  /\ MAXBUF \in Nat /\ MAXBUF >= 2 /\ RIO_BUFSIZE \in Nat /\ RIO_BUFSIZE >= 1
         /\ arrived \in Nat /\ arrived <= Len(reply) /\ taken \in Nat /\ taken <= arrived
         /\ rio_cnt \in Int /\ rio_cnt >= -1 /\ rio_cnt <= RIO_BUFSIZE
         /\ rio_bufptr \in Nat /\ rio_bufptr >= 1 /\ rio_bufptr <= RIO_BUFSIZE + 1
         /\ Len(line) < MAXBUF /\ n \in Int /\ n >= -1 /\ n <= MAXBUF
<1>1. /\ MAXBUF \in Nat /\ MAXBUF >= 2 /\ RIO_BUFSIZE \in Nat /\ RIO_BUFSIZE >= 1
  BY RioAssumption
<1>2. /\ arrived \in 0 .. Len(reply) /\ taken \in 0 .. arrived
      /\ rio_cnt \in -1 .. RIO_BUFSIZE /\ rio_bufptr \in 1 .. RIO_BUFSIZE + 1
      /\ Len(line) < MAXBUF /\ n \in -1 .. MAXBUF
  BY DEF RioTypeOK
<1>3. Len(reply) \in Nat
  BY SequenceFacts
<1>4. arrived \in Nat /\ arrived <= Len(reply) /\ taken \in Nat /\ taken <= arrived
  BY <1>2, <1>3
<1>5. QED
  BY <1>1, <1>2, <1>4

(* Appending to a sequence. *)
LEMMA Appended ==
  ASSUME NEW S, NEW s \in Seq(S), NEW e \in S
  PROVE  /\ Append(s, e) \in Seq(S)
         /\ Len(Append(s, e)) = Len(s) + 1
         /\ \A k \in 1 .. Len(s) : Append(s, e)[k] = s[k]
         /\ Append(s, e)[Len(s) + 1] = e
BY AppendProperties

-----------------------------------------------------------------------------
(* Everything is empty at first. *)
LEMMA RioStart == RioInit => RioInv
<1> SUFFICES ASSUME RioInit
             PROVE  RioInv
  OBVIOUS
<1>1. /\ reply \in Replies /\ arrived = 0 /\ ended = FALSE /\ taken = 0 /\ rio_cnt = 0
      /\ rio_bufptr = 1 /\ call = "none" /\ line = <<>> /\ n = 0
      /\ rio_buf = [k \in 1 .. RIO_BUFSIZE |-> 0]
  BY DEF RioInit
<1>2. reply \in Seq(Chars)
  BY <1>1, RioAssumption
<1>3. Len(reply) \in Nat
  BY <1>2
<1>4. line \in Seq(1 .. Len(reply)) /\ Len(line) = 0 /\ DOMAIN line = {}
  BY <1>1, EmptySeq
<1>5. rio_buf \in [1 .. RIO_BUFSIZE -> 0 .. Len(reply)]
  BY <1>1, <1>3
<1>6. /\ MAXBUF \in Nat /\ MAXBUF >= 2 /\ RIO_BUFSIZE \in Nat /\ RIO_BUFSIZE >= 1
  BY RioAssumption
<1>7. /\ arrived \in 0 .. Len(reply) /\ taken \in 0 .. arrived /\ n \in -1 .. MAXBUF
      /\ rio_cnt \in -1 .. RIO_BUFSIZE /\ rio_bufptr \in 1 .. RIO_BUFSIZE + 1
  BY <1>1, <1>3, <1>6
<1>8. RioTypeOK
  <2>1. ended \in BOOLEAN /\ call \in {"none", "reading", "returned", "exited"}
    BY <1>1
  <2>2. Len(line) < MAXBUF
    BY <1>4, <1>6
  <2>3. QED
    BY <1>1, <1>4, <1>5, <1>7, <2>1, <2>2, Zenon DEF RioTypeOK
<1>9. InLine
  BY <1>4 DEF InLine
<1>10. InBuffer
  BY <1>1 DEF InBuffer
<1>11. Unfinished /\ Counted
  BY <1>1 DEF Unfinished, Counted
<1>12. QED
  BY <1>8, <1>9, <1>10, <1>11 DEF RioInv

(* Bytes that arrive are bytes of the reply, and the peer closes after the  *)
(* last.                                                                    *)
LEMMA PeerStep ==
  ASSUME RioInv, Deliver \/ PeerCloses
  PROVE  RioInv'
<1>1. RioTypeOK /\ InLine /\ InBuffer /\ Unfinished /\ Counted
  BY DEF RioInv
<1>2. UNCHANGED <<reply, taken, rio_buf, rio_bufptr, rio_cnt, call, line, n>>
  BY DEF Deliver, PeerCloses, rio
<1>3. /\ arrived' \in 0 .. Len(reply) /\ taken \in 0 .. arrived' /\ ended' \in BOOLEAN
      /\ ended' => arrived' = Len(reply)
  <2>1. CASE Deliver
    BY <1>1, <2>1, SequenceFacts, Numbers DEF Deliver, Counted, RioTypeOK
  <2>2. CASE PeerCloses
    BY <1>1, <2>2, SequenceFacts, Numbers DEF PeerCloses
  <2>3. QED
    BY <2>1, <2>2
<1>4. RioTypeOK'
  BY <1>1, <1>2, <1>3, Zenon DEF RioTypeOK
<1>5. Given' = Given
  BY <1>2 DEF Given
<1>6. InLine' /\ InBuffer'
  BY <1>1, <1>2, <1>5 DEF InLine, InBuffer
<1>7. Unfinished' /\ Counted'
  BY <1>1, <1>2, <1>3 DEF Unfinished, Counted
<1>8. QED
  BY <1>4, <1>6, <1>7 DEF RioInv

(* A read gives nothing to the caller yet. *)
LEMMA RefillGiven ==
  ASSUME RioInv, Refill
  PROVE  Given = taken /\ Given' = taken
<1>1. RioTypeOK
  BY DEF RioInv
<1>2. /\ rio_cnt <= 0 /\ rio_cnt' \in 1 .. RIO_BUFSIZE /\ taken' = taken + rio_cnt'
  BY DEF Refill, NeedsData
<1>3. rio_cnt' \in Nat /\ rio_cnt' >= 1
  BY <1>1, <1>2, Numbers
<1>4. QED
  BY <1>1, <1>2, <1>3, Numbers DEF Given

(* A read puts the next bytes of the stream in the empty buffer. *)
LEMMA RefillStep ==
  ASSUME RioInv, Refill
  PROVE  RioInv'
<1>1. RioTypeOK /\ InLine /\ Unfinished /\ Counted
  BY DEF RioInv
<1>2. UNCHANGED <<reply, arrived, ended, call, line, n>>
  BY DEF Refill, peer
<1>3. /\ rio_cnt <= 0 /\ rio_cnt' \in 1 .. RIO_BUFSIZE /\ taken' = taken + rio_cnt'
      /\ taken' <= arrived /\ rio_bufptr' = 1
      /\ rio_buf' = [k \in 1 .. RIO_BUFSIZE |-> IF k <= rio_cnt' THEN taken + k ELSE rio_buf[k]]
  BY DEF Refill, NeedsData, BufferStart
<1>4. /\ rio_cnt' \in Nat /\ rio_cnt' >= 1 /\ rio_cnt' <= RIO_BUFSIZE /\ taken' \in Nat
      /\ taken' \in 0 .. arrived /\ rio_cnt' <= taken'
  BY <1>1, <1>3, Numbers
<1>5. Given = taken /\ Given' = taken
  BY RefillGiven
<1>6. rio_buf' \in [1 .. RIO_BUFSIZE -> 0 .. Len(reply)]
  <2>1. \A k \in 1 .. RIO_BUFSIZE : rio_buf[k] \in 0 .. Len(reply)
    BY <1>1, SequenceFacts
  <2>2. \A k \in 1 .. RIO_BUFSIZE : k <= rio_cnt' => taken + k \in 0 .. Len(reply)
    <3>1. taken \in Nat /\ Len(reply) \in Nat /\ taken + rio_cnt' <= Len(reply)
      BY <1>1, <1>3, <1>4, SequenceFacts, Numbers
    <3>2. rio_cnt' \in Nat /\ RIO_BUFSIZE \in Nat
      BY <1>1, <1>4, Numbers
    <3>3. QED
      BY <3>1, <3>2
  <2>3. QED
    BY <1>3, <2>1, <2>2
<1>7. RioTypeOK'
  <2>1. rio_cnt' \in -1 .. RIO_BUFSIZE /\ rio_bufptr' \in 1 .. RIO_BUFSIZE + 1
    BY <1>1, <1>3, <1>4, Numbers
  <2>2. taken' \in 0 .. arrived' /\ rio_buf' \in [1 .. RIO_BUFSIZE -> 0 .. Len(reply')]
    BY <1>2, <1>4, <1>6
  <2>3. QED
    BY <1>1, <1>2, <2>1, <2>2, Zenon DEF RioTypeOK
<1>8. InLine'
  BY <1>1, <1>2, <1>5 DEF InLine
<1>9. InBuffer'
  <2> SUFFICES ASSUME NEW k \in 1 .. rio_cnt'
               PROVE  /\ rio_bufptr' + k - 1 \in DOMAIN rio_buf'
                      /\ rio_buf'[rio_bufptr' + k - 1] = Given' + k
    BY DEF InBuffer
  <2>1. k \in 1 .. RIO_BUFSIZE /\ k <= rio_cnt' /\ rio_bufptr' + k - 1 = k
    BY <1>3, <1>4, <1>1, Numbers
  <2>2. DOMAIN rio_buf' = 1 .. RIO_BUFSIZE /\ rio_buf'[k] = taken + k
    BY <1>3, <2>1
  <2>3. QED
    BY <1>5, <2>1, <2>2
<1>10. Unfinished' /\ Counted'
  BY <1>1, <1>2, <1>4 DEF Unfinished, Counted
<1>11. QED
  BY <1>7, <1>8, <1>9, <1>10 DEF RioInv

(* A read that is interrupted, fails or meets the end of the stream leaves  *)
(* the buffer empty and the line as it is.                                  *)
LEMMA NoDataStep ==
  ASSUME RioInv, Interrupted \/ ReadFails \/ EndOfFile
  PROVE  RioInv'
<1>1. RioTypeOK /\ InLine /\ Unfinished /\ Counted
  BY DEF RioInv
<1>2. /\ UNCHANGED <<reply, arrived, ended, taken, rio_buf, rio_bufptr, line>>
      /\ call = "reading" /\ rio_cnt <= 0
  BY DEF Interrupted, ReadFails, EndOfFile, NeedsData, peer
<1>3. rio_cnt' \in {-1, 0}
  BY DEF Interrupted, ReadFails, EndOfFile
<1>4. Given' = Given
  BY <1>1, <1>2, <1>3, Numbers DEF Given
<1>5. rio_cnt' \in -1 .. RIO_BUFSIZE /\ rio_cnt' <= taken
  BY <1>1, <1>3, Numbers
<1>6. Len(line) \in Nat /\ Len(line) <= MAXBUF - 2 /\ (line = <<>> => Len(line) = 0)
  BY <1>1, <1>2, SequenceFacts, EmptySeq DEF Unfinished
<1>7. n' \in -1 .. MAXBUF /\ call' \in {"reading", "returned", "exited"}
  <2>1. CASE Interrupted
    BY <1>1, <1>2, <2>1, Numbers DEF Interrupted
  <2>2. CASE ReadFails
    BY <1>1, <2>2, Numbers DEF ReadFails
  <2>3. CASE EndOfFile
    BY <1>1, <1>6, <2>3, Numbers DEF EndOfFile, CountAtEof
  <2>4. QED
    BY <2>1, <2>2, <2>3
<1>8. /\ call' = "returned" => n' >= Len(line)
      /\ call' = "reading" => call = "reading"
  BY <1>2, <1>6 DEF Interrupted, ReadFails, EndOfFile, CountAtEof
<1>9. RioTypeOK'
  <2>1. call' \in {"none", "reading", "returned", "exited"}
    BY <1>7
  <2>2. QED
    BY <1>1, <1>2, <1>5, <1>7, <2>1, Zenon DEF RioTypeOK
<1>10. InLine'
  BY <1>1, <1>2, <1>4 DEF InLine
<1>11. InBuffer'
  BY <1>3 DEF InBuffer
<1>12. Unfinished'
  BY <1>1, <1>2, <1>7 DEF Unfinished
<1>13. Counted'
  BY <1>1, <1>2, <1>5, <1>8 DEF Counted
<1>14. QED
  BY <1>9, <1>10, <1>11, <1>12, <1>13 DEF RioInv

(* A turn of the loop moves the next byte of the stream from the buffer to  *)
(* the line, and goes on only with a line that has room for one more.       *)
LEMMA CopyCharStep ==
  ASSUME RioInv, CopyChar
  PROVE  RioInv'
<1> DEFINE c == rio_buf[rio_bufptr]
<1>1. RioTypeOK /\ InLine /\ InBuffer /\ Unfinished /\ Counted
  BY DEF RioInv
<1>2. /\ call = "reading" /\ rio_cnt > 0 /\ line' = Append(line, c)
      /\ rio_bufptr' = rio_bufptr + 1 /\ rio_cnt' = rio_cnt - 1
      /\ UNCHANGED <<reply, arrived, ended, taken, rio_buf>>
  BY DEF CopyChar, peer
<1>3. rio_cnt \in Nat /\ rio_cnt >= 1 /\ rio_cnt <= taken /\ rio_cnt' \in Nat
  BY <1>1, <1>2, Numbers DEF Counted
<1>4. Given = taken - rio_cnt /\ Given' = Given + 1 /\ Given \in Nat
  BY <1>1, <1>2, <1>3, Numbers DEF Given
<1>5. rio_bufptr \in 1 .. RIO_BUFSIZE /\ c = Given + 1
  <2>1. 1 \in 1 .. rio_cnt /\ rio_bufptr + 1 - 1 = rio_bufptr
    BY <1>1, <1>3, Numbers
  <2>2. rio_bufptr \in DOMAIN rio_buf /\ rio_buf[rio_bufptr] = Given + 1
    BY <1>1, <2>1 DEF InBuffer
  <2>3. QED
    BY <1>1, <2>2, SequenceFacts
<1>6. c \in 1 .. Len(reply)
  <2>1. Len(reply) \in Nat /\ taken <= Len(reply) /\ taken \in Nat
    BY <1>1, SequenceFacts, Numbers
  <2>2. QED
    BY <2>1, <1>3, <1>4, <1>5
<1>7. /\ Len(line) \in Nat /\ Len(line) <= MAXBUF - 2 /\ DOMAIN line = 1 .. Len(line)
      /\ \A k \in DOMAIN line : reply[line[k]] # "lf"
  BY <1>1, <1>2, SequenceFacts DEF Unfinished
<1>8. /\ line' \in Seq(1 .. Len(reply)) /\ Len(line') = Len(line) + 1
      /\ \A k \in 1 .. Len(line) : line'[k] = line[k]
      /\ line'[Len(line')] = c
  BY <1>1, <1>2, <1>6, SequenceFacts, Appended
<1>9. DOMAIN line' = 1 .. Len(line) + 1
  BY <1>8
<1>10. Len(line') \in Nat /\ Len(line') <= MAXBUF - 1 /\ MAXBUF \in Nat
  BY <1>1, <1>7, <1>8, Numbers
<1>11. \/ call' = "returned" /\ n' = Len(line')
       \/ call' = "returned" /\ n' = MAXBUF
       \/ /\ call' = call /\ n' = n
          /\ Len(line') # MAXBUF - 1 /\ reply[line'[Len(line')]] # "lf"
  BY <1>2 DEF CopyChar, Complete, Full
<1>12. RioTypeOK'
  <2>1. rio_cnt' \in -1 .. RIO_BUFSIZE /\ rio_bufptr' \in 1 .. RIO_BUFSIZE + 1
    BY <1>1, <1>2, <1>3, <1>5, Numbers
  <2>2. n' \in -1 .. MAXBUF /\ Len(line') < MAXBUF
    BY <1>1, <1>10, <1>11, Numbers
  <2>3. call' \in {"none", "reading", "returned", "exited"}
    BY <1>2, <1>11
  <2>4. QED
    BY <1>1, <1>2, <1>8, <2>1, <2>2, <2>3, Zenon DEF RioTypeOK
<1>13. InLine'
  <2> SUFFICES ASSUME NEW k \in 1 .. Len(line) + 1
               PROVE  line'[k] = Given' - Len(line') + k
    BY <1>9 DEF InLine
  <2>1. CASE k \in 1 .. Len(line)
    <3>1. line'[k] = line[k] /\ k \in DOMAIN line /\ k \in Int
      BY <1>7, <1>8, <2>1
    <3>2. line[k] = Given - Len(line) + k
      BY <1>1, <3>1 DEF InLine
    <3>3. Given' - Len(line') = Given - Len(line)
      BY <1>4, <1>7, <1>8
    <3>4. QED
      BY <3>1, <3>2, <3>3
  <2>2. CASE k = Len(line) + 1
    BY <1>4, <1>5, <1>7, <1>8, <2>2
  <2>3. QED
    BY <1>7, <2>1, <2>2
<1>14. InBuffer'
  <2> SUFFICES ASSUME NEW k \in 1 .. rio_cnt'
               PROVE  /\ rio_bufptr' + k - 1 \in DOMAIN rio_buf
                      /\ rio_buf[rio_bufptr' + k - 1] = Given' + k
    BY <1>2 DEF InBuffer
  <2>1. k + 1 \in 1 .. rio_cnt /\ rio_bufptr' + k - 1 = rio_bufptr + (k + 1) - 1
    BY <1>1, <1>2, <1>3, Numbers
  <2>2. /\ rio_bufptr + (k + 1) - 1 \in DOMAIN rio_buf
        /\ rio_buf[rio_bufptr + (k + 1) - 1] = Given + (k + 1)
    BY <1>1, <2>1 DEF InBuffer
  <2>3. k \in Int /\ Given + (k + 1) = Given' + k
    BY <1>3, <1>4
  <2>4. QED
    BY <2>1, <2>2, <2>3
<1>15. Unfinished'
  <2> SUFFICES ASSUME call' = "reading"
               PROVE  /\ Len(line') <= MAXBUF - 2
                      /\ \A k \in DOMAIN line' : reply[line'[k]] # "lf"
    BY <1>2, <1>11 DEF Unfinished
  <2>1. Len(line') # MAXBUF - 1 /\ reply[line'[Len(line')]] # "lf"
    BY <1>11
  <2>2. Len(line') <= MAXBUF - 2
    BY <1>10, <2>1
  <2>3. ASSUME NEW k \in DOMAIN line'
        PROVE  reply[line'[k]] # "lf"
    <3>1. CASE k \in 1 .. Len(line)
      BY <1>7, <1>8, <3>1
    <3>2. CASE k = Len(line')
      BY <2>1, <3>2
    <3>3. QED
      BY <1>7, <1>8, <1>9, <3>1, <3>2
  <2>4. QED
    BY <2>2, <2>3
<1>16. Counted'
  <2>1. rio_cnt' <= taken'
    BY <1>1, <1>2, <1>3, Numbers
  <2>2. call' = "returned" => n' >= Len(line')
    BY <1>2, <1>10, <1>11
  <2>3. QED
    BY <1>1, <1>2, <2>1, <2>2 DEF Counted
<1>17. QED
  BY <1>12, <1>13, <1>14, <1>15, <1>16 DEF RioInv

(* A call starts an empty line. *)
LEMMA CallStep ==
  ASSUME RioInv, Call, UNCHANGED peer
  PROVE  RioInv'
<1>1. RioTypeOK /\ InLine /\ InBuffer /\ Unfinished /\ Counted
  BY DEF RioInv
<1>2. /\ UNCHANGED <<reply, arrived, ended, taken, rio_buf, rio_bufptr, rio_cnt, n>>
      /\ call' = "reading" /\ line' = <<>>
  BY DEF Call, peer
<1>3. line' \in Seq(1 .. Len(reply)) /\ Len(line') = 0 /\ DOMAIN line' = {}
  BY <1>2, EmptySeq
<1>4. Len(line') < MAXBUF /\ Len(line') <= MAXBUF - 2
  BY <1>1, <1>3, Numbers
<1>5. call' \in {"none", "reading", "returned", "exited"}
  BY <1>2
<1>6. RioTypeOK'
  BY <1>1, <1>2, <1>3, <1>4, <1>5, Zenon DEF RioTypeOK
<1>7. Given' = Given
  BY <1>2 DEF Given
<1>8. InLine' /\ InBuffer'
  BY <1>1, <1>2, <1>3, <1>7 DEF InLine, InBuffer
<1>9. Unfinished' /\ Counted'
  BY <1>1, <1>2, <1>3, <1>4 DEF Unfinished, Counted
<1>10. QED
  BY <1>6, <1>8, <1>9 DEF RioInv

(* What Rio does keeps the invariant. *)
LEMMA ReadlinebStep ==
  ASSUME RioInv, Readlineb
  PROVE  RioInv'
BY RefillStep, NoDataStep, CopyCharStep DEF Readlineb, Reading

(* A step that changes neither the peer nor Rio keeps the invariant.        *)
LEMMA RioStutter ==
  ASSUME RioInv, UNCHANGED <<peer, rio>>
  PROVE  RioInv'
BY DEF RioInv, RioTypeOK, InLine, InBuffer, Given, Unfinished, Counted, peer, rio

-----------------------------------------------------------------------------
(* The state of LineReader that Lines sees. *)
given == IF call = "returned" THEN line ELSE <<>>
consumed == IF call = "returned" THEN Given ELSE Given - Len(line)

LinesNext == [Lines!Call \/ Lines!Line]_(Lines!vars)

(* A line ends at the first byte that is the last one, fills the buffer or  *)
(* is a '\n'.                                                               *)
LEMMA FirstEnd ==
  ASSUME Len(reply) \in Nat, MAXBUF \in Nat, NEW k \in Nat, NEW e \in k + 1 .. Len(reply),
         e = Len(reply) \/ e = k + MAXBUF - 1 \/ reply[e] = "lf",
         \A j \in k + 1 .. e - 1 : j # k + MAXBUF - 1 /\ reply[j] # "lf"
  PROVE  Lines!EndOfLine(k) = e
<1> DEFINE Ends == {j \in k + 1 .. Len(reply) : j = Len(reply) \/ j = k + MAXBUF - 1 \/ reply[j] = "lf"}
<1>1. e \in Ends /\ e \in Int
  OBVIOUS
<1>2. \A j \in Ends : j \in Int /\ e <= j
  OBVIOUS
<1>3. \A x \in Ends : (\A y \in Ends : x <= y) => x = e
  BY <1>1, <1>2
<1> HIDE DEF Ends
<1>4. (CHOOSE x \in Ends : \A y \in Ends : x <= y) = e
  BY <1>1, <1>2, <1>3
<1>5. QED
  BY <1>4 DEF Ends, Lines!EndOfLine, Lines!Min

(* A step that leaves the line and what has been given alone is nothing to  *)
(* the caller, and so is one that adds a byte to a line under way.          *)
LEMMA QuietStep ==
  ASSUME reply' = reply, given' = given, consumed' = consumed
  PROVE  LinesNext
BY DEF LinesNext, Lines!vars, given, consumed

(* l is a line of L bytes with byte g as its end and no end before.         *)
CutAt(l, L, g) ==
  /\ Len(reply) \in Nat /\ MAXBUF \in Nat
  /\ l \in Seq(1 .. Len(reply)) /\ L \in Nat /\ L = Len(l) /\ L > 0 /\ L <= MAXBUF - 1
  /\ g \in Nat /\ g <= Len(reply)
  /\ \A i \in 1 .. L : l[i] = g - L + i
  /\ \A i \in 1 .. L - 1 : reply[l[i]] # "lf"
  /\ g = Len(reply) \/ L = MAXBUF - 1 \/ reply[l[L]] = "lf"

(* Such a line is the one LineReader gives after the byte that precedes it. *)
LEMMA TakenLine ==
  ASSUME NEW l, NEW L, NEW g, CutAt(l, L, g)
  PROVE  /\ g - L \in Nat /\ g - L < Len(reply)
         /\ Lines!EndOfLine(g - L) = g
         /\ l = [i \in 1 .. g - (g - L) |-> g - L + i]
<1> SUFFICES ASSUME Len(reply) \in Nat, MAXBUF \in Nat,
                    l \in Seq(1 .. Len(reply)), L \in Nat, L = Len(l), L > 0, L <= MAXBUF - 1,
                    g \in Nat, g <= Len(reply),
                    \A i \in 1 .. L : l[i] = g - L + i,
                    \A i \in 1 .. L - 1 : reply[l[i]] # "lf",
                    g = Len(reply) \/ L = MAXBUF - 1 \/ reply[l[L]] = "lf"
             PROVE  /\ g - L \in Nat /\ g - L < Len(reply)
                    /\ Lines!EndOfLine(g - L) = g
                    /\ l = [i \in 1 .. g - (g - L) |-> g - L + i]
  BY DEF CutAt
<1>1. \A i \in 1 .. L : l[i] \in 1 .. Len(reply)
  BY ElementOfSeq
<1>2. l[1] = g - L + 1 /\ l[1] >= 1
  BY <1>1
<1>3. g - L \in Nat /\ g \in g - L + 1 .. Len(reply)
  BY <1>2
<1>4. g = Len(reply) \/ g = g - L + MAXBUF - 1 \/ reply[g] = "lf"
  <2>1. l[L] = g
    OBVIOUS
  <2>2. L = MAXBUF - 1 => g = g - L + MAXBUF - 1
    OBVIOUS
  <2>3. QED
    BY <2>1, <2>2
<1>5. ASSUME NEW j \in g - L + 1 .. g - 1
      PROVE  j # g - L + MAXBUF - 1 /\ reply[j] # "lf"
  <2>1. PICK i \in 1 .. L - 1 : j = g - L + i
    <3>1. j - (g - L) \in 1 .. L - 1 /\ j = g - L + (j - (g - L))
      OBVIOUS
    <3>2. QED
      BY <3>1
  <2>2. i \in 1 .. L
    OBVIOUS
  <2>3. l[i] = j /\ reply[l[i]] # "lf"
    BY <2>1, <2>2
  <2>4. j # g - L + MAXBUF - 1
    OBVIOUS
  <2>5. QED
    BY <2>3, <2>4
<1>6. Lines!EndOfLine(g - L) = g
  BY <1>3, <1>4, <1>5, FirstEnd
<1>7. l = [i \in 1 .. g - (g - L) |-> g - L + i]
  <2>1. l = [i \in 1 .. L |-> l[i]] /\ g - (g - L) = L
    OBVIOUS
  <2>2. QED
    BY <2>1
<1>8. QED
  BY <1>3, <1>6, <1>7

(* What has been given is part of the reply. *)
LEMMA GivenFacts ==
  ASSUME RioInv
  PROVE  Given \in Nat /\ Given <= Len(reply)
<1>1. RioTypeOK /\ rio_cnt <= taken
  BY DEF RioInv, Counted
<1>2. /\ taken \in Nat /\ rio_cnt \in Int /\ taken <= Len(reply) /\ Len(reply) \in Nat
  BY <1>1, SequenceFacts, Numbers
<1>3. QED
  BY <1>1, <1>2 DEF Given

(* A line that is returned is the one LineReader gives. *)
LEMMA ReturnStep ==
  ASSUME RioInv, RioInv', call = "reading", call' = "returned", reply' = reply,
         Len(line') > 0, Given' - Len(line') = Given - Len(line),
         Given' \in Nat, Given' <= Len(reply),
         \A k \in 1 .. Len(line') - 1 : reply[line'[k]] # "lf",
         \/ Given' = Len(reply)
         \/ Len(line') = MAXBUF - 1
         \/ reply[line'[Len(line')]] = "lf"
  PROVE  LinesNext
<1>1. RioTypeOK' /\ InLine' /\ RioTypeOK
  BY DEF RioInv
<1>2. Len(reply) \in Nat /\ MAXBUF \in Nat
  BY <1>1, SequenceFacts, Numbers
<1>3. line' \in Seq(1 .. Len(reply)) /\ Len(line') < MAXBUF
  BY <1>1 DEF RioTypeOK
<1>4. Len(line') \in Nat /\ DOMAIN line' = 1 .. Len(line') /\ Len(line') <= MAXBUF - 1
  BY <1>2, <1>3
<1>5. \A i \in 1 .. Len(line') : line'[i] = Given' - Len(line') + i
  BY <1>1, <1>4 DEF InLine
<1>6. /\ Given' - Len(line') \in Nat /\ Given' - Len(line') < Len(reply)
      /\ Lines!EndOfLine(Given' - Len(line')) = Given'
      /\ line' = [i \in 1 .. Given' - (Given' - Len(line')) |-> Given' - Len(line') + i]
  <2>1. PICK l, L, g : l = line' /\ L = Len(line') /\ g = Given'
    OBVIOUS
  <2>2. CutAt(l, L, g)
    BY <1>2, <1>3, <1>4, <1>5, <2>1 DEF CutAt
  <2>3. /\ g - L \in Nat /\ g - L < Len(reply)
        /\ Lines!EndOfLine(g - L) = g
        /\ l = [i \in 1 .. g - (g - L) |-> g - L + i]
    BY <2>2, TakenLine
  <2>4. QED
    BY <2>1, <2>3
<1>7. /\ given = <<>> /\ consumed = Given' - Len(line')
      /\ given' = line' /\ consumed' = Given'
  BY DEF given, consumed
<1>8. Lines!Line
  BY <1>6, <1>7 DEF Lines!Line, Lines!Waiting, given, consumed
<1>9. QED
  BY <1>8 DEF LinesNext

(* What the peer does gives the caller nothing. *)
LEMMA PeerLines ==
  ASSUME RioInv, Deliver \/ PeerCloses
  PROVE  LinesNext
<1>1. UNCHANGED <<reply, taken, rio_cnt, call, line>>
  BY DEF Deliver, PeerCloses, rio
<1>2. given' = given /\ consumed' = consumed
  BY <1>1 DEF given, consumed, Given
<1>3. QED
  BY <1>1, <1>2, QuietStep

(* Without data the line under way goes on, or is what is left of the reply, *)
(* or there is none.                                                        *)
LEMMA NoDataLines ==
  ASSUME RioInv, Interrupted \/ ReadFails \/ EndOfFile
  PROVE  LinesNext
<1>1. RioTypeOK /\ Unfinished /\ InLine
  BY DEF RioInv
<1>2. /\ UNCHANGED <<reply, taken, line>> /\ call = "reading" /\ rio_cnt <= 0
      /\ rio_cnt' \in {-1, 0}
  BY DEF Interrupted, ReadFails, EndOfFile, NeedsData, peer
<1>3. Given' = Given /\ Given = taken
  BY <1>1, <1>2, Numbers DEF Given
<1>4. CASE call' # "returned"
  <2>1. given' = given /\ consumed' = consumed
    BY <1>2, <1>3, <1>4 DEF given, consumed
  <2>2. QED
    BY <1>2, <2>1, QuietStep
<1>5. CASE call' = "returned" /\ line = <<>>
  <2>1. Len(line) = 0 /\ Given \in Nat
    BY <1>5, EmptySeq, GivenFacts
  <2>2. given' = given /\ consumed' = consumed
    BY <1>2, <1>3, <1>5, <2>1 DEF given, consumed
  <2>3. QED
    BY <1>2, <2>2, QuietStep
<1>6. CASE call' = "returned" /\ line # <<>>
  <2>1. EndOfFile
    BY <1>2, <1>6 DEF Interrupted, ReadFails
  <2>2. Given = Len(reply)
    BY <1>3, <2>1 DEF EndOfFile, RioInv, Counted
  <2>3. Len(line) > 0 /\ Len(line) \in Nat
    BY <1>1, <1>6, SequenceFacts, EmptySeq
  <2>4. \A k \in 1 .. Len(line) - 1 : reply[line[k]] # "lf"
    BY <1>1, <1>2, <2>3, SequenceFacts DEF Unfinished
  <2>5. RioInv' /\ Given \in Nat
    BY NoDataStep, GivenFacts
  <2>6. QED
    BY <1>2, <1>3, <1>6, <2>2, <2>3, <2>4, <2>5, ReturnStep
<1>7. QED
  BY <1>4, <1>5, <1>6

(* Filling rio_buf gives the caller nothing.                                *)
LEMMA RefillLines ==
  ASSUME RioInv, Refill
  PROVE  LinesNext
<1>1. UNCHANGED <<reply, call, line>>
  BY DEF Refill, peer
<1>2. Given' = Given
  BY RefillGiven
<1>3. given' = given /\ consumed' = consumed
  BY <1>1, <1>2 DEF given, consumed
<1>4. QED
  BY <1>1, <1>3, QuietStep

(* The line goes on from where it began, byte after byte, up to its end.    *)
LEMMA CopyCharFacts ==
  ASSUME RioInv, CopyChar
  PROVE  /\ call = "reading" /\ reply' = reply /\ RioInv'
         /\ Given' \in Nat /\ Given' <= Len(reply)
         /\ Len(line') \in Nat /\ Len(line') > 0
         /\ Given' - Len(line') = Given - Len(line)
         /\ \A k \in 1 .. Len(line') - 1 : reply[line'[k]] # "lf"
         /\ \/ /\ call' = "returned" /\ n' >= Len(line')
               /\ reply[line'[Len(line')]] = "lf" \/ Len(line') = MAXBUF - 1
            \/ call' = "reading"
<1> DEFINE c == rio_buf[rio_bufptr]
<1>1. RioTypeOK /\ Unfinished /\ InBuffer /\ rio_cnt <= taken /\ RioInv'
  BY CopyCharStep DEF RioInv, Counted
<1>2. /\ call = "reading" /\ rio_cnt > 0 /\ line' = Append(line, c)
      /\ rio_cnt' = rio_cnt - 1 /\ UNCHANGED <<reply, taken>>
  BY DEF CopyChar, peer
<1>3. rio_cnt \in Nat /\ taken \in Nat /\ Given = taken - rio_cnt /\ Given' = taken - (rio_cnt - 1)
  BY <1>1, <1>2, Numbers DEF Given
<1>4. Given' \in Nat /\ Given' <= Len(reply)
  BY <1>1, <1>2, <1>3, SequenceFacts, Numbers
<1>5. Len(line) \in Nat /\ \A k \in 1 .. Len(line) : reply[line[k]] # "lf"
  BY <1>1, <1>2, SequenceFacts DEF Unfinished
<1>6. Len(line') = Len(line) + 1 /\ \A k \in 1 .. Len(line) : line'[k] = line[k]
  <2>1. c \in 0 .. Len(reply)
    <3>1. 1 \in 1 .. rio_cnt /\ rio_bufptr + 1 - 1 = rio_bufptr
      BY <1>1, <1>2, <1>3, Numbers
    <3>2. rio_bufptr \in DOMAIN rio_buf
      BY <1>1, <3>1 DEF InBuffer
    <3>3. QED
      BY <1>1, <3>2, SequenceFacts
  <2>2. line \in Seq(0 .. Len(reply))
    BY <1>1, SequenceFacts, SeqMonotonic
  <2>3. QED
    BY <1>2, <2>1, <2>2, Appended
<1>7. Given' - Len(line') = Given - Len(line)
  BY <1>3, <1>5, <1>6
<1>8. \/ /\ call' = "returned"
         /\ reply[line'[Len(line')]] = "lf" \/ Len(line') = MAXBUF - 1
      \/ call' = "reading"
  BY <1>2 DEF CopyChar, Complete, Full
<1>9. call' = "returned" => n' >= Len(line')
  BY <1>1 DEF RioInv, Counted
<1>10. Len(line') \in Nat /\ Len(line') > 0 /\ \A k \in 1 .. Len(line') - 1 : reply[line'[k]] # "lf"
  BY <1>2, <1>5, <1>6
<1>11. QED
  BY <1>1, <1>2, <1>4, <1>7, <1>8, <1>9, <1>10

(* A byte added to the line ends it where LineReader does, or not at all.   *)
LEMMA CopyCharLines ==
  ASSUME RioInv, CopyChar
  PROVE  LinesNext
<1>1. CASE call' = "reading"
  <2>1. given' = given /\ consumed' = consumed
    BY <1>1, CopyCharFacts DEF given, consumed
  <2>2. QED
    BY <2>1, CopyCharFacts, QuietStep
<1>2. CASE call' = "returned"
  BY <1>2, CopyCharFacts, ReturnStep
<1>3. QED
  BY <1>1, <1>2, CopyCharFacts

(* A call forgets the line that was returned. *)
LEMMA CallLines ==
  ASSUME RioInv, Call, UNCHANGED peer, call \in {"none", "returned"}
  PROVE  LinesNext
<1>1. /\ UNCHANGED <<reply, taken, rio_cnt>> /\ call' = "reading" /\ line' = <<>>
  BY DEF Call, peer
<1>2. Given' = Given /\ Given \in Nat
  BY <1>1, GivenFacts DEF Given
<1>3. given' = <<>> /\ consumed' = Given /\ Len(line') = 0
  BY <1>1, <1>2, EmptySeq DEF given, consumed
<1>4. consumed = Given
  BY <1>2, EmptySeq DEF consumed, RioInv, Unfinished
<1>5. Lines!Call
  BY <1>1, <1>3, <1>4 DEF Lines!Call, Lines!Waiting, given, consumed
<1>6. QED
  BY <1>5 DEF LinesNext

(* Every step of rio_readlineb is a step of LineReader or none.             *)
LEMMA ReadlinebLines ==
  ASSUME RioInv, Readlineb
  PROVE  LinesNext
BY RefillLines, NoDataLines, CopyCharLines DEF Readlineb, Reading

(* LineReader starts where Rio does, with nothing given.                    *)
LEMMA LinesStart == RioInit => Lines!Init
<1> SUFFICES ASSUME RioInit
             PROVE  Lines!Init
  OBVIOUS
<1>1. call # "returned" /\ Given = 0 /\ Len(line) = 0
  BY EmptySeq DEF RioInit, Given
<1>2. QED
  BY <1>1 DEF Lines!Init, Lines!Waiting

-----------------------------------------------------------------------------
(* The client: its page fits because no call returns less than it has read  *)
(* (Counted), and no line is under way when one is asked for.               *)
ClientInv ==
  /\ pc \in {"open", "send", "header", "body", "done", "exited"}
  /\ written \in 0 .. REQUEST
  /\ page \in Seq(1 .. Len(reply)) /\ page_len \in Nat \ {0}
  /\ PageFits
  /\ pc \in {"open", "send"} => call = "none"
  /\ pc = "exited" => call \in {"none", "returned"}

IInv == RioInv /\ ClientInv

-----------------------------------------------------------------------------
(* The client starts with an empty page and no call made.                   *)
LEMMA ClientStart == Init => ClientInv
<1> SUFFICES ASSUME Init
             PROVE  ClientInv
  OBVIOUS
<1>1. /\ pc = "open" /\ written = 0 /\ page = <<>> /\ page_len = 1 /\ call = "none"
  BY DEF Init, RioInit
<1>2. page \in Seq(1 .. Len(reply)) /\ Len(page) = 0
  BY <1>1, EmptySeq
<1>3. written \in 0 .. REQUEST
  BY <1>1, ClientAssumption
<1>4. QED
  BY <1>1, <1>2, <1>3 DEF ClientInv, PageFits

(* The peer and Rio leave the client alone. *)
LEMMA OthersKeepClient ==
  ASSUME ClientInv, Readlineb \/ Deliver \/ PeerCloses, UNCHANGED client
  PROVE  ClientInv'
<1>1. UNCHANGED <<reply, pc, written, page, page_len>>
  BY DEF Readlineb, Reading, Refill, EndOfFile, CopyChar, Interrupted, ReadFails, Deliver,
         PeerCloses, peer, client
<1>2. call = "reading" \/ call' = call
  BY DEF Readlineb, Reading, Refill, EndOfFile, CopyChar, Interrupted, ReadFails, Deliver,
         PeerCloses, rio, NeedsData
<1>3. QED
  BY <1>1, <1>2 DEF ClientInv, PageFits

(* Steps of the client that leave the page alone. *)
LEMMA PagelessStep ==
  ASSUME ClientInv, Open \/ Write \/ WriteFails \/ Sent \/ HeaderLine \/ NoMemory \/ Done
  PROVE  ClientInv'
<1>1. UNCHANGED <<reply, page, page_len>>
  BY DEF Open, Write, WriteFails, Sent, HeaderLine, NoMemory, Done, peer
<1>2. pc' \in {"open", "send", "header", "body", "done", "exited"}
  BY DEF ClientInv, Open, Write, WriteFails, Sent, HeaderLine, NoMemory, Done
<1>3. written' \in 0 .. REQUEST
  BY ClientAssumption DEF ClientInv, Open, Write, WriteFails, Sent, HeaderLine, NoMemory, Done
<1>4. /\ pc' \in {"open", "send"} => call' = "none"
      /\ pc' = "exited" => call' \in {"none", "returned"}
  BY DEF ClientInv, Open, Write, WriteFails, Sent, HeaderLine, NoMemory, Done, rio
<1>5. QED
  BY <1>1, <1>2, <1>3, <1>4 DEF ClientInv, PageFits

(* The page grows by what n says, which is no less than what is printed.    *)
LEMMA BodyLineStep ==
  ASSUME RioInv, ClientInv, BodyLine
  PROVE  ClientInv'
<1>1. PICK len \in 0 .. Len(line) : page' = page \o SubSeq(line, 1, len)
  BY DEF BodyLine
<1>2. /\ reply' = reply /\ pc = "body" /\ pc' = pc /\ written' = written
      /\ call = "returned" /\ n > 0 /\ page_len' = Grown
  BY DEF BodyLine, peer
<1>3. RioTypeOK /\ n >= Len(line)
  BY <1>2 DEF RioInv, Counted
<1>4. /\ Len(line) \in Nat /\ DOMAIN line = 1 .. Len(line) /\ line \in Seq(1 .. Len(reply))
      /\ n \in Int
  BY <1>3, SequenceFacts, Numbers
<1>5. len \in Nat /\ len <= n
  BY <1>1, <1>3, <1>4
<1>6. /\ SubSeq(line, 1, len) \in Seq(1 .. Len(reply))
      /\ Len(SubSeq(line, 1, len)) = len
  <2>1. \A i \in 1 .. len : line[i] \in 1 .. Len(reply)
    BY <1>1, <1>4, ElementOfSeq
  <2>2. /\ SubSeq(line, 1, len) \in Seq(1 .. Len(reply))
        /\ Len(SubSeq(line, 1, len)) = IF 1 <= len THEN len - 1 + 1 ELSE 0
    BY <1>5, <2>1, SubSeqProperties
  <2>3. QED
    BY <1>5, <2>2
<1>7. page \in Seq(1 .. Len(reply)) /\ Len(page) \in Nat
  BY DEF ClientInv
<1>8. page' \in Seq(1 .. Len(reply)) /\ Len(page') = Len(page) + len
  BY <1>1, <1>6, <1>7, ConcatProperties
<1>9. page_len \in Nat \ {0} /\ Len(page) < page_len
  BY DEF ClientInv, PageFits
<1>10. page_len' \in Nat \ {0} /\ Len(page') < page_len'
  BY <1>2, <1>4, <1>5, <1>7, <1>8, <1>9 DEF Grown
<1>11. QED
  BY <1>2, <1>8, <1>10 DEF ClientInv, PageFits

(* The client's steps do to Rio nothing or a call, with no line under way.  *)
LEMMA ClientUsesRio ==
  ASSUME ClientInv, Fetch \/ NoMemory
  PROVE  /\ UNCHANGED peer
         /\ UNCHANGED rio \/ (Call /\ call \in {"none", "returned"})
BY DEF ClientInv, Fetch, Open, Write, WriteFails, Sent, HeaderLine, BodyLine, NoMemory,
          Done

-----------------------------------------------------------------------------
(* Every step of the client, of Rio and of the peer keeps the invariant.    *)
LEMMA Preserved == IInv /\ [Next]_vars => IInv'
<1> SUFFICES ASSUME IInv, [Next]_vars
             PROVE  IInv'
  OBVIOUS
<1>1. RioInv /\ ClientInv
  BY DEF IInv
<1>2. CASE Fetch \/ NoMemory
  <2>1. RioInv'
    BY <1>1, <1>2, ClientUsesRio, CallStep, RioStutter
  <2>2. ClientInv'
    BY <1>1, <1>2, PagelessStep, BodyLineStep DEF Fetch
  <2>3. QED
    BY <2>1, <2>2 DEF IInv
<1>3. CASE Readlineb /\ UNCHANGED client
  BY <1>1, <1>3, ReadlinebStep, OthersKeepClient DEF IInv
<1>4. CASE Peer /\ UNCHANGED client
  BY <1>1, <1>4, PeerStep, OthersKeepClient DEF IInv, Peer
<1>5. CASE UNCHANGED vars
  <2>1. UNCHANGED <<peer, rio>> /\ UNCHANGED <<reply, call, pc, written, page, page_len>>
    BY <1>5 DEF vars, peer, rio, client
  <2>2. RioInv'
    BY <1>1, <2>1, RioStutter
  <2>3. ClientInv'
    BY <1>1, <2>1 DEF ClientInv, PageFits
  <2>4. QED
    BY <2>2, <2>3 DEF IInv
<1>6. QED
  BY <1>2, <1>3, <1>4, <1>5 DEF Next

(* The invariant holds of every state the client reaches. *)
THEOREM ClientInvariance == Spec => []IInv
<1>1. Init => IInv
  BY RioStart, ClientStart DEF Init, IInv
<1>2. QED
  BY <1>1, Preserved, PTL DEF Spec

(* Every variable of the client and of Rio keeps its type. *)
THEOREM ClientTypeCorrect == Spec => []TypeOK
<1>1. IInv => TypeOK
  BY DEF IInv, RioInv, ClientInv, TypeOK
<1>2. QED
  BY <1>1, ClientInvariance, PTL

(* Nothing of the stream is lost, repeated or reordered between the socket  *)
(* and rio_readlineb's caller, and rio_bufptr stays inside rio_buf.         *)
THEOREM NothingLost == Spec => []StreamInOrder
<1>1. IInv => StreamInOrder
  BY DEF IInv, RioInv, StreamInOrder
<1>2. QED
  BY <1>1, ClientInvariance, PTL

(* grab_page's page has room for every line that is printed to it and for   *)
(* the '\0' after it.                                                       *)
THEOREM PageNeverOverflows == Spec => []PageFits
<1>1. IInv => PageFits
  BY DEF IInv, ClientInv
<1>2. QED
  BY <1>1, ClientInvariance, PTL

(* Call after call rio_readlineb gives the lines LineReader promises: each  *)
(* step is a step of LineReader or leaves its state alone.                  *)
THEOREM RioGivesLines == Spec => LinesSpec
<1>1. Init => Lines!Init
  BY LinesStart DEF Init
<1>2. IInv /\ [Next]_vars => [Lines!Call \/ Lines!Line]_(Lines!vars)
  <2> SUFFICES ASSUME IInv, [Next]_vars
               PROVE  LinesNext
    BY DEF LinesNext
  <2>1. RioInv /\ ClientInv
    BY DEF IInv
  <2>2. CASE UNCHANGED <<peer, rio>>
    <3>1. UNCHANGED <<reply, taken, rio_cnt, call, line>>
      BY <2>2 DEF peer, rio
    <3>2. given' = given /\ consumed' = consumed
      BY <3>1 DEF given, consumed, Given
    <3>3. QED
      BY <3>1, <3>2, QuietStep
  <2>3. CASE Fetch \/ NoMemory
    BY <2>1, <2>2, <2>3, ClientUsesRio, CallLines
  <2>4. CASE Readlineb
    BY <2>1, <2>4, ReadlinebLines
  <2>5. CASE Peer
    BY <2>1, <2>5, PeerLines DEF Peer
  <2>6. QED
    BY <2>2, <2>3, <2>4, <2>5 DEF Next, vars
<1>3. QED
  BY <1>1, <1>2, ClientInvariance, PTL DEF Spec, LinesSpec, Lines!Spec

-----------------------------------------------------------------------------
(* The page is the body.  Start is the byte before the line under way; a    *)
(* line that is returned has no '\n' inside it and ends for a reason; and   *)
(* as long as the header lines fit, the header is read line by line up to   *)
(* its end and the page is what has been given since.                       *)
Start == Given - Len(line)

Ending ==
  /\ call = "none" => taken = 0 /\ rio_cnt = 0
  /\ call = "returned" =>
       /\ \A k \in 1 .. Len(line) - 1 : reply[line[k]] # "lf"
       /\ \/ Given = Len(reply)
          \/ Len(line) > 0 /\ (Len(line) = MAXBUF - 1 \/ reply[line[Len(line)]] = "lf")
       /\ n = 0 => line = <<>> /\ Given = Len(reply)

Body(k) == [i \in 1 .. k - BodyStart |-> BodyStart + i]
TextBody == BodyStart < Len(reply) /\ (\A k \in DOMAIN reply : reply[k] # "nul") /\ HeaderFits

PageInv ==
  TextBody =>
    /\ pc \in {"open", "send", "header"} => page = <<>>
    /\ pc = "header" => Start < BodyStart /\ (Start = 0 \/ reply[Start] = "lf")
    /\ pc = "body" => BodyStart <= Start /\ page = Body(Start)
    /\ pc = "done" => page = Body(Len(reply))

LEMMA EndingStart == RioInit => Ending
BY DEF RioInit, Ending

(* Start moves only when a call is made.                                    *)
LEMMA EndingStep ==
  ASSUME RioInv, Ending, Readlineb \/ Deliver \/ PeerCloses
  PROVE  Ending' /\ Start' = Start /\ reply' = reply
<1>1. CASE CopyChar
  BY <1>1, CopyCharFacts DEF Ending, Start
<1>2. CASE Refill
  <2>1. UNCHANGED <<reply, call, line>> /\ call = "reading" /\ Given' = Given
    BY <1>2, RefillGiven DEF Refill, NeedsData, peer
  <2>2. QED
    BY <2>1 DEF Ending, Start
<1>3. CASE Interrupted \/ ReadFails \/ EndOfFile
  <2>1. /\ RioTypeOK /\ call = "reading" /\ UNCHANGED <<reply, taken, line>> /\ rio_cnt <= 0
        /\ rio_cnt' \in {-1, 0}
    BY <1>3 DEF Interrupted, ReadFails, EndOfFile, NeedsData, peer, RioInv
  <2>2. Given' = Given /\ Given = taken
    BY <2>1, Numbers DEF Given
  <2>3. CASE Interrupted \/ ReadFails
    BY <2>1, <2>2, <2>3 DEF Interrupted, ReadFails, Ending, Start
  <2>4. CASE EndOfFile
    <3>1. Given = Len(reply) /\ n' = CountAtEof
      BY <2>2, <2>4 DEF EndOfFile, RioInv, Counted
    <3>2. Len(line) \in Nat
      BY <2>1, SequenceFacts
    <3>3. n' = 0 => line = <<>>
      BY <3>1, <3>2 DEF CountAtEof
    <3>4. \A k \in 1 .. Len(line) - 1 : reply[line[k]] # "lf"
      <4>1. DOMAIN line = 1 .. Len(line) /\ \A k \in DOMAIN line : reply[line[k]] # "lf"
        BY <2>1, SequenceFacts DEF RioInv, Unfinished
      <4>2. QED
        BY <3>2, <4>1
    <3>5. QED
      BY <2>1, <2>2, <2>4, <3>1, <3>3, <3>4 DEF EndOfFile, Ending, Start
  <2>5. QED
    BY <1>3, <2>3, <2>4
<1>4. CASE Deliver \/ PeerCloses
  <2>1. UNCHANGED <<reply, taken, rio_cnt, call, line, n>>
    BY <1>4 DEF Deliver, PeerCloses, rio
  <2>2. QED
    BY <2>1 DEF Ending, Start, Given
<1>5. QED
  BY <1>1, <1>2, <1>3, <1>4 DEF Readlineb, Reading

(* A call of the client's ends no line.                                     *)
LEMMA EndingFetch ==
  ASSUME RioInv, Ending, ClientInv, Fetch \/ NoMemory
  PROVE  Ending'
<1>1. UNCHANGED peer /\ (UNCHANGED rio \/ Call)
  BY ClientUsesRio
<1>2. QED
  BY <1>1 DEF Ending, Given, Call, rio, peer

LEMMA CallRestarts ==
  ASSUME RioInv, Call, UNCHANGED peer
  PROVE  Start' = Given /\ reply' = reply
<1>1. UNCHANGED <<reply, taken, rio_cnt>> /\ Len(line') = 0
  BY EmptySeq DEF Call, peer
<1>2. Given' = Given /\ Given \in Nat
  BY <1>1, GivenFacts DEF Given
<1>3. QED
  BY <1>1, <1>2 DEF Start

(* Where the body begins depends on the reply alone.                        *)
LEMMA SameReply ==
  ASSUME reply' = reply
  PROVE  /\ BodyStart' = BodyStart /\ (TextBody' <=> TextBody)
         /\ \A k : Body(k)' = Body(k)
<1>1. BodyStart' = BodyStart
  BY DEF BodyStart, EmptyLineEnds
<1>2. QED
  BY <1>1 DEF TextBody, HeaderFits, Body

LEMMA FirstOf ==
  ASSUME NEW T, T \subseteq Nat, T # {}
  PROVE  \E x \in T : \A y \in T : x <= y
<1>1. PICK x \in T : \A y \in T : ~(<<y, x>> \in OpToRel(<, Nat))
  BY NatLessThanWellFounded, WFMin, Zenon
<1>2. \A y \in T : ~(y < x)
  BY <1>1, Zenon DEF OpToRel
<1>3. QED
  BY <1>2

(* The header ends at its first empty line. *)
LEMMA HeaderEnd ==
  ASSUME RioInv, TextBody
  PROVE  /\ BodyStart \in 1 .. Len(reply) /\ EmptyLineEnds(BodyStart)
         /\ \A j \in 1 .. BodyStart - 1 : ~EmptyLineEnds(j)
<1> DEFINE T == {k \in 1 .. Len(reply) : EmptyLineEnds(k)}
<1>1. Len(reply) \in Nat /\ DOMAIN reply = 1 .. Len(reply)
  BY SequenceFacts DEF RioInv
<1>2. BodyStart # Len(reply)
  BY <1>1 DEF TextBody
<1>3. T # {}
  BY <1>1, <1>2 DEF BodyStart
<1>4. PICK x \in T : \A y \in T : x <= y
  <2>1. T \subseteq Nat
    BY <1>1
  <2> HIDE DEF T
  <2>2. QED
    BY <1>3, <2>1, FirstOf
<1>5. /\ x \in DOMAIN reply /\ EmptyLineEnds(x) /\ \A j \in 1 .. x - 1 : ~EmptyLineEnds(j)
  <2>1. x \in DOMAIN reply /\ EmptyLineEnds(x)
    BY <1>1
  <2>2. ASSUME NEW j \in 1 .. x - 1, EmptyLineEnds(j) PROVE FALSE
    <3>1. j \in T
      BY <1>1, <2>1, <2>2
    <3>2. QED
      BY <1>1, <1>4, <2>1, <3>1
  <2>3. QED
    BY <2>1, <2>2
<1>6. BodyStart = CHOOSE k \in DOMAIN reply :
                    EmptyLineEnds(k) /\ \A j \in 1 .. k - 1 : ~EmptyLineEnds(j)
  BY <1>5 DEF BodyStart
<1>7. /\ BodyStart \in DOMAIN reply /\ EmptyLineEnds(BodyStart)
      /\ \A j \in 1 .. BodyStart - 1 : ~EmptyLineEnds(j)
  BY <1>5, <1>6
<1>8. QED
  BY <1>1, <1>7

(* A header line ends at the next '\n', and it is the empty one only at the *)
(* end of the header.                                                       *)
LEMMA LineIs ==
  ASSUME RioInv
  PROVE  /\ Len(line) \in Nat /\ Start \in Int /\ Given \in Nat /\ Given = Start + Len(line)
         /\ DOMAIN line = 1 .. Len(line) /\ \A k \in 1 .. Len(line) : line[k] = Start + k
<1>1. /\ Len(line) \in Nat /\ DOMAIN line = 1 .. Len(line) /\ Given \in Nat
      /\ \A k \in DOMAIN line : line[k] = Given - Len(line) + k
  BY SequenceFacts, GivenFacts DEF RioInv, InLine
<1>2. QED
  BY <1>1 DEF Start

LEMMA HeaderLineEnds ==
  ASSUME RioInv, Ending, TextBody, call = "returned", Start \in Nat,
         Start < BodyStart, Start = 0 \/ reply[Start] = "lf"
  PROVE  /\ Len(line) > 0 /\ Given <= BodyStart /\ reply[Given] = "lf"
         /\ EmptyLine(line) <=> Given = BodyStart
<1> DEFINE L == Len(line)
<1> DEFINE g == Given
<1> DEFINE e == BodyStart
<1>1. /\ L \in Nat /\ Start \in Nat /\ g \in Nat /\ g = Start + L
      /\ DOMAIN line = 1 .. L /\ \A k \in 1 .. L : line[k] = Start + k
  BY LineIs
<1>2. /\ e \in 1 .. Len(reply) /\ EmptyLineEnds(e) /\ \A j \in 1 .. e - 1 : ~EmptyLineEnds(j)
  BY HeaderEnd
<1>3. /\ Len(reply) \in Nat /\ DOMAIN reply = 1 .. Len(reply) /\ MAXBUF \in Nat /\ g <= Len(reply)
  BY SequenceFacts, Numbers, GivenFacts DEF RioInv
<1>4. PICK j \in DOMAIN reply : Start < j /\ j < Start + MAXBUF /\ reply[j] = "lf"
  BY <1>1, <1>2, <1>3 DEF TextBody, HeaderFits
<1>5. \A i \in Start + 1 .. g - 1 : reply[i] # "lf"
  <2> SUFFICES ASSUME NEW i \in Start + 1 .. g - 1 PROVE reply[i] # "lf"
    OBVIOUS
  <2>1. i - Start \in 1 .. L - 1 /\ i - Start \in 1 .. L /\ Start + (i - Start) = i
    BY <1>1
  <2>2. \A k \in 1 .. L - 1 : reply[line[k]] # "lf"
    BY DEF Ending
  <2>3. line[i - Start] = i
    BY <1>1, <2>1
  <2>4. QED
    BY <2>1, <2>2, <2>3
<1>6. reply[e] = "lf" /\ e > 1 /\ reply[e - 1] = "cr" /\ (e = 2 \/ reply[e - 2] = "lf")
  BY <1>2 DEF EmptyLineEnds
<1> HIDE DEF L, g, e
<1>7. g <= j /\ g <= e
  BY <1>1, <1>2, <1>3, <1>4, <1>5, <1>6 DEF e
<1>8. L > 0 /\ reply[g] = "lf"
  <2>1. g = Len(reply) \/ (L > 0 /\ (L = MAXBUF - 1 \/ reply[line[L]] = "lf"))
    BY DEF Ending, L, g
  <2>2. CASE g = Len(reply)
    BY <1>1, <1>3, <1>4, <1>7, <2>2
  <2>3. CASE L > 0 /\ L = MAXBUF - 1
    BY <1>1, <1>3, <1>4, <1>7, <2>3
  <2>4. CASE L > 0 /\ reply[line[L]] = "lf"
    BY <1>1, <2>4
  <2>5. QED
    BY <2>1, <2>2, <2>3, <2>4
<1>9. EmptyLine(line) <=> L = 2 /\ reply[Start + 1] = "cr"
  <2>1. Text(line) = [k \in 1 .. L |-> reply[line[k]]]
    BY <1>1 DEF Text
  <2>2. ASSUME EmptyLine(line) PROVE L = 2 /\ reply[Start + 1] = "cr"
    <3>1. Text(line) = <<"cr", "lf">>
      BY <2>2 DEF EmptyLine
    <3>2. DOMAIN Text(line) = 1 .. 2 /\ Text(line)[1] = "cr"
      BY <3>1
    <3>3. 1 .. L = 1 .. 2
      BY <2>1, <3>2
    <3>4. L = 2
      <4>1. 2 \in 1 .. L /\ 3 \notin 1 .. L
        BY <3>3
      <4>2. QED
        BY <1>1, <4>1
    <3>5. QED
      BY <1>1, <2>1, <3>2, <3>4
  <2>3. ASSUME L = 2, reply[Start + 1] = "cr" PROVE EmptyLine(line)
    <3>1. line[1] = Start + 1 /\ line[2] = g
      BY <1>1, <2>3
    <3>2. Text(line) = [k \in 1 .. 2 |-> reply[line[k]]]
      BY <2>1, <2>3
    <3>3. Text(line) = <<"cr", "lf">>
      BY <1>8, <2>3, <3>1, <3>2
    <3>4. QED
      BY <3>3 DEF EmptyLine
  <2>4. QED
    BY <2>2, <2>3
<1>10. ASSUME EmptyLine(line) PROVE g = e
  <2>1. g = Start + 2 /\ reply[g - 1] = "cr"
    BY <1>1, <1>9, <1>10
  <2>2. EmptyLineEnds(g)
    <3>1. g > 1 /\ (g = 2 \/ reply[g - 2] = "lf")
      BY <1>1, <2>1
    <3>2. QED
      BY <1>8, <2>1, <3>1 DEF EmptyLineEnds
  <2>3. g \in 1 .. e - 1 => ~EmptyLineEnds(g)
    BY <1>2 DEF e
  <2>4. e \in Nat /\ g \in Nat /\ g >= 1
    BY <1>1, <1>2, <1>3, <2>1 DEF e
  <2>5. QED
    BY <1>7, <2>2, <2>3, <2>4
<1>11. ASSUME g = e PROVE EmptyLine(line)
  <2>1. e \in Nat
    BY <1>1, <1>11
  <2>2. e - 1 # Start
    BY <1>1, <1>6, <2>1
  <2>3. e - 2 <= Start
    <3>1. e - 2 > Start => e - 2 \in Start + 1 .. g - 1 /\ e # 2
      BY <1>1, <1>11, <2>1
    <3>2. QED
      BY <1>1, <1>5, <1>6, <2>1, <3>1
  <2>4. L = 2 /\ Start + 1 = e - 1
    BY <1>1, <1>8, <1>11, <2>1, <2>2, <2>3
  <2>5. QED
    BY <1>6, <1>9, <2>4
<1>12. QED
  BY <1>7, <1>8, <1>10, <1>11 DEF L, g, e

(* A line begins where the reply does, or after one of its bytes.           *)
LEMMA StartIsNat ==
  ASSUME RioInv
  PROVE  Start \in Nat
<1>1. /\ Len(line) \in Nat /\ Start \in Int /\ Given \in Nat /\ Given = Start + Len(line)
      /\ \A k \in 1 .. Len(line) : line[k] = Start + k
      /\ line \in Seq(1 .. Len(reply)) /\ Len(reply) \in Nat
  BY LineIs, SequenceFacts DEF RioInv
<1>2. CASE Len(line) = 0
  BY <1>1, <1>2
<1>3. CASE Len(line) > 0
  <2>1. line[1] = Start + 1 /\ line[1] \in 1 .. Len(reply)
    BY <1>1, <1>3, ElementOfSeq
  <2>2. QED
    BY <1>1, <2>1
<1>4. QED
  BY <1>1, <1>2, <1>3

LEMMA PageStart == Init => PageInv
<1> SUFFICES ASSUME Init PROVE PageInv
  OBVIOUS
<1>1. pc = "open" /\ page = <<>>
  BY DEF Init
<1>2. QED
  BY <1>1 DEF PageInv

(* The request is sent with nothing read: the header begins with the reply. *)
LEMMA SentPage ==
  ASSUME IInv, Ending, PageInv, Sent
  PROVE  PageInv'
<1>1. /\ pc = "send" /\ pc' = "header" /\ page' = page /\ call = "none" /\ Call /\ UNCHANGED peer
      /\ RioInv
  BY DEF Sent, IInv, ClientInv
<1>2. Given = 0
  BY <1>1 DEF Ending, Given
<1>3. Start' = 0 /\ reply' = reply
  BY <1>1, <1>2, CallRestarts
<1>4. TextBody => BodyStart > 0
  BY <1>1, HeaderEnd, SequenceFacts DEF RioInv
<1>5. QED
  BY <1>1, <1>3, <1>4, SameReply DEF PageInv

LEMMA HeaderLinePage ==
  ASSUME IInv, Ending, PageInv, HeaderLine
  PROVE  PageInv'
<1>1. /\ pc = "header" /\ call = "returned" /\ page' = page /\ Call /\ UNCHANGED peer
      /\ pc' = (IF ~EmptyLine(line) /\ n > 0 THEN "header" ELSE "body") /\ RioInv
  BY DEF HeaderLine, IInv
<1>2. Start' = Given /\ reply' = reply
  BY <1>1, CallRestarts
<1> SUFFICES ASSUME TextBody
             PROVE  /\ pc' = "header" => page' = <<>> /\ Given < BodyStart /\ reply[Given] = "lf"
                    /\ pc' = "body" => BodyStart <= Given /\ page' = Body(Given)
  BY <1>1, <1>2, SameReply DEF PageInv
<1>3. page = <<>> /\ Start < BodyStart /\ (Start = 0 \/ reply[Start] = "lf")
  BY <1>1 DEF PageInv
<1>4. Start \in Nat
  BY <1>1, StartIsNat
<1>5. /\ Len(line) > 0 /\ Given <= BodyStart /\ reply[Given] = "lf"
      /\ EmptyLine(line) <=> Given = BodyStart
  BY <1>1, <1>3, <1>4, HeaderLineEnds
<1>6. n > 0 /\ BodyStart \in Int /\ Given \in Int
  <2>1. n >= Len(line) /\ n \in Int /\ Len(line) \in Nat
    BY <1>1, Numbers, LineIs DEF RioInv, Counted
  <2>2. BodyStart \in Int /\ Given \in Int
    BY <1>1, HeaderEnd, LineIs
  <2>3. QED
    BY <1>5, <2>1, <2>2
<1>7. Given = BodyStart => Body(Given) = <<>>
  <2>1. Given = BodyStart => 1 .. Given - BodyStart = {}
    BY <1>6
  <2>2. QED
    BY <2>1 DEF Body
<1>8. QED
  BY <1>1, <1>3, <1>5, <1>6, <1>7

LEMMA BodyLinePage ==
  ASSUME IInv, Ending, PageInv, BodyLine
  PROVE  PageInv'
<1>1. PICK len \in 0 .. Len(line) : IsStrlen(line, len) /\ page' = page \o SubSeq(line, 1, len)
  BY DEF BodyLine
<1>2. pc = "body" /\ pc' = pc /\ call = "returned" /\ Call /\ UNCHANGED peer /\ RioInv
  BY DEF BodyLine, IInv
<1>3. Start' = Given /\ reply' = reply
  BY <1>2, CallRestarts
<1> SUFFICES ASSUME TextBody PROVE BodyStart <= Given /\ page' = Body(Given)
  BY <1>2, <1>3, SameReply DEF PageInv
<1>4. BodyStart <= Start /\ page = Body(Start)
  BY <1>2 DEF PageInv
<1>5. /\ Len(line) \in Nat /\ Start \in Int /\ Given \in Nat /\ Given = Start + Len(line)
      /\ DOMAIN line = 1 .. Len(line) /\ \A k \in 1 .. Len(line) : line[k] = Start + k
      /\ BodyStart \in 1 .. Len(reply) /\ Len(reply) \in Nat /\ DOMAIN reply = 1 .. Len(reply)
      /\ line \in Seq(1 .. Len(reply))
  BY <1>2, LineIs, HeaderEnd, SequenceFacts DEF RioInv
<1>6. len = Len(line)
  <2>1. Len(line) \in Nat /\ len \in 0 .. Len(line)
    BY <1>5
  <2>2. ASSUME len < Len(line) PROVE FALSE
    <3>1. reply[line[len + 1]] = "nul"
      BY <1>1, <2>2 DEF IsStrlen
    <3>2. line[len + 1] \in DOMAIN reply
      BY <1>5, <2>1, <2>2, ElementOfSeq
    <3>3. QED
      BY <3>1, <3>2 DEF TextBody
  <2>3. QED
    BY <2>1, <2>2
<1>7. page' = page \o line
  <2>1. SubSeq(line, 1, Len(line)) = line
    BY <1>5
  <2>2. QED
    BY <1>1, <1>6, <2>1
<1> DEFINE P == Start - BodyStart
<1>8. P \in Nat /\ Given - BodyStart = P + Len(line) /\ BodyStart <= Given
  BY <1>4, <1>5
<1>9. /\ page \in Seq(1 .. Len(reply)) /\ Len(page) = P
      /\ \A i \in 1 .. P : page[i] = BodyStart + i
  <2>1. page \in Seq(1 .. Len(reply)) /\ page = [i \in 1 .. P |-> BodyStart + i]
    BY <1>4 DEF IInv, ClientInv, Body
  <2> HIDE DEF P
  <2>2. Len(page) = P
    BY <1>8, <2>1
  <2>3. QED
    BY <2>1, <2>2
<1>10. /\ page' \in Seq(1 .. Len(reply)) /\ Len(page') = P + Len(line)
       /\ \A i \in 1 .. P + Len(line) : page'[i] = IF i <= P THEN page[i] ELSE line[i - P]
  <2> HIDE DEF P
  <2>1. QED
    BY <1>5, <1>7, <1>8, <1>9, ConcatProperties
<1>11. \A i \in 1 .. P + Len(line) : page'[i] = BodyStart + i
  <2> SUFFICES ASSUME NEW i \in 1 .. P + Len(line) PROVE page'[i] = BodyStart + i
    OBVIOUS
  <2>1. CASE i <= P
    BY <1>8, <1>9, <1>10, <2>1
  <2>2. CASE i > P
    <3>1. i - P \in 1 .. Len(line)
      BY <1>5, <1>8, <2>2
    <3>2. line[i - P] = Start + (i - P)
      BY <1>5, <3>1
    <3>3. QED
      BY <1>5, <1>8, <1>10, <2>2, <3>2
  <2>3. QED
    BY <1>5, <1>8, <2>1, <2>2
<1>12. page' = [i \in 1 .. P + Len(line) |-> BodyStart + i]
  <2>1. page' = [i \in 1 .. Len(page') |-> page'[i]]
    BY <1>10
  <2>2. QED
    BY <1>10, <1>11, <2>1
<1>13. QED
  BY <1>8, <1>12 DEF Body

LEMMA DonePage ==
  ASSUME IInv, Ending, PageInv, Done
  PROVE  PageInv'
<1>1. /\ pc = "body" /\ pc' = "done" /\ call = "returned" /\ n = 0 /\ page' = page
      /\ reply' = reply /\ RioInv
  BY DEF Done, peer, IInv
<1>2. line = <<>> /\ Given = Len(reply)
  BY <1>1 DEF Ending
<1>3. Start = Len(reply)
  BY <1>1, <1>2, LineIs, EmptySeq
<1>4. QED
  BY <1>1, <1>3, SameReply DEF PageInv

PageIInv == IInv /\ Ending /\ PageInv

LEMMA PagePreserved == PageIInv /\ [Next]_vars => PageIInv'
<1> SUFFICES ASSUME PageIInv, [Next]_vars
             PROVE  PageIInv'
  OBVIOUS
<1>1. IInv /\ RioInv /\ ClientInv /\ Ending /\ PageInv /\ IInv'
  BY Preserved DEF PageIInv, IInv
<1>2. CASE Fetch \/ NoMemory
  <2>1. CASE Open \/ Write \/ WriteFails \/ NoMemory
    <3>1. /\ reply' = reply /\ page' = page
          /\ \/ pc' = "exited"
             \/ pc' \in {"open", "send"} /\ pc \in {"open", "send"}
      BY <2>1 DEF Open, Write, WriteFails, NoMemory, peer
    <3>2. PageInv'
      BY <1>1, <3>1, SameReply DEF PageInv
    <3>3. QED
      BY <1>1, <1>2, <3>2, EndingFetch DEF PageIInv
  <2>2. CASE Sent \/ HeaderLine \/ BodyLine \/ Done
    <3>1. PageInv'
      BY <1>1, <2>2, SentPage, HeaderLinePage, BodyLinePage, DonePage
    <3>2. QED
      BY <1>1, <1>2, <3>1, EndingFetch DEF PageIInv
  <2>3. QED
    BY <1>2, <2>1, <2>2 DEF Fetch
<1>3. CASE (Readlineb \/ Peer) /\ UNCHANGED client
  <2>1. Ending' /\ Start' = Start /\ reply' = reply
    BY <1>1, <1>3, EndingStep DEF Peer
  <2>2. pc' = pc /\ page' = page
    BY <1>3 DEF client
  <2>3. PageInv'
    BY <1>1, <2>1, <2>2, SameReply DEF PageInv
  <2>4. QED
    BY <1>1, <2>1, <2>3 DEF PageIInv
<1>4. CASE UNCHANGED vars
  <2>1. UNCHANGED <<reply, taken, rio_cnt, call, line, n, pc, page>>
    BY <1>4 DEF vars, peer, rio, client
  <2>2. Given' = Given /\ Start' = Start
    BY <2>1 DEF Given, Start
  <2>3. Ending'
    BY <1>1, <2>1, <2>2 DEF Ending
  <2>4. PageInv'
    BY <1>1, <2>1, <2>2, SameReply DEF PageInv
  <2>5. QED
    BY <1>1, <2>3, <2>4 DEF PageIInv
<1>5. QED
  BY <1>2, <1>3, <1>4 DEF Next

(* The page fetch returns is the body of the reply, whatever pieces it came *)
(* in and wherever the caller's buffer cut its lines, as long as each line  *)
(* of the header fits that buffer.                                          *)
THEOREM PageIsTheBody == Spec => [](HeaderFits => PageIsBody)
<1>1. Init => PageIInv
  BY RioStart, ClientStart, EndingStart, PageStart DEF Init, IInv, PageIInv
<1>2. PageIInv => (HeaderFits => PageIsBody)
  BY DEF PageIInv, PageInv, TextBody, PageIsBody, Body
<1>3. QED
  BY <1>1, <1>2, PagePreserved, PTL DEF Spec
=============================================================================
