--------------------------------- MODULE Rio ---------------------------------
(***************************************************************************)
(* proj3_web_crawler/cs537.c: the buffered reader of the Rio package, from *)
(* the socket the bytes of a reply arrive at to the line rio_readlineb     *)
(* returns.  The bytes of the reply are its positions, so that a byte lost,*)
(* repeated or out of place shows; reply tells their kind.                 *)
(***************************************************************************)
EXTENDS Integers, Sequences

CONSTANTS
  RIO_BUFSIZE,  (* bytes of rio_buf                                        *)
  MAXBUF,       (* bytes of the caller's buffer                            *)
  Replies       (* what the peer may send                                  *)

Chars == {"x", "cr", "lf", "nul"}  (* "x" is any other one *)

ASSUME RioAssumption ==
  RIO_BUFSIZE \in Nat \ {0} /\ MAXBUF \in Nat \ {0, 1} /\ Replies \subseteq Seq(Chars)

VARIABLES
  reply,       (* what the peer sends, fixed                               *)
  arrived,     (* bytes of it that have reached the socket                 *)
  ended,       (* the peer has closed the connection                       *)
  taken,       (* bytes read() has returned                                *)
  rio_buf, rio_bufptr, rio_cnt,
  call,        (* rio_readlineb: "none", "reading", "returned", or         *)
               (* "exited" through unix_error                              *)
  line,        (* what it has put in the caller's buffer                   *)
  n            (* what it returned                                         *)

peer == <<reply, arrived, ended>>
rio == <<taken, rio_buf, rio_bufptr, rio_cnt, call, line, n>>

RioInit ==
  /\ reply \in Replies
  /\ arrived = 0 /\ ended = FALSE /\ taken = 0
  /\ rio_buf = [k \in 1 .. RIO_BUFSIZE |-> 0] /\ rio_bufptr = 1 /\ rio_cnt = 0
  /\ call = "none" /\ line = <<>> /\ n = 0

(* The peer: bytes arrive one by one, and it closes after the last one if   *)
(* ever.                                                                    *)
Deliver ==
  /\ ~ended /\ arrived < Len(reply)
  /\ arrived' = arrived + 1
  /\ UNCHANGED <<reply, ended, rio>>

PeerCloses ==
  /\ ~ended /\ arrived = Len(reply)
  /\ ended' = TRUE
  /\ UNCHANGED <<reply, arrived, rio>>

-----------------------------------------------------------------------------
(* Rio_readlineb is called, again. *)
Call == call' = "reading" /\ line' = <<>> /\ UNCHANGED <<taken, rio_buf, rio_bufptr, rio_cnt, n>>

(* rio_read finds its buffer empty: read() returns some of the bytes there  *)
(* are, is interrupted by a signal, or fails for good.                      *)
NeedsData == call = "reading" /\ rio_cnt <= 0

FirstByte == rio_bufptr  (* mutant: the pointer is not reset *)
BufferStart == 1

Refill ==
  /\ NeedsData
  /\ rio_cnt' \in 1 .. RIO_BUFSIZE /\ taken + rio_cnt' <= arrived
  /\ taken' = taken + rio_cnt'
  /\ rio_buf' = [k \in 1 .. RIO_BUFSIZE |-> IF k <= rio_cnt' THEN taken + k ELSE rio_buf[k]]
  /\ rio_bufptr' = BufferStart
  /\ UNCHANGED <<peer, call, line, n>>

Interrupted ==
  /\ NeedsData
  /\ rio_cnt' = -1
  /\ UNCHANGED <<peer, taken, rio_buf, rio_bufptr, call, line, n>>

ReadFails ==
  /\ NeedsData
  /\ rio_cnt' = -1 /\ n' = -1 /\ call' = "exited"
  /\ UNCHANGED <<peer, taken, rio_buf, rio_bufptr, line>>

(* read() returns 0.  What is there of a line is returned with its length   *)
(* and one more.                                                            *)
CountedOneMore == Len(line) + 1  (* mutant *)
CountAtEof == IF line = <<>> THEN 0 ELSE Len(line) + 1

EndOfFile ==
  /\ NeedsData
  /\ ended /\ taken = arrived
  /\ rio_cnt' = 0
  /\ n' = CountAtEof
  /\ call' = "returned"
  /\ UNCHANGED <<peer, taken, rio_buf, rio_bufptr, line>>

(* One turn of rio_readlineb's loop: a byte from the buffer.  A line that   *)
(* fills the caller's buffer is returned with its length and one more, too. *)
Complete(l) == reply[l[Len(l)]] = "lf"
FullLate(l) == Len(l) = MAXBUF  (* mutant: no room left for the '\0' *)
FullEarly(l) == Len(l) + 2 >= MAXBUF  (* mutant *)
Full(l) == Len(l) = MAXBUF - 1

CopyChar ==
  /\ call = "reading" /\ rio_cnt > 0
  /\ line' = Append(line, rio_buf[rio_bufptr])
  /\ rio_bufptr' = rio_bufptr + 1 /\ rio_cnt' = rio_cnt - 1
  /\ \/ /\ Complete(line')
        /\ n' = Len(line') /\ call' = "returned"
     \/ /\ ~Complete(line') /\ Full(line')
        /\ n' = MAXBUF /\ call' = "returned"
     \/ /\ ~Complete(line') /\ ~Full(line')
        /\ UNCHANGED <<n, call>>
  /\ UNCHANGED <<peer, taken, rio_buf>>

Reading == Refill \/ EndOfFile \/ CopyChar
Readlineb == Reading \/ Interrupted \/ ReadFails

-----------------------------------------------------------------------------
(* Bytes of the reply given to the caller. *)
Given == IF rio_cnt > 0 THEN taken - rio_cnt ELSE taken

RioTypeOK ==
  /\ reply \in Replies /\ arrived \in 0 .. Len(reply) /\ ended \in BOOLEAN
  /\ taken \in 0 .. arrived
  /\ rio_buf \in [1 .. RIO_BUFSIZE -> 0 .. Len(reply)]
  /\ rio_cnt \in -1 .. RIO_BUFSIZE /\ rio_bufptr \in 1 .. RIO_BUFSIZE + 1
  /\ call \in {"none", "reading", "returned", "exited"}
  /\ line \in Seq(1 .. Len(reply)) /\ Len(line) < MAXBUF
  /\ n \in -1 .. MAXBUF

InLine == \A k \in DOMAIN line : line[k] = Given - Len(line) + k
InBuffer ==
  \A k \in 1 .. rio_cnt :
    /\ rio_bufptr + k - 1 \in DOMAIN rio_buf
    /\ rio_buf[rio_bufptr + k - 1] = Given + k

(* Nothing of the stream is lost, repeated or reordered between the socket  *)
(* and the caller: the line is the last bytes given, and the buffer's       *)
(* unread part, which lies inside rio_buf, holds the bytes that follow.     *)
StreamInOrder == InLine /\ InBuffer

(* The lines are those of the stream, whatever sizes read() returned.       *)
Lines == INSTANCE LineReader WITH
  given    <- IF call = "returned" THEN line ELSE <<>>,
  consumed <- IF call = "returned" THEN Given ELSE Given - Len(line)
LinesSpec == Lines!Spec
=============================================================================
