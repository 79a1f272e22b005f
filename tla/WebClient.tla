------------------------------ MODULE WebClient ------------------------------
(***************************************************************************)
(* proj3_web_crawler/web_tester.c and client.c: a client that opens a      *)
(* connection, sends a request and reads the reply through Rio, header     *)
(* line by header line and then the body, which grab_page collects in a    *)
(* page that it lets grow.                                                 *)
(***************************************************************************)
EXTENDS Rio

CONSTANT REQUEST  (* bytes of the request *)

ASSUME ClientAssumption == REQUEST \in Nat \ {0}

VARIABLES
  pc,        (* where fetch is                                             *)
  written,   (* bytes of the request that write() has taken                *)
  page,      (* what is in the page up to its '\0', by position            *)
  page_len   (* bytes of memory it has                                     *)

client == <<pc, written, page, page_len>>
vars == <<peer, rio, client>>

Init ==
  /\ RioInit
  /\ pc = "open" /\ written = 0 /\ page = <<>> /\ page_len = 1

(* Open_clientfd, which exits when it fails. *)
Open ==
  /\ pc = "open"
  /\ pc' \in {"send", "exited"}
  /\ UNCHANGED <<peer, rio, written, page, page_len>>

(* rio_writen: write() takes some of the bytes that are left, or fails; an  *)
(* interrupted one changes nothing.                                         *)
Write ==
  /\ pc = "send" /\ written < REQUEST
  /\ written' \in written + 1 .. REQUEST
  /\ UNCHANGED <<peer, rio, pc, page, page_len>>

WriteFails ==
  /\ pc = "send" /\ written < REQUEST
  /\ pc' = "exited"
  /\ UNCHANGED <<peer, rio, written, page, page_len>>

Sent ==
  /\ pc = "send" /\ written = REQUEST
  /\ pc' = "header" /\ Call
  /\ UNCHANGED <<peer, written, page, page_len>>

(* The loop over the header, up to the empty line or the end of the reply.  *)
Text(l) == [k \in DOMAIN l |-> reply[l[k]]]
BareNewline(l) == Text(l) = <<"lf">>  (* mutant *)
EmptyLine(l) == Text(l) = <<"cr", "lf">>

HeaderLine ==
  /\ pc = "header" /\ call = "returned"
  /\ pc' = IF ~EmptyLine(line) /\ n > 0 THEN "header" ELSE "body"
  /\ Call
  /\ UNCHANGED <<peer, written, page, page_len>>

(* The loop over the body: room for n more bytes, and sprintf("%s"), which  *)
(* copies up to a '\0'.                                                     *)
IsStrlen(l, len) ==
  /\ \A k \in 1 .. len : reply[l[k]] # "nul"
  /\ len < Len(l) => reply[l[len + 1]] = "nul"

GrownWithoutEnd == IF Len(page) + n > page_len THEN page_len + n ELSE page_len  (* mutant *)
Grown == IF Len(page) + n + 1 > page_len THEN page_len + n ELSE page_len

BodyLine ==
  /\ pc = "body" /\ call = "returned" /\ n > 0
  /\ page_len' = Grown
  /\ \E len \in 0 .. Len(line) :
       IsStrlen(line, len) /\ page' = page \o SubSeq(line, 1, len)
  /\ Call
  /\ UNCHANGED <<peer, pc, written>>

(* The assertions on the memory of the page: of its first byte, when the    *)
(* header has come to its end, and when it grows.                           *)
NoMemory ==
  /\ call = "returned"
  /\ \/ pc = "header" /\ (EmptyLine(line) \/ n <= 0)
     \/ pc = "body" /\ n > 0 /\ Grown > page_len
  /\ pc' = "exited"
  /\ UNCHANGED <<peer, rio, written, page, page_len>>

Done ==
  /\ pc = "body" /\ call = "returned" /\ n = 0
  /\ pc' = "done"
  /\ UNCHANGED <<peer, rio, written, page, page_len>>

Peer == written = REQUEST /\ (Deliver \/ PeerCloses)
Fetch == Open \/ Write \/ WriteFails \/ Sent \/ HeaderLine \/ BodyLine \/ Done

Next ==
  \/ Fetch \/ NoMemory
  \/ Readlineb /\ UNCHANGED client
  \/ Peer /\ UNCHANGED client

(* The client runs when it can; it may be interrupted but not for ever, and *)
(* the peer owes it nothing.  That there is no memory is not relied on.     *)
Spec == Init /\ [][Next]_vars
FairSpec == Spec /\ WF_vars(Fetch) /\ WF_vars(Reading /\ UNCHANGED client)

-----------------------------------------------------------------------------
TypeOK ==
  /\ RioTypeOK
  /\ pc \in {"open", "send", "header", "body", "done", "exited"}
  /\ written \in 0 .. REQUEST
  /\ page \in Seq(1 .. Len(reply)) /\ page_len \in Nat \ {0}

(* sprintf writes the line and its '\0' inside the page, though n counts    *)
(* one byte more than was read of the last line and of one that fills buf.  *)
PageFits == Len(page) < page_len

(* The body is what follows the first empty line. *)
EmptyLineEnds(k) ==
  /\ k > 1 /\ reply[k] = "lf" /\ reply[k - 1] = "cr"
  /\ k = 2 \/ reply[k - 2] = "lf"

BodyStart ==
  IF \E k \in DOMAIN reply : EmptyLineEnds(k)
  THEN CHOOSE k \in DOMAIN reply : EmptyLineEnds(k) /\ \A j \in 1 .. k - 1 : ~EmptyLineEnds(j)
  ELSE Len(reply)

(* A header line that fills the caller's buffer is cut, and its rest would  *)
(* be taken for a line.                                                     *)
HeaderFits ==
  \A i \in 0 .. BodyStart - 1 : i = 0 \/ reply[i] = "lf" =>
    \E j \in DOMAIN reply : i < j /\ j < i + MAXBUF /\ reply[j] = "lf"

(* The page fetch returns is the body of the reply, if there is one and it  *)
(* is text, however the reply was cut up on its way.  Without a body the    *)
(* page is a byte nobody has written to.                                    *)
PageIsBody ==
  pc = "done" /\ BodyStart < Len(reply) /\ (\A k \in DOMAIN reply : reply[k] # "nul") =>
    page = [k \in 1 .. Len(reply) - BodyStart |-> BodyStart + k]

(* Once the peer has closed the connection the client comes to its end.     *)
ReplyEnds == ended ~> pc \in {"done", "exited"} \/ call = "exited"
=============================================================================
