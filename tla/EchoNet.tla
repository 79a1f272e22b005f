------------------------------- MODULE EchoNet -------------------------------
(***************************************************************************)
(* What the echo servers share: proj4_client-servers/echo_client.c and the *)
(* part of the kernel between it and a server.  A message is a piece of    *)
(* text: the client writes one or more of them at a time, the kernel keeps *)
(* them in order, and a read takes one or more, however they were written. *)
(***************************************************************************)
EXTENDS Integers, Sequences, FiniteSets

CONSTANTS
  Clients,
  Frail,      (* the clients whose connection may break                    *)
  MaxMsgs,    (* messages on a client's stdin                              *)
  QUEUE_LIM   (* connections the listening socket keeps waiting            *)

ASSUME NetAssumption == MaxMsgs \in Nat /\ QUEUE_LIM \in Nat \ {0}

VARIABLES
  up,       (* a server is listening                                       *)
  backlog,  (* connections not yet accepted                                *)
  client,   (* each client's process, or "lost"                            *)
  sent,     (* messages it has written                                     *)
  taken,    (* messages a server has read                                  *)
  printed   (* messages a server has printed, in order                     *)

net == <<up, backlog, client, sent, taken, printed>>

NetInit ==
  /\ up = TRUE /\ backlog = <<>>
  /\ client = [c \in Clients |-> "start"]
  /\ sent = [c \in Clients |-> 0] /\ taken = [c \in Clients |-> 0]
  /\ printed = [c \in Clients |-> <<>>]

NetTypeOK ==
  /\ up \in BOOLEAN /\ backlog \in Seq(Clients) /\ Len(backlog) <= QUEUE_LIM
  /\ client \in [Clients -> {"start", "connected", "refused", "gone", "lost"}]
  /\ sent \in [Clients -> 0 .. MaxMsgs] /\ taken \in [Clients -> 0 .. MaxMsgs]
  /\ printed \in [Clients -> Seq(1 .. MaxMsgs)]

(* connect(): the kernel completes it once the connection is in the queue,  *)
(* and refuses it when nobody listens.                                      *)
Connect(c) ==
  /\ client[c] = "start"
  /\ \/ /\ up /\ Len(backlog) < QUEUE_LIM
        /\ backlog' = Append(backlog, c)
        /\ client' = [client EXCEPT ![c] = "connected"]
     \/ /\ ~up
        /\ client' = [client EXCEPT ![c] = "refused"]
        /\ UNCHANGED backlog
  /\ UNCHANGED <<up, sent, taken, printed>>

(* A line of stdin is written.  At the end of stdin the client writes empty *)
(* messages for ever, which nobody sees: it never closes the connection.    *)
Write(c) ==
  /\ client[c] = "connected"
  /\ \E n \in sent[c] + 1 .. MaxMsgs : sent' = [sent EXCEPT ![c] = n]
  /\ UNCHANGED <<up, backlog, client, taken, printed>>

(* The client is killed, by its user or by a write to a closed connection.  *)
Killed(c) ==
  /\ client[c] = "connected"
  /\ client' = [client EXCEPT ![c] = "gone"]
  /\ UNCHANGED <<up, backlog, sent, taken, printed>>

(* The connection breaks, now or once the client has left: nothing more     *)
(* arrives, and read() may fail from here on, whatever is still to be read. *)
Breaks(c) ==
  /\ c \in Frail /\ client[c] \in {"connected", "gone"}
  /\ client' = [client EXCEPT ![c] = "lost"]
  /\ UNCHANGED <<up, backlog, sent, taken, printed>>

Client(c) == Connect(c) \/ Write(c) \/ Killed(c) \/ Breaks(c)

-----------------------------------------------------------------------------
(* What a server prints of a buffer that holds messages a to b: the bytes   *)
(* up to the '\0' it puts behind what read() returned.                      *)
MessagesUnended(a, b) == [k \in 1 .. b - a + 2 |-> a + k - 1]  (* mutant *)
Messages(a, b) == [k \in 1 .. b - a + 1 |-> a + k - 1]

Readable(c) == taken[c] < sent[c]
Eof(c) == taken[c] = sent[c] /\ client[c] = "gone"

(* read() returned 0, or -1: the code tells neither from the other.         *)
ReadEnds(c) == Eof(c) \/ client[c] = "lost"

(* A connection, when held says whether the server has a descriptor of it.  *)
Waiting(c) == \E k \in DOMAIN backlog : backlog[k] = c
Served(c, held) ==
  CASE held -> "yes"
    [] ~held /\ (client[c] \in {"start", "refused"} \/ Waiting(c)) -> "no"
    [] OTHER -> "over"
ClientState(c) == IF client[c] = "refused" THEN "gone" ELSE client[c]
ClientView == [c \in Clients |-> ClientState(c)]
=============================================================================
