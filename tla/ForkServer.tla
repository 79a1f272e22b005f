----------------------------- MODULE ForkServer -----------------------------
(***************************************************************************)
(* proj4_client-servers/echo_server_multiProcess.c: the parent accepts and *)
(* forks a child for each connection.  Both hold the new socket until each *)
(* has closed it; the child also holds the listening one until it closes   *)
(* it.  Nobody waits for a child: once ended it stays a zombie and counts  *)
(* against the processes the system allows.                                *)
(***************************************************************************)
EXTENDS EchoNet

CONSTANTS
  MaxProcs,     (* children the system lets the parent have                *)
  AcceptErrors  (* whether accept() may fail                               *)

ASSUME ServerAssumption == MaxProcs \in Nat /\ AcceptErrors \in BOOLEAN

Nobody == "nobody"
Children == 1 .. MaxProcs

ASSUME NobodyAssumption == Nobody \notin Clients

VARIABLES
  parent,    (* where the parent is                                        *)
  newSockId, (* the connection its newSockId is of, Nobody once closed     *)
  forked,    (* children forked                                            *)
  child,     (* where each child is                                        *)
  sock,      (* the connection the child's newSockId is of                 *)
  listens,   (* processes that hold the listening socket, 0 for the parent *)
  msgBuffer  (* what the child's read returned: messages from .. to        *)

proc == <<parent, newSockId, forked, child, sock, listens, msgBuffer>>
vars == <<net, proc>>

Init ==
  /\ NetInit
  /\ parent = "accept" /\ newSockId = Nobody /\ forked = 0
  /\ child = [p \in Children |-> "unborn"]
  /\ sock = [p \in Children |-> Nobody]
  /\ listens = {0}
  /\ msgBuffer = [p \in Children |-> <<0, 0>>]

(* Connections can be made as long as one process holds the listening       *)
(* socket, though only the parent accepts them.                             *)
Listening(S) == listens' = S /\ up' = (S # {})

Accept ==
  /\ parent = "accept" /\ backlog # <<>>
  /\ newSockId' = Head(backlog) /\ backlog' = Tail(backlog)
  /\ parent' = "fork"
  /\ UNCHANGED <<up, client, sent, taken, printed, forked, child, sock, listens, msgBuffer>>

AcceptFails ==
  /\ AcceptErrors /\ parent = "accept"
  /\ parent' = "exited" /\ Listening(listens \ {0})
  /\ UNCHANGED <<backlog, client, sent, taken, printed, newSockId, forked, child, sock, msgBuffer>>

(* The child starts with copies of both sockets.  A fork that fails is not  *)
(* told from one that made a child.                                         *)
Fork ==
  /\ parent = "fork"
  /\ parent' = "close"
  /\ IF forked < MaxProcs
     THEN /\ forked' = forked + 1
          /\ child' = [child EXCEPT ![forked + 1] = "start"]
          /\ sock' = [sock EXCEPT ![forked + 1] = newSockId]
          /\ listens' = listens \cup {forked + 1}
     ELSE UNCHANGED <<forked, child, sock, listens>>
  /\ UNCHANGED <<net, newSockId, msgBuffer>>

KeptOpen == newSockId  (* mutant: the parent does not close its copy *)
Closed == Nobody

ParentClose ==
  /\ parent = "close"
  /\ newSockId' = Closed
  /\ parent' = "accept"
  /\ UNCHANGED <<net, forked, child, sock, listens, msgBuffer>>

-----------------------------------------------------------------------------
CloseListening(p) ==
  /\ child[p] = "start"
  /\ child' = [child EXCEPT ![p] = "read"]
  /\ Listening(listens \ {p})
  /\ UNCHANGED <<backlog, client, sent, taken, printed, parent, newSockId, forked, sock, msgBuffer>>

Read(p) ==
  /\ child[p] = "read"
  /\ \E n \in taken[sock[p]] + 1 .. sent[sock[p]] :
       /\ msgBuffer' = [msgBuffer EXCEPT ![p] = <<taken[sock[p]] + 1, n>>]
       /\ taken' = [taken EXCEPT ![sock[p]] = n]
  /\ child' = [child EXCEPT ![p] = "print"]
  /\ UNCHANGED <<up, backlog, client, sent, printed, parent, newSockId, forked, sock, listens>>

PrintMsg(p) ==
  /\ child[p] = "print"
  /\ printed' = [printed EXCEPT ![sock[p]] = @ \o Messages(msgBuffer[p][1], msgBuffer[p][2])]
  /\ child' = [child EXCEPT ![p] = "read"]
  /\ UNCHANGED <<up, backlog, client, sent, taken, parent, newSockId, forked, sock, listens, msgBuffer>>

(* read() returned 0 or -1: close and exit.  Nobody waits for the process.  *)
EndOfClient(p) == client[sock[p]] \in {"gone", "lost"}  (* mutant *)
EndOfSession(p) == ReadEnds(sock[p])

Exit(p) ==
  /\ child[p] = "read" /\ EndOfSession(p)
  /\ child' = [child EXCEPT ![p] = "zombie"]
  /\ sock' = [sock EXCEPT ![p] = Nobody]
  /\ UNCHANGED <<net, parent, newSockId, forked, listens, msgBuffer>>

Parent == Accept \/ Fork \/ ParentClose
Child(p) == CloseListening(p) \/ Read(p) \/ PrintMsg(p) \/ Exit(p)

Next ==
  \/ Parent \/ AcceptFails
  \/ \E p \in Children : Child(p)
  \/ \E c \in Clients : Client(c) /\ UNCHANGED proc

(* Every process goes on when it can; clients owe nothing. *)
Spec == Init /\ [][Next]_vars /\ WF_vars(Parent) /\ \A p \in Children : WF_vars(Child(p))

-----------------------------------------------------------------------------
TypeOK ==
  /\ NetTypeOK
  /\ parent \in {"accept", "fork", "close", "exited"}
  /\ newSockId \in Clients \cup {Nobody} /\ forked \in 0 .. MaxProcs
  /\ child \in [Children -> {"unborn", "start", "read", "print", "zombie"}]
  /\ sock \in [Children -> Clients \cup {Nobody}]
  /\ listens \subseteq {0} \cup Children
  /\ msgBuffer \in [Children -> (0 .. MaxMsgs) \X (0 .. MaxMsgs)]

Held(c) == newSockId = c \/ \E p \in Children : sock[p] = c

(* No connection outlives its session: once its child has ended and the     *)
(* parent is back in accept(), no process still holds the socket, and a     *)
(* connection never has two children reading from it.                       *)
NoSocketLeak ==
  /\ parent = "accept" =>
       \A c \in Clients : Held(c) => \E p \in Children : sock[p] = c /\ child[p] # "zombie"
  /\ \A p, q \in Children : sock[p] = sock[q] /\ sock[p] # Nobody => p = q

ServedView == [c \in Clients |-> Served(c, Held(c))]

Contract == INSTANCE EchoService WITH
  heard  <- printed,
  client <- ClientView,
  served <- ServedView
ContractSpec == Contract!Spec

(* "create a child process who will communicate with the new client": a     *)
(* connection that does not break is let go only by a child that read it to *)
(* its end.                                                                 *)
NoneDropped ==
  \A c \in Clients :
    client[c] \in {"connected", "gone"} /\ ~Waiting(c) /\ ~Held(c) =>
      Len(printed[c]) = sent[c]
=============================================================================
