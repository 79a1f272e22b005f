---------------------------- MODULE ThreadServer ----------------------------
(***************************************************************************)
(* proj4_client-servers/echo_server_multiThread.c: main accepts and starts *)
(* a thread for each connection, which reads and prints until the client   *)
(* closes it.  Threads are never joined or detached, so a thread that has  *)
(* ended still counts against the number the system allows.                *)
(***************************************************************************)
EXTENDS EchoNet

CONSTANTS
  Fds,        (* descriptors the process has for connections               *)
  MaxThreads  (* threads the system lets it create                         *)

ASSUME ServerAssumption == Fds \subseteq Nat \ {0} /\ MaxThreads \in Nat

Nobody == "nobody"
Threads == 1 .. MaxThreads

ASSUME NobodyAssumption == Nobody \notin Clients

VARIABLES
  fd,        (* the connection a descriptor is of, or Nobody               *)
  main,      (* the accept loop                                            *)
  newSockId, (* main's variable                                            *)
  created,   (* threads created                                            *)
  arg,       (* the cell malloc'ed for each thread's argument              *)
  thread,    (* where each thread is                                       *)
  sock,      (* the thread's newSockId                                     *)
  msgBuffer  (* what its read returned and it has yet to print: messages    *)
             (* of a client, from .. to; Empty behind that                  *)

proc == <<fd, main, newSockId, created, arg, thread, sock, msgBuffer>>
vars == <<net, proc>>

Empty == [of |-> Nobody, from |-> 0, to |-> 0]

Init ==
  /\ NetInit
  /\ fd = [n \in Fds |-> Nobody]
  /\ main = "accept" /\ newSockId = 0 /\ created = 0
  /\ arg = [t \in Threads |-> 0]
  /\ thread = [t \in Threads |-> "unborn"]
  /\ sock = [t \in Threads |-> 0]
  /\ msgBuffer = [t \in Threads |-> Empty]

FreeFds == {n \in Fds : fd[n] = Nobody}
Lowest(S) == CHOOSE n \in S : \A m \in S : n <= m

(* accept(): the kernel gives out the lowest free descriptor. *)
Accept ==
  /\ main = "accept" /\ backlog # <<>> /\ FreeFds # {}
  /\ newSockId' = Lowest(FreeFds)
  /\ fd' = [fd EXCEPT ![newSockId'] = Head(backlog)]
  /\ backlog' = Tail(backlog)
  /\ main' = "create"
  /\ UNCHANGED <<up, client, sent, taken, printed, created, arg, thread, sock, msgBuffer>>

(* exit(), from main or from TermHandler: all threads and descriptors go. *)
Exit ==
  /\ main' = "exited" /\ up' = FALSE
  /\ fd' = [n \in Fds |-> Nobody]
  /\ thread' = [t \in Threads |-> IF thread[t] = "unborn" THEN "unborn" ELSE "done"]
  /\ UNCHANGED <<backlog, client, sent, taken, printed, newSockId, created, arg, sock, msgBuffer>>

AcceptFails ==
  /\ main = "accept" /\ backlog # <<>> /\ FreeFds = {}
  /\ Exit

TermHandler == main # "exited" /\ Exit

(* pthread_create with a cell of its own for the argument.  Its result is   *)
(* not looked at: without a thread the descriptor stays open and unread.    *)
ArgShared == [t \in Threads |-> newSockId]  (* mutant: &newSockId *)
Args == [arg EXCEPT ![created + 1] = newSockId]

CreateThread ==
  /\ main = "create"
  /\ main' = "accept"
  /\ IF created < MaxThreads
     THEN /\ created' = created + 1
          /\ arg' = Args
          /\ thread' = [thread EXCEPT ![created + 1] = "start"]
     ELSE UNCHANGED <<created, arg, thread>>
  /\ UNCHANGED <<net, fd, newSockId, sock, msgBuffer>>

-----------------------------------------------------------------------------
(* ProcessClient *)
StartThread(t) ==
  /\ thread[t] = "start"
  /\ sock' = [sock EXCEPT ![t] = arg[t]]
  /\ thread' = [thread EXCEPT ![t] = "read"]
  /\ UNCHANGED <<net, fd, main, newSockId, created, arg, msgBuffer>>

Conn(t) == fd[sock[t]]

Read(t) ==
  /\ thread[t] = "read" /\ Conn(t) # Nobody
  /\ \E n \in taken[Conn(t)] + 1 .. sent[Conn(t)] :
       /\ msgBuffer' = [msgBuffer EXCEPT
            ![t] = [of |-> Conn(t), from |-> taken[Conn(t)] + 1, to |-> n]]
       /\ taken' = [taken EXCEPT ![Conn(t)] = n]
  /\ thread' = [thread EXCEPT ![t] = "print"]
  /\ UNCHANGED <<up, backlog, client, sent, printed, fd, main, newSockId, created, arg, sock>>

PrintMsg(t) ==
  /\ thread[t] = "print"
  /\ LET b == msgBuffer[t]
     IN  printed' = [printed EXCEPT ![b.of] = @ \o Messages(b.from, b.to)]
  /\ msgBuffer' = [msgBuffer EXCEPT ![t] = Empty]
  /\ thread' = [thread EXCEPT ![t] = "read"]
  /\ UNCHANGED <<up, backlog, client, sent, taken, fd, main, newSockId, created, arg, sock>>

(* read() returned 0, or -1: on a connection that broke, or a descriptor     *)
(* closed meanwhile.                                                         *)
EndOfClient(t) ==  (* mutant *)
  Conn(t) = Nobody \/ client[Conn(t)] \in {"gone", "lost"}
EndOfSession(t) == Conn(t) = Nobody \/ ReadEnds(Conn(t))
Close(t) ==
  /\ thread[t] = "read" /\ EndOfSession(t)
  /\ fd' = [fd EXCEPT ![sock[t]] = Nobody]
  /\ thread' = [thread EXCEPT ![t] = "done"]
  /\ UNCHANGED <<net, main, newSockId, created, arg, sock, msgBuffer>>

Thread(t) == StartThread(t) \/ Read(t) \/ PrintMsg(t) \/ Close(t)

Main == Accept \/ AcceptFails \/ CreateThread

Next ==
  \/ Main \/ TermHandler
  \/ \E t \in Threads : Thread(t)
  \/ \E c \in Clients : Client(c) /\ UNCHANGED proc

(* main and every thread go on when they can; clients owe nothing. *)
Spec == Init /\ [][Next]_vars /\ WF_vars(Main) /\ \A t \in Threads : WF_vars(Thread(t))

-----------------------------------------------------------------------------
TypeOK ==
  /\ NetTypeOK
  /\ fd \in [Fds -> Clients \cup {Nobody}]
  /\ main \in {"accept", "create", "exited"} /\ newSockId \in Fds \cup {0}
  /\ created \in 0 .. MaxThreads /\ arg \in [Threads -> Fds \cup {0}]
  /\ thread \in [Threads -> {"unborn", "start", "read", "print", "done"}]
  /\ sock \in [Threads -> Fds \cup {0}]
  /\ msgBuffer \in [Threads -> [of : Clients \cup {Nobody}, from : 0 .. MaxMsgs, to : 0 .. MaxMsgs]]

(* The descriptor a thread works on, or is about to.                        *)
Working(t) == thread[t] \in {"start", "read", "print"}
SocketOf(t) == IF thread[t] = "start" THEN arg[t] ELSE sock[t]

(* A thread reads its argument after main has gone on to accept, and a      *)
(* descriptor is given out again once closed: still no two threads ever     *)
(* work on one connection, nor any on a descriptor that is not open.        *)
OneThreadPerConnection ==
  /\ \A t \in Threads : Working(t) => fd[SocketOf(t)] # Nobody
  /\ \A t, u \in Threads : Working(t) /\ Working(u) /\ SocketOf(t) = SocketOf(u) => t = u

(* The server is an echo service while it can create the threads it needs.  *)
Held(c) == \E n \in Fds : fd[n] = c
ServedView == [c \in Clients |-> Served(c, Held(c))]

Contract == INSTANCE EchoService WITH
  heard  <- printed,
  client <- ClientView,
  served <- ServedView
ContractSpec == Contract!Spec

=============================================================================
