------------------------- MODULE ThreadServerProofs -------------------------
(***************************************************************************)
(* Proofs about ThreadServer: no two threads meet on a descriptor, and it  *)
(* implements the safety of EchoService, for every number of clients,      *)
(* messages, descriptors and threads.                                      *)
(***************************************************************************)
EXTENDS ThreadServer, EchoNetProofs, WellFoundedInduction

(* A thread works on a descriptor that is open, and on no other thread's.   *)
SocketsOpen == \A t \in Threads : Working(t) => SocketOf(t) \in Fds /\ fd[SocketOf(t)] # Nobody
SocketsApart ==
  \A t, u \in Threads : Working(t) /\ Working(u) /\ SocketOf(t) = SocketOf(u) => t = u

(* The descriptor main has just been given is nobody's yet.                 *)
MainSock ==
  main = "create" =>
    /\ newSockId \in Fds /\ fd[newSockId] # Nobody
    /\ \A t \in Threads : Working(t) => SocketOf(t) # newSockId

Uncreated == \A t \in Threads : created < t => thread[t] = "unborn"

Filled == \A t \in Threads : thread[t] = "print" =>
  msgBuffer[t].of \in Clients /\ msgBuffer[t].from \in 1 .. MaxMsgs

IInv ==
  TypeOK /\ NetInv /\ SocketsOpen /\ SocketsApart /\ MainSock /\ Uncreated /\ Filled

LEMMA HasLeast ==
  ASSUME NEW T, T \subseteq Nat, T # {}
  PROVE  \E x \in T : \A y \in T : x <= y
<1>1. PICK x \in T : \A y \in T : ~(<<y, x>> \in OpToRel(<, Nat))
  BY NatLessThanWellFounded, WFMin, Zenon
<1>2. \A y \in T : ~(y < x)
  BY <1>1, Zenon DEF OpToRel
<1> QED
  BY <1>2

LEMMA InitInv == Init => IInv
<1> SUFFICES ASSUME Init PROVE IInv
  OBVIOUS
<1>1. NetInv
  BY NetInitInv DEF Init
<1>2. TypeOK
  BY <1>1, NetAssumption, ServerAssumption DEF Init, TypeOK, NetInv, Empty
<1>3. \A t \in Threads : ~Working(t)
  BY DEF Init, Working
<1> QED
  BY <1>1, <1>2, <1>3 DEF Init, IInv, SocketsOpen, SocketsApart, MainSock, Uncreated, Filled

LEMMA ClientInv ==
  ASSUME IInv, NEW c \in Clients, Client(c), UNCHANGED proc
  PROVE  IInv'
<1>1. NetInv' /\ NetTypeOK'
  BY ClientStep DEF IInv, NetInv
<1>2. TypeOK'
  BY <1>1 DEF IInv, TypeOK, proc
<1> QED
  BY <1>1, <1>2 DEF IInv, SocketsOpen, SocketsApart, MainSock, Uncreated, Filled,
                    Working, SocketOf, proc

LEMMA AcceptInv == IInv /\ Accept => IInv'
<1> SUFFICES ASSUME IInv, Accept PROVE IInv'
  OBVIOUS
<1>1. PICK c, n : c = Head(backlog) /\ n = Lowest(FreeFds)
  OBVIOUS
<1>2. NetInv' /\ NetTypeOK' /\ c \in Clients /\ c # Nobody
  BY <1>1, AcceptStep, NobodyAssumption DEF IInv, Accept, AcceptEffect, NetInv
<1>3. n \in FreeFds
  <2>1. FreeFds \subseteq Nat /\ FreeFds # {}
    BY ServerAssumption DEF Accept, FreeFds
  <2>2. \E x \in FreeFds : \A y \in FreeFds : x <= y
    BY <2>1, HasLeast
  <2> QED
    BY <1>1, <2>2 DEF Lowest
<1>4. n \in Fds /\ fd[n] = Nobody /\ fd \in [Fds -> Clients \cup {Nobody}]
  BY <1>3 DEF FreeFds, IInv, TypeOK
<1>5. /\ newSockId' = n /\ fd' = [fd EXCEPT ![n] = c] /\ main' = "create"
      /\ UNCHANGED <<created, arg, thread, sock, msgBuffer>>
  BY <1>1 DEF Accept
<1>6. fd' \in [Fds -> Clients \cup {Nobody}] /\ fd'[n] # Nobody
      /\ \A m \in Fds : m # n => fd'[m] = fd[m]
  BY <1>2, <1>4, <1>5
<1>7. TypeOK'
  BY <1>2, <1>4, <1>5, <1>6 DEF IInv, TypeOK
<1>8. \A t \in Threads : Working(t) => SocketOf(t) \in Fds /\ SocketOf(t) # n
  BY <1>4 DEF IInv, SocketsOpen
<1>9. \A t \in Threads : (Working(t)' <=> Working(t)) /\ SocketOf(t)' = SocketOf(t)
  BY <1>5 DEF Working, SocketOf
<1>10. SocketsOpen' /\ SocketsApart' /\ MainSock'
  BY <1>4, <1>5, <1>6, <1>8, <1>9 DEF IInv, SocketsOpen, SocketsApart, MainSock
<1> QED
  BY <1>2, <1>5, <1>7, <1>10 DEF IInv, Uncreated, Filled

LEMMA ExitInv == IInv /\ Exit => IInv'
<1> SUFFICES ASSUME IInv, Exit PROVE IInv'
  OBVIOUS
<1>1. NetInv' /\ NetTypeOK'
  BY DEF Exit, IInv, NetInv, NetTypeOK
<1>2. \A t \in Threads : thread'[t] = IF thread[t] = "unborn" THEN "unborn" ELSE "done"
  BY DEF Exit
<1>3. TypeOK'
  BY <1>1 DEF Exit, IInv, TypeOK
<1>4. \A t \in Threads : ~Working(t)'
  BY <1>2 DEF Working
<1> QED
  BY <1>1, <1>2, <1>3, <1>4
  DEF Exit, IInv, SocketsOpen, SocketsApart, MainSock, Uncreated, Filled

LEMMA CreateThreadInv == IInv /\ CreateThread => IInv'
<1> SUFFICES ASSUME IInv, CreateThread PROVE IInv'
  OBVIOUS
<1> USE ServerAssumption
<1>1. UNCHANGED <<net, fd, newSockId, sock, msgBuffer>> /\ main = "create" /\ main' = "accept"
  BY DEF CreateThread
<1>2. NetInv' /\ NetTypeOK'
  BY <1>1 DEF IInv, NetInv, NetTypeOK, net
<1>3. CASE UNCHANGED <<created, arg, thread>>
  BY <1>1, <1>2, <1>3 DEF IInv, TypeOK, SocketsOpen, SocketsApart, MainSock, Uncreated, Filled,
                          Working, SocketOf
<1>4. CASE /\ created < MaxThreads /\ created' = created + 1 /\ arg' = Args
           /\ thread' = [thread EXCEPT ![created + 1] = "start"]
  <2>1. PICK n : n = created + 1
    OBVIOUS
  <2>2. /\ n \in Threads /\ created \in Nat /\ created < n /\ created' = n
        /\ arg' = [arg EXCEPT ![n] = newSockId] /\ thread' = [thread EXCEPT ![n] = "start"]
        /\ thread \in [Threads -> {"unborn", "start", "read", "print", "done"}]
        /\ arg \in [Threads -> Fds \cup {0}] /\ newSockId \in Fds
    BY <1>1, <1>4, <2>1 DEF IInv, TypeOK, Threads, Args, MainSock
  <2>3. TypeOK'
    BY <1>1, <1>2, <1>4, <2>2 DEF IInv, TypeOK
  <2>4. /\ thread'[n] = "start" /\ arg'[n] = newSockId
        /\ \A t \in Threads \ {n} : thread'[t] = thread[t] /\ arg'[t] = arg[t]
    BY <2>2
  <2>5. SocketOf(n)' = newSockId
    BY <2>4 DEF SocketOf
  <2>6. \A t \in Threads \ {n} : (Working(t)' <=> Working(t)) /\ SocketOf(t)' = SocketOf(t)
    BY <1>1, <2>4 DEF Working, SocketOf
  <2>7. SocketsOpen' /\ SocketsApart'
    BY <1>1, <2>2, <2>5, <2>6 DEF IInv, SocketsOpen, SocketsApart, MainSock
  <2>8. Uncreated'
    <3>1. \A t \in Threads : n < t => created < t /\ t # n
      BY <2>2 DEF Threads
    <3> QED
      BY <2>2, <2>4, <3>1 DEF IInv, Uncreated
  <2>9. Filled'
    BY <1>1, <2>2 DEF IInv, Filled
  <2> QED
    BY <1>1, <1>2, <2>3, <2>7, <2>8, <2>9 DEF IInv, MainSock
<1> QED
  BY <1>3, <1>4 DEF CreateThread

-----------------------------------------------------------------------------
LEMMA StartThreadInv ==
  ASSUME IInv, NEW t \in Threads, StartThread(t)
  PROVE  IInv'
<1>1. /\ UNCHANGED <<net, fd, main, newSockId, created, arg, msgBuffer>>
      /\ thread[t] = "start" /\ thread' = [thread EXCEPT ![t] = "read"]
      /\ sock' = [sock EXCEPT ![t] = arg[t]]
  BY DEF StartThread
<1>2. NetInv' /\ NetTypeOK'
  BY <1>1 DEF IInv, NetInv, NetTypeOK, net
<1>3. TypeOK'
  BY <1>1, <1>2 DEF IInv, TypeOK
<1>4. \A u \in Threads : (Working(u)' <=> Working(u)) /\ SocketOf(u)' = SocketOf(u)
  BY <1>1 DEF IInv, TypeOK, Working, SocketOf
<1>5. SocketsOpen' /\ SocketsApart' /\ MainSock'
  BY <1>1, <1>4 DEF IInv, SocketsOpen, SocketsApart, MainSock
<1>6. Uncreated' /\ Filled'
  BY <1>1 DEF IInv, TypeOK, Uncreated, Filled
<1> QED
  BY <1>2, <1>3, <1>5, <1>6 DEF IInv

(* A thread goes from read to print or back: it keeps its descriptor. *)
LEMMA KeepsSocket ==
  ASSUME IInv, NEW t \in Threads, thread[t] \in {"read", "print"},
         thread' \in {[thread EXCEPT ![t] = "print"], [thread EXCEPT ![t] = "read"]},
         UNCHANGED <<fd, main, newSockId, created, arg, sock>>
  PROVE  SocketsOpen' /\ SocketsApart' /\ MainSock' /\ Uncreated'
<1>1. \A u \in Threads : (Working(u)' <=> Working(u)) /\ SocketOf(u)' = SocketOf(u)
  BY DEF IInv, TypeOK, Working, SocketOf
<1>2. Uncreated'
  BY DEF IInv, TypeOK, Uncreated
<1> QED
  BY <1>1, <1>2 DEF IInv, SocketsOpen, SocketsApart, MainSock

LEMMA ReadInv ==
  ASSUME IInv, NEW t \in Threads, Read(t)
  PROVE  IInv'
<1> USE NetAssumption
<1>1. PICK c, n : /\ c = Conn(t) /\ n \in taken[c] + 1 .. sent[c]
                  /\ msgBuffer' = [msgBuffer EXCEPT
                                     ![t] = [of |-> c, from |-> taken[c] + 1, to |-> n]]
                  /\ taken' = [taken EXCEPT ![c] = n]
  BY DEF Read
<1>2. /\ UNCHANGED <<up, backlog, client, sent, printed, fd, main, newSockId, created, arg, sock>>
      /\ thread[t] = "read" /\ thread' = [thread EXCEPT ![t] = "print"]
      /\ Conn(t) # Nobody
  BY DEF Read
<1>3. c \in Clients
  BY <1>1, <1>2 DEF IInv, TypeOK, SocketsOpen, Working, SocketOf, Conn
<1>4. /\ taken[c] \in 0 .. MaxMsgs /\ sent[c] \in 0 .. MaxMsgs
      /\ taken \in [Clients -> 0 .. MaxMsgs]
  BY <1>3 DEF IInv, NetInv, NetTypeOK
<1>5. n \in 0 .. MaxMsgs /\ taken[c] + 1 \in 1 .. MaxMsgs /\ taken[c] + 1 \in 0 .. MaxMsgs
  BY <1>1, <1>4
<1>6. NetTypeOK' /\ NetInv'
  <2>1. taken' \in [Clients -> 0 .. MaxMsgs]
    BY <1>1, <1>4, <1>5, Zenon
  <2> QED
    BY <1>2, <2>1 DEF IInv, NetInv, NetTypeOK
<1>7. msgBuffer' \in [Threads -> [of : Clients \cup {Nobody}, from : 0 .. MaxMsgs, to : 0 .. MaxMsgs]]
  <2>1. [of |-> c, from |-> taken[c] + 1, to |-> n]
          \in [of : Clients \cup {Nobody}, from : 0 .. MaxMsgs, to : 0 .. MaxMsgs]
    BY <1>3, <1>5
  <2> QED
    BY <1>1, <2>1, Zenon DEF IInv, TypeOK
<1>8. TypeOK'
  BY <1>2, <1>6, <1>7 DEF IInv, TypeOK
<1>9. Filled'
  <2>1. msgBuffer'[t] = [of |-> c, from |-> taken[c] + 1, to |-> n]
        /\ \A u \in Threads \ {t} : msgBuffer'[u] = msgBuffer[u] /\ thread'[u] = thread[u]
    BY <1>1, <1>2 DEF IInv, TypeOK
  <2> QED
    BY <2>1, <1>3, <1>5 DEF IInv, Filled
<1>10. SocketsOpen' /\ SocketsApart' /\ MainSock' /\ Uncreated'
  BY <1>2, KeepsSocket
<1> QED
  BY <1>6, <1>8, <1>9, <1>10 DEF IInv

LEMMA PrintMsgInv ==
  ASSUME IInv, NEW t \in Threads, PrintMsg(t)
  PROVE  IInv'
<1>1. PICK c, a, b : c = msgBuffer[t].of /\ a = msgBuffer[t].from /\ b = msgBuffer[t].to
  OBVIOUS
<1>2. /\ UNCHANGED <<up, backlog, client, sent, taken, fd, main, newSockId, created, arg, sock>>
      /\ msgBuffer' = [msgBuffer EXCEPT ![t] = Empty]
      /\ thread[t] = "print" /\ thread' = [thread EXCEPT ![t] = "read"]
      /\ printed' = [printed EXCEPT ![c] = @ \o Messages(a, b)]
  BY <1>1 DEF PrintMsg
<1>3. c \in Clients /\ a \in 1 .. MaxMsgs /\ b \in 0 .. MaxMsgs
  BY <1>1, <1>2 DEF IInv, Filled, TypeOK
<1>4. Messages(a, b) \in Seq(1 .. MaxMsgs) /\ printed \in [Clients -> Seq(1 .. MaxMsgs)]
  BY <1>3, MessagesType DEF IInv, NetInv, NetTypeOK
<1>5. printed[c] \o Messages(a, b) \in Seq(1 .. MaxMsgs)
  BY <1>3, <1>4, ConcatProperties
<1>6. printed' \in [Clients -> Seq(1 .. MaxMsgs)]
  BY <1>2, <1>4, <1>5
<1>7. NetTypeOK' /\ NetInv'
  BY <1>2, <1>6 DEF IInv, NetInv, NetTypeOK
<1>8. TypeOK' /\ Filled'
  <2>1. Empty \in [of : Clients \cup {Nobody}, from : 0 .. MaxMsgs, to : 0 .. MaxMsgs]
    BY NetAssumption DEF Empty
  <2>2. msgBuffer' \in [Threads -> [of : Clients \cup {Nobody}, from : 0 .. MaxMsgs, to : 0 .. MaxMsgs]]
    BY <1>2, <2>1, Zenon DEF IInv, TypeOK
  <2>3. \A u \in Threads \ {t} : msgBuffer'[u] = msgBuffer[u]
    BY <1>2 DEF IInv, TypeOK
  <2> QED
    BY <1>2, <1>7, <2>2, <2>3 DEF IInv, TypeOK, Filled
<1>9. SocketsOpen' /\ SocketsApart' /\ MainSock' /\ Uncreated'
  BY <1>2, KeepsSocket
<1> QED
  BY <1>7, <1>8, <1>9 DEF IInv

(* What a thread closes is no other thread's, nor what main was just given. *)
LEMMA CloseInv ==
  ASSUME IInv, NEW t \in Threads, Close(t)
  PROVE  IInv'
<1>1. /\ UNCHANGED <<net, main, newSockId, created, arg, sock, msgBuffer>>
      /\ thread[t] = "read" /\ thread' = [thread EXCEPT ![t] = "done"]
      /\ fd' = [fd EXCEPT ![sock[t]] = Nobody]
  BY DEF Close
<1>2. NetInv' /\ NetTypeOK'
  BY <1>1 DEF IInv, NetInv, NetTypeOK, net
<1>3. TypeOK' /\ Filled' /\ Uncreated'
  BY <1>1, <1>2 DEF IInv, TypeOK, Filled, Uncreated
<1>4. /\ ~Working(t)' /\ Working(t) /\ SocketOf(t) = sock[t]
      /\ \A u \in Threads \ {t} : (Working(u)' <=> Working(u)) /\ SocketOf(u)' = SocketOf(u)
  BY <1>1 DEF IInv, TypeOK, Working, SocketOf
<1>5. \A n \in Fds : n # sock[t] => fd'[n] = fd[n]
  BY <1>1 DEF IInv, TypeOK
<1>6. \A u \in Threads \ {t} : Working(u) => SocketOf(u) # sock[t]
  BY <1>4 DEF IInv, SocketsApart
<1>7. SocketsOpen' /\ SocketsApart'
  BY <1>4, <1>5, <1>6 DEF IInv, SocketsOpen, SocketsApart
<1>8. MainSock'
  BY <1>1, <1>4, <1>5 DEF IInv, MainSock
<1> QED
  BY <1>2, <1>3, <1>7, <1>8 DEF IInv

LEMMA NextInv == IInv /\ [Next]_vars => IInv'
<1> SUFFICES ASSUME IInv, [Next]_vars PROVE IInv'
  OBVIOUS
<1>1. CASE Main \/ TermHandler
  BY <1>1, AcceptInv, ExitInv, CreateThreadInv DEF Main, TermHandler, AcceptFails
<1>2. ASSUME NEW t \in Threads, Thread(t) PROVE IInv'
  BY <1>2, StartThreadInv, ReadInv, PrintMsgInv, CloseInv DEF Thread
<1>3. ASSUME NEW c \in Clients, Client(c), UNCHANGED proc PROVE IInv'
  BY <1>3, ClientInv
<1>4. CASE UNCHANGED vars
  <2>1. UNCHANGED <<backlog, client, up, sent, taken, printed>> /\ UNCHANGED proc
    BY <1>4 DEF vars, net
  <2>2. NetInv' /\ TypeOK'
    BY <2>1 DEF IInv, NetInv, TypeOK, NetTypeOK, proc
  <2> QED
    BY <2>1, <2>2 DEF IInv, SocketsOpen, SocketsApart, MainSock, Uncreated, Filled,
                      Working, SocketOf, proc
<1> QED
  BY <1>1, <1>2, <1>3, <1>4 DEF Next

(* IInv holds of every reachable state, for every number of clients,        *)
(* messages, descriptors and threads.                                       *)
THEOREM ThreadInvariance == Spec => []IInv
  BY InitInv, NextInv, PTL DEF Spec

(* Every variable of the server and of the network keeps its type.          *)
THEOREM ThreadTypeCorrect == Spec => []TypeOK
<1>1. IInv => TypeOK
  BY DEF IInv
<1> QED
  BY <1>1, ThreadInvariance, PTL

(* However late a thread reads its argument and however soon a descriptor   *)
(* is given out again, no two threads work on one, nor any on a closed one. *)
THEOREM OneThreadEach == Spec => []OneThreadPerConnection
<1>1. IInv => OneThreadPerConnection
  BY DEF IInv, SocketsOpen, SocketsApart, OneThreadPerConnection
<1> QED
  BY <1>1, ThreadInvariance, PTL
-----------------------------------------------------------------------------
(* A connection has one descriptor at most, and has left the queue then.    *)
ConnInv ==
  /\ \A c \in Clients : In(c, backlog) => client[c] # "refused"
  /\ \A c \in Clients : Held(c) => client[c] \notin {"start", "refused"} /\ ~In(c, backlog)
  /\ \A n, m \in Fds : fd[n] = fd[m] /\ fd[n] # Nobody => n = m

UpInv == up = (main # "exited") /\ \A t \in Threads : Working(t) => up

(* What has been printed of a connection is what has been read of it, but   *)
(* for what its thread has in its buffer, until the process exits.          *)
Prints(t, c) == thread[t] = "print" /\ msgBuffer[t].of = c

HeardInv ==
  /\ \A c \in Clients : taken[c] <= sent[c]
  /\ up => \A c \in Clients : (\A t \in Threads : ~Prints(t, c)) => Len(printed[c]) = taken[c]
  /\ \A t \in Threads : \A c \in Clients : Prints(t, c) =>
       /\ fd[sock[t]] = c
       /\ msgBuffer[t].from = Len(printed[c]) + 1 /\ msgBuffer[t].to = taken[c]
       /\ Len(printed[c]) < taken[c]

SafeInv == IInv /\ ConnInv /\ UpInv /\ HeardInv

LEMMA Numbers ==
  ASSUME IInv, NEW c \in Clients
  PROVE  /\ sent[c] \in Nat /\ taken[c] \in Nat /\ printed[c] \in Seq(1 .. MaxMsgs)
         /\ Len(printed[c]) \in Nat
<1>1. sent[c] \in 0 .. MaxMsgs /\ taken[c] \in 0 .. MaxMsgs /\ printed[c] \in Seq(1 .. MaxMsgs)
  BY DEF IInv, NetInv, NetTypeOK
<1> QED
  BY <1>1, NetAssumption, LenProperties

(* What main takes from the queue, and where it puts it. *)
LEMMA AcceptTakes ==
  ASSUME IInv, Accept
  PROVE  \E c \in Clients, n \in Fds :
           /\ c # Nobody /\ AcceptEffect(c) /\ \A d : In(d, backlog) => d = c \/ In(d, backlog')
           /\ fd[n] = Nobody /\ fd'[n] = c /\ \A m \in Fds \ {n} : fd'[m] = fd[m]
<1>1. PICK c, n : c = Head(backlog) /\ n = Lowest(FreeFds)
  OBVIOUS
<1>2. AcceptEffect(c) /\ \A d : In(d, backlog) => d = c \/ In(d, backlog')
  BY <1>1, AcceptStep, TailWaits DEF IInv, NetInv, NetTypeOK, Accept
<1>3. n \in FreeFds
  <2>1. FreeFds \subseteq Nat /\ FreeFds # {}
    BY ServerAssumption DEF Accept, FreeFds
  <2>2. \E x \in FreeFds : \A y \in FreeFds : x <= y
    BY <2>1, HasLeast
  <2> QED
    BY <1>1, <2>2 DEF Lowest
<1>4. n \in Fds /\ fd[n] = Nobody /\ fd' = [fd EXCEPT ![n] = c] /\ fd \in [Fds -> Clients \cup {Nobody}]
  BY <1>1, <1>3 DEF FreeFds, Accept, IInv, TypeOK
<1>5. fd'[n] = c /\ \A m \in Fds \ {n} : fd'[m] = fd[m]
  BY <1>4
<1>6. c \in Clients /\ c # Nobody
  BY <1>2, NobodyAssumption DEF AcceptEffect
<1> QED
  BY <1>2, <1>4, <1>5, <1>6

LEMMA ConnNext == IInv /\ ConnInv /\ [Next]_vars => ConnInv'
<1> SUFFICES ASSUME IInv, ConnInv, [Next]_vars PROVE ConnInv'
  OBVIOUS
<1>1. CASE Accept
  <2>1. PICK c \in Clients, n \in Fds :
          /\ c # Nobody /\ AcceptEffect(c)
          /\ fd[n] = Nobody /\ fd'[n] = c /\ \A m \in Fds \ {n} : fd'[m] = fd[m]
    BY <1>1, AcceptTakes
  <2>2. ~Held(c) /\ client' = client
    BY <1>1, <2>1 DEF AcceptEffect, ConnInv, Accept
  <2>3. \A d \in Clients : Held(d)' => Held(d) \/ d = c
    BY <2>1 DEF Held
  <2> QED
    BY <2>1, <2>2, <2>3 DEF ConnInv, Held, AcceptEffect
<1>2. CASE Exit
  BY <1>2, NobodyAssumption DEF Exit, ConnInv, Held
<1>3. ASSUME UNCHANGED <<fd, backlog, client>> PROVE ConnInv'
  BY <1>3 DEF ConnInv, Held
<1>4. ASSUME NEW t \in Threads, Close(t) PROVE ConnInv'
  <2>1. UNCHANGED <<backlog, client>> /\ \A n \in Fds : fd'[n] = fd[n] \/ fd'[n] = Nobody
    BY <1>4 DEF Close, net, IInv, TypeOK
  <2> QED
    BY <2>1, NobodyAssumption DEF ConnInv, Held
<1>5. ASSUME NEW c \in Clients, Client(c), fd' = fd PROVE ConnInv'
  <2>1. /\ client \in [Clients -> {"start", "connected", "refused", "gone", "lost"}]
        /\ backlog \in Seq(Clients)
        /\ \A d \in Clients : In(d, backlog) => client[d] # "start"
        /\ \A d \in Clients : Held(d)' <=> Held(d)
    BY <1>5 DEF IInv, NetInv, NetTypeOK, Held
  <2>2. CASE Write(c)
    BY <1>5, <2>2 DEF Write, ConnInv, Held
  <2>3. CASE Killed(c) \/ Breaks(c)
    BY <1>5, <2>1, <2>3 DEF Killed, Breaks, ConnInv
  <2>4. CASE Connect(c) /\ backlog' = Append(backlog, c) /\ client' = [client EXCEPT ![c] = "connected"]
    <3>1. \A d : In(d, backlog') <=> In(d, backlog) \/ d = c
      BY <2>1, <2>4, AppendWaits
    <3> QED
      BY <1>5, <2>1, <2>4, <3>1 DEF ConnInv, Connect
  <2>5. CASE Connect(c) /\ UNCHANGED backlog /\ client' = [client EXCEPT ![c] = "refused"]
    BY <1>5, <2>1, <2>5 DEF ConnInv, Connect
  <2> QED
    BY <1>5, <2>2, <2>3, <2>4, <2>5 DEF Client, Connect
<1> QED
  BY <1>1, <1>2, <1>3, <1>4, <1>5 DEF Next, Main, AcceptFails, TermHandler, CreateThread,
     Thread, StartThread, Read, PrintMsg, vars, net, proc

LEMMA UpNext == IInv /\ UpInv /\ [Next]_vars => UpInv'
<1> SUFFICES ASSUME IInv, UpInv, [Next]_vars PROVE UpInv'
  OBVIOUS
<1>1. CASE Exit
  <2>1. \A t \in Threads : ~Working(t)'
    BY <1>1 DEF Exit, Working
  <2> QED
    BY <1>1, <2>1 DEF Exit, UpInv
<1>2. CASE Accept
  BY <1>2 DEF Accept, UpInv, Working
<1>3. CASE CreateThread
  BY <1>3 DEF CreateThread, UpInv, Working, net
<1>4. ASSUME NEW t \in Threads, Thread(t) PROVE UpInv'
  <2>1. UNCHANGED <<up, main>> /\ Working(t)
    BY <1>4 DEF Thread, StartThread, Read, PrintMsg, Close, net, Working
  <2>2. \A u \in Threads \ {t} : thread'[u] = thread[u]
    BY <1>4 DEF Thread, StartThread, Read, PrintMsg, Close, IInv, TypeOK
  <2> QED
    BY <2>1, <2>2 DEF UpInv, Working
<1>5. ASSUME NEW c \in Clients, Client(c), UNCHANGED proc PROVE UpInv'
  BY <1>5 DEF Client, Connect, Write, Killed, Breaks, proc, UpInv, Working
<1>6. CASE UNCHANGED vars
  BY <1>6 DEF vars, net, proc, UpInv, Working
<1> QED
  BY <1>1, <1>2, <1>3, <1>4, <1>5, <1>6 DEF Next, Main, AcceptFails, TermHandler
-----------------------------------------------------------------------------
(* Two threads that read or print are on two connections. *)
LEMMA OwnConnection ==
  ASSUME IInv, ConnInv, NEW t \in Threads, thread[t] \in {"read", "print"}
  PROVE  /\ sock[t] \in Fds /\ fd[sock[t]] \in Clients /\ fd[sock[t]] # Nobody
         /\ \A u \in Threads : thread[u] \in {"read", "print"} /\ fd[sock[u]] = fd[sock[t]] => u = t
<1>1. \A u \in Threads : thread[u] \in {"read", "print"} =>
        Working(u) /\ SocketOf(u) = sock[u] /\ sock[u] \in Fds /\ fd[sock[u]] # Nobody
  BY DEF IInv, SocketsOpen, Working, SocketOf
<1>2. fd \in [Fds -> Clients \cup {Nobody}]
  BY DEF IInv, TypeOK
<1> QED
  BY <1>1, <1>2 DEF IInv, SocketsApart, ConnInv

(* Steps that read and print nothing, and close no printing thread's socket. *)
LEMMA QuietHeard ==
  ASSUME HeardInv, UNCHANGED <<taken, printed, msgBuffer, sent>>, up' => up,
         \A t \in Threads : thread'[t] = "print" <=> thread[t] = "print",
         \A t \in Threads : thread[t] = "print" => fd'[sock'[t]] = fd[sock[t]]
  PROVE  HeardInv'
<1>1. \A t \in Threads : \A c \in Clients : Prints(t, c)' <=> Prints(t, c)
  BY DEF Prints
<1>2. \A t \in Threads : \A c \in Clients : Prints(t, c) => fd'[sock'[t]] = fd[sock[t]]
  BY DEF Prints
<1> QED
  BY <1>1, <1>2 DEF HeardInv

LEMMA ClientHeard ==
  ASSUME IInv, HeardInv, ClientEffect, UNCHANGED proc, \A d \in Clients : sent'[d] \in Nat
  PROVE  HeardInv'
<1>1. \A t \in Threads : \A c \in Clients : Prints(t, c)' <=> Prints(t, c)
  BY DEF Prints, proc
<1>2. \A c \in Clients : taken'[c] <= sent'[c]
  <2> SUFFICES ASSUME NEW c \in Clients PROVE taken[c] <= sent'[c]
    BY DEF ClientEffect
  <2>1. taken[c] <= sent[c] /\ sent[c] <= sent'[c] /\ sent[c] \in Nat /\ taken[c] \in Nat /\ sent'[c] \in Nat
    BY Numbers DEF HeardInv, ClientEffect
  <2> QED
    BY <2>1
<1> QED
  BY <1>1, <1>2 DEF HeardInv, ClientEffect, proc

LEMMA ReadHeard ==
  ASSUME IInv, ConnInv, UpInv, HeardInv, NEW t \in Threads, Read(t)
  PROVE  HeardInv'
<1>1. PICK c, n : /\ c = Conn(t) /\ n \in taken[c] + 1 .. sent[c]
                  /\ msgBuffer' = [msgBuffer EXCEPT
                                     ![t] = [of |-> c, from |-> taken[c] + 1, to |-> n]]
                  /\ taken' = [taken EXCEPT ![c] = n]
  BY DEF Read
<1>2. /\ UNCHANGED <<up, sent, printed, sock, fd>>
      /\ thread[t] = "read" /\ thread' = [thread EXCEPT ![t] = "print"]
  BY DEF Read
<1>3. /\ c \in Clients /\ fd[sock[t]] = c /\ up
      /\ \A u \in Threads : thread[u] \in {"read", "print"} /\ fd[sock[u]] = c => u = t
  BY <1>1, <1>2, OwnConnection DEF Conn, UpInv, Working
<1>4. /\ taken[c] \in Nat /\ sent[c] \in Nat /\ n \in Nat /\ taken[c] < n /\ n <= sent[c]
  BY <1>1, <1>3, Numbers
<1>5. \A u \in Threads : ~Prints(u, c)
  BY <1>2, <1>3 DEF HeardInv, Prints
<1>6. Len(printed[c]) = taken[c]
  BY <1>3, <1>5 DEF HeardInv
<1>7. taken'[c] = n /\ \A d \in Clients \ {c} : taken'[d] = taken[d]
  BY <1>1, <1>3 DEF IInv, NetInv, NetTypeOK
<1>8. /\ msgBuffer'[t].of = c /\ msgBuffer'[t].from = taken[c] + 1 /\ msgBuffer'[t].to = n
      /\ thread'[t] = "print"
      /\ \A u \in Threads \ {t} : msgBuffer'[u] = msgBuffer[u] /\ thread'[u] = thread[u]
  BY <1>1, <1>2 DEF IInv, TypeOK
<1>9. \A d \in Clients : taken'[d] <= sent'[d]
  BY <1>2, <1>4, <1>7 DEF HeardInv
<1>10. ASSUME NEW d \in Clients, d # c
       PROVE  /\ up' => ((\A u \in Threads : ~Prints(u, d)') => Len(printed'[d]) = taken'[d])
              /\ \A u \in Threads : Prints(u, d)' =>
                   /\ fd'[sock'[u]] = d
                   /\ msgBuffer'[u].from = Len(printed'[d]) + 1 /\ msgBuffer'[u].to = taken'[d]
                   /\ Len(printed'[d]) < taken'[d]
  <2>1. \A u \in Threads : (Prints(u, d)' <=> Prints(u, d)) /\ (Prints(u, d) => u # t)
    BY <1>2, <1>8, <1>10 DEF Prints
  <2> QED
    BY <2>1, <1>2, <1>7, <1>8, <1>10 DEF HeardInv
<1>11. /\ Prints(t, c)' /\ \A u \in Threads : Prints(u, c)' => u = t
       /\ fd'[sock'[t]] = c
       /\ msgBuffer'[t].from = Len(printed'[c]) + 1 /\ msgBuffer'[t].to = taken'[c]
       /\ Len(printed'[c]) < taken'[c]
  <2>1. \A u \in Threads \ {t} : ~Prints(u, c)'
    BY <1>5, <1>8 DEF Prints
  <2> QED
    BY <2>1, <1>2, <1>3, <1>4, <1>6, <1>7, <1>8 DEF Prints
<1> QED
  BY <1>9, <1>10, <1>11 DEF HeardInv

(* What a thread prints continues what was printed before. *)
LEMMA PrintHears ==
  ASSUME IInv, ConnInv, HeardInv, NEW t \in Threads, PrintMsg(t)
  PROVE  \E c \in Clients :
           /\ Prints(t, c) /\ fd[sock[t]] = c /\ sock[t] \in Fds
           /\ \A u \in Threads : Prints(u, c) => u = t
           /\ taken[c] \in Len(printed[c]) + 1 .. sent[c]
           /\ printed' = [printed EXCEPT ![c] = Continued(printed[c], taken[c])]
           /\ Len(printed'[c]) = taken[c] /\ \A d \in Clients \ {c} : printed'[d] = printed[d]
<1>1. PICK c : c = msgBuffer[t].of
  OBVIOUS
<1>2. thread[t] = "print" /\ c \in Clients /\ Prints(t, c)
  BY <1>1 DEF PrintMsg, IInv, Filled, Prints
<1>3. PICK s, b : s = printed[c] /\ b = taken[c]
  OBVIOUS
<1>4. /\ s \in Seq(1 .. MaxMsgs) /\ Len(s) \in Nat /\ b \in Nat /\ Len(s) < b /\ sent[c] \in Nat /\ b <= sent[c]
      /\ msgBuffer[t].from = Len(s) + 1 /\ msgBuffer[t].to = b /\ fd[sock[t]] = c
  BY <1>2, <1>3, Numbers DEF HeardInv
<1>5. printed' = [printed EXCEPT ![c] = s \o Messages(Len(s) + 1, b)]
  BY <1>1, <1>3, <1>4 DEF PrintMsg
<1>6. s \o Messages(Len(s) + 1, b) = Continued(s, b)
  BY <1>4, MessagesFollow
<1>7. printed' \in [Clients -> Seq(1 .. MaxMsgs)] /\ printed \in [Clients -> Seq(1 .. MaxMsgs)]
  <2>1. NetTypeOK' /\ NetTypeOK
    BY PrintMsgInv DEF IInv, NetInv
  <2> QED
    BY <2>1 DEF NetTypeOK
<1>8. printed'[c] = Continued(s, b)
  BY <1>2, <1>5, <1>6, <1>7
<1>9. Len(printed'[c]) = b
  <2>1. printed'[c] \in Seq(1 .. MaxMsgs) /\ DOMAIN printed'[c] = 1 .. b
    BY <1>2, <1>7, <1>8 DEF Continued
  <2> QED
    BY <2>1, <1>4, LenProperties
<1>10. \A d \in Clients \ {c} : printed'[d] = printed[d]
  BY <1>5, <1>7
<1>11. sock[t] \in Fds /\ \A u \in Threads : Prints(u, c) => u = t
  BY <1>2, <1>4, OwnConnection DEF HeardInv, Prints
<1>12. printed' = [printed EXCEPT ![c] = Continued(printed[c], taken[c])]
  BY <1>3, <1>5, <1>6
<1>13. taken[c] \in Len(printed[c]) + 1 .. sent[c]
  BY <1>3, <1>4
<1> QED
  BY <1>2, <1>3, <1>4, <1>9, <1>10, <1>11, <1>12, <1>13

LEMMA PrintHeard ==
  ASSUME IInv, ConnInv, HeardInv, NEW t \in Threads, PrintMsg(t)
  PROVE  HeardInv'
<1>1. PICK c \in Clients :
        /\ Prints(t, c) /\ \A u \in Threads : Prints(u, c) => u = t
        /\ Len(printed'[c]) = taken[c] /\ \A d \in Clients \ {c} : printed'[d] = printed[d]
  BY PrintHears
<1>2. /\ UNCHANGED <<up, sent, taken, sock, fd>> /\ thread'[t] = "read"
      /\ \A u \in Threads \ {t} : thread'[u] = thread[u] /\ msgBuffer'[u] = msgBuffer[u]
  BY DEF PrintMsg, IInv, TypeOK
<1>3. \A u \in Threads : ~Prints(u, c)'
  BY <1>1, <1>2 DEF Prints
<1>4. \A u \in Threads : \A d \in Clients \ {c} : Prints(u, d)' <=> Prints(u, d)
  BY <1>1, <1>2 DEF Prints
<1> QED
  BY <1>1, <1>2, <1>3, <1>4 DEF HeardInv

LEMMA HeardNext == SafeInv /\ [Next]_vars => HeardInv'
<1> SUFFICES ASSUME IInv, ConnInv, UpInv, HeardInv, [Next]_vars PROVE HeardInv'
  BY DEF SafeInv
<1>1. ASSUME NEW c \in Clients, Client(c), UNCHANGED proc
      PROVE  HeardInv'
  <2>1. NetInv' /\ ClientEffect
    BY <1>1, ClientStep DEF IInv
  <2>2. \A d \in Clients : sent'[d] \in Nat
    BY <2>1, NetAssumption DEF NetInv, NetTypeOK
  <2> QED
    BY <1>1, <2>1, <2>2, ClientHeard
<1>2. CASE UNCHANGED vars
  BY <1>2, QuietHeard DEF vars, net, proc
<1>3. CASE Accept
  <2>1. PICK n \in Fds : fd[n] = Nobody /\ \A m \in Fds \ {n} : fd'[m] = fd[m]
    BY <1>3, AcceptTakes
  <2>2. /\ UNCHANGED <<up, taken, printed, msgBuffer, sent, thread, sock>>
        /\ \A t \in Threads : thread[t] = "print" => fd'[sock[t]] = fd[sock[t]]
    BY <1>3, <2>1, OwnConnection DEF Accept
  <2> QED
    BY <2>2, QuietHeard
<1>4. CASE Exit
  <2>1. /\ ~up' /\ UNCHANGED <<taken, printed, sent>>
        /\ \A t \in Threads : thread'[t] # "print"
    BY <1>4 DEF Exit
  <2> QED
    BY <2>1 DEF HeardInv, Prints
<1>5. CASE CreateThread
  <2>1. \A t \in Threads : t = created + 1 => thread[t] = "unborn"
    BY <1>5, ServerAssumption DEF IInv, TypeOK, Uncreated, Threads
  <2>2. \A t \in Threads : thread'[t] = thread[t] \/ (thread[t] = "unborn" /\ thread'[t] = "start")
    BY <1>5, <2>1 DEF CreateThread, IInv, TypeOK
  <2> QED
    BY <1>5, <2>2, QuietHeard DEF CreateThread, net
<1>6. ASSUME NEW t \in Threads, StartThread(t)
      PROVE  HeardInv'
  <2>1. /\ UNCHANGED <<up, taken, printed, msgBuffer, sent, fd>> /\ thread[t] # "print" /\ thread'[t] # "print"
        /\ \A u \in Threads \ {t} : thread'[u] = thread[u] /\ sock'[u] = sock[u]
    BY <1>6 DEF StartThread, net, IInv, TypeOK
  <2> QED
    BY <2>1, QuietHeard
<1>7. ASSUME NEW t \in Threads, Close(t)
      PROVE  HeardInv'
  <2>1. /\ UNCHANGED <<up, taken, printed, msgBuffer, sent, sock>>
        /\ thread[t] = "read" /\ thread'[t] # "print"
        /\ \A u \in Threads \ {t} : thread'[u] = thread[u]
        /\ \A n \in Fds : n # sock[t] => fd'[n] = fd[n]
    BY <1>7 DEF Close, net, IInv, TypeOK
  <2>2. \A u \in Threads : thread[u] = "print" => fd'[sock[u]] = fd[sock[u]]
    BY <2>1, OwnConnection
  <2> QED
    BY <2>1, <2>2, QuietHeard
<1> QED
  BY <1>1, <1>2, <1>3, <1>4, <1>5, <1>6, <1>7, ReadHeard, PrintHeard
  DEF Next, Main, AcceptFails, TermHandler, Thread

LEMMA SafeInit == Init => SafeInv
<1> SUFFICES ASSUME Init PROVE SafeInv
  OBVIOUS
<1>1. HeardInv
  <2>1. \A c \in Clients : taken[c] = 0 /\ sent[c] = 0 /\ printed[c] = <<>>
    BY DEF Init, NetInit
  <2>2. \A t \in Threads : thread[t] = "unborn"
    BY DEF Init
  <2> QED
    BY <2>1, <2>2 DEF HeardInv, Prints
<1>2. ConnInv
  BY NobodyAssumption, NetInitInv DEF Init, ConnInv, Held
<1> QED
  BY <1>1, <1>2, InitInv DEF SafeInv, UpInv, Init, NetInit, Working

LEMMA SafeNext == SafeInv /\ [Next]_vars => SafeInv'
  BY NextInv, ConnNext, UpNext, HeardNext DEF SafeInv
-----------------------------------------------------------------------------
(* What EchoService sees of a connection.                                   *)
LEMMA ViewOf ==
  ASSUME NEW c \in Clients
  PROVE  /\ Held(c) => ServedView[c] = "yes"
         /\ ~Held(c) /\ (client[c] \in {"start", "refused"} \/ In(c, backlog)) => ServedView[c] = "no"
         /\ ~Held(c) /\ client[c] \notin {"start", "refused"} /\ ~In(c, backlog) => ServedView[c] = "over"
BY DEF ServedView, Served, Waiting, In

(* A step that changes neither the queue, the clients nor who is held.      *)
LEMMA SameView ==
  ASSUME UNCHANGED <<backlog, client>>, \A c \in Clients : Held(c)' <=> Held(c)
  PROVE  ServedView' = ServedView /\ ClientView' = ClientView
<1>1. \A c \in Clients : Served(c, Held(c))' = Served(c, Held(c))
  BY DEF Served, Waiting
<1>2. \A c \in Clients : ClientState(c)' = ClientState(c)
  BY DEF ClientState
<1> QED
  BY <1>1, <1>2 DEF ServedView, ClientView

LEMMA AcceptRefines ==
  ASSUME SafeInv, Accept
  PROVE  \E c \in Clients : Contract!Serve(c)
<1>1. PICK c \in Clients, n \in Fds :
        /\ c # Nobody /\ AcceptEffect(c) /\ \A d : In(d, backlog) => d = c \/ In(d, backlog')
        /\ fd[n] = Nobody /\ fd'[n] = c /\ \A m \in Fds \ {n} : fd'[m] = fd[m]
  BY AcceptTakes DEF SafeInv
<1>2. UNCHANGED <<up, client, sent, printed>> /\ up
  BY DEF Accept, SafeInv, UpInv
<1>3. \A d \in Clients : Held(d)' <=> Held(d) \/ d = c
  BY <1>1, NobodyAssumption DEF Held
<1>4. client[c] # "start" /\ In(c, backlog) /\ ~Held(c)
  BY <1>1 DEF AcceptEffect, SafeInv, ConnInv
<1>5. ServedView[c] = "no" /\ Served(c, Held(c))' = "yes"
  BY <1>3, <1>4, ViewOf DEF Served
<1>6. \A d \in Clients \ {c} : Served(d, Held(d))' = Served(d, Held(d))
  <2> SUFFICES ASSUME NEW d \in Clients, d # c PROVE Served(d, Held(d))' = Served(d, Held(d))
    OBVIOUS
  <2>1. (Held(d)' <=> Held(d)) /\ (In(d, backlog') <=> In(d, backlog))
    BY <1>1, <1>3 DEF AcceptEffect
  <2>2. Waiting(d)' <=> Waiting(d)
    BY <2>1 DEF Waiting, In
  <2> QED
    BY <1>2, <2>1, <2>2 DEF Served
<1>7. ServedView' = [ServedView EXCEPT ![c] = "yes"]
  BY <1>5, <1>6 DEF ServedView
<1>8. ClientView' = ClientView /\ ClientView[c] # "start"
  BY <1>2, <1>4 DEF ClientView, ClientState
<1> QED
  BY <1>2, <1>5, <1>7, <1>8 DEF Contract!Serve

(* exit() ends every connection the process holds, and those in the queue   *)
(* are never taken.                                                         *)
LEMMA ExitRefines ==
  ASSUME SafeInv, main # "exited", Exit
  PROVE  Contract!Stop
<1> DEFINE D == {c \in Clients : ServedView[c] = "yes"}
<1>1. up /\ ~up' /\ UNCHANGED <<backlog, client, sent, printed>>
  BY DEF Exit, SafeInv, UpInv
<1>2. \A c \in Clients : ~Held(c)'
  BY NobodyAssumption DEF Exit, Held
<1>3. \A c \in Clients : Served(c, Held(c))' = IF c \in D THEN "over" ELSE ServedView[c]
  <2> SUFFICES ASSUME NEW c \in Clients
               PROVE  Served(c, Held(c))' = IF c \in D THEN "over" ELSE ServedView[c]
    OBVIOUS
  <2>1. CASE Held(c)
    <3>1. client[c] \notin {"start", "refused"} /\ ~In(c, backlog)
      BY <2>1 DEF SafeInv, ConnInv
    <3>2. ServedView[c] = "yes"
      BY <2>1, ViewOf
    <3>3. Served(c, Held(c))' = "over"
      BY <1>1, <1>2, <3>1 DEF Served, Waiting, In
    <3> QED
      BY <3>2, <3>3
  <2>2. CASE ~Held(c)
    <3>1. Served(c, Held(c))' = Served(c, Held(c))
      BY <1>1, <1>2, <2>2 DEF Served, Waiting
    <3>2. ServedView[c] = Served(c, Held(c)) /\ ServedView[c] # "yes"
      BY <2>2 DEF ServedView, Served
    <3> QED
      BY <3>1, <3>2
  <2> QED
    BY <2>1, <2>2
<1>4. ServedView' = [c \in Clients |-> IF c \in D THEN "over" ELSE ServedView[c]]
  BY <1>3 DEF ServedView
<1>5. D \in SUBSET {c \in Clients : ServedView[c] = "yes"}
  OBVIOUS
<1>6. ClientView' = ClientView
  BY <1>1 DEF ClientView, ClientState
<1>7. up' = FALSE
  BY DEF Exit
<1> HIDE DEF D
<1> QED
  BY <1>1, <1>4, <1>5, <1>6, <1>7 DEF Contract!Stop

LEMMA CloseRefines ==
  ASSUME SafeInv, NEW t \in Threads, Close(t)
  PROVE  \E c \in Clients : Contract!LetGo(c)
<1>1. PICK c : c = fd[sock[t]]
  OBVIOUS
<1>2. /\ c \in Clients /\ c # Nobody /\ sock[t] \in Fds /\ thread[t] = "read"
      /\ \A u \in Threads : thread[u] \in {"read", "print"} /\ fd[sock[u]] = c => u = t
  BY <1>1, OwnConnection DEF SafeInv, Close
<1>3. up /\ ((client[c] = "gone" /\ taken[c] = sent[c]) \/ client[c] = "lost")
  BY <1>1, <1>2 DEF Close, EndOfSession, Conn, ReadEnds, Eof, SafeInv, UpInv, Working
<1>4. client[c] = "gone" => Len(printed[c]) = sent[c]
  <2>1. \A u \in Threads : ~Prints(u, c)
    BY <1>2 DEF SafeInv, HeardInv, Prints
  <2> QED
    BY <1>2, <1>3, <2>1 DEF SafeInv, HeardInv
<1>5. /\ UNCHANGED <<up, backlog, client, sent, printed>>
      /\ fd'[sock[t]] = Nobody /\ \A n \in Fds : n # sock[t] => fd'[n] = fd[n]
  BY <1>2 DEF Close, net, SafeInv, IInv, TypeOK
<1>6. Held(c) /\ ~Held(c)' /\ \A d \in Clients \ {c} : Held(d)' <=> Held(d)
  <2>1. \A n \in Fds : fd[n] = c => n = sock[t]
    BY <1>1, <1>2 DEF SafeInv, ConnInv
  <2> QED
    BY <1>1, <1>2, <1>5, <2>1, NobodyAssumption DEF Held
<1>7. ServedView[c] = "yes" /\ Served(c, Held(c))' = "over"
  <2>1. ~In(c, backlog)
    BY <1>2, <1>6 DEF SafeInv, ConnInv
  <2> QED
    BY <1>2, <1>3, <1>5, <1>6, <2>1, ViewOf DEF Served, Waiting, In
<1>8. \A d \in Clients \ {c} : Served(d, Held(d))' = Served(d, Held(d))
  BY <1>5, <1>6 DEF Served, Waiting
<1>9. ServedView' = [ServedView EXCEPT ![c] = "over"]
  BY <1>2, <1>7, <1>8 DEF ServedView
<1>10. ClientView' = ClientView /\ ClientView[c] = client[c]
  BY <1>2, <1>3, <1>5 DEF ClientView, ClientState
<1> QED
  BY <1>2, <1>3, <1>4, <1>5, <1>7, <1>9, <1>10 DEF Contract!LetGo

LEMMA PrintRefines ==
  ASSUME SafeInv, NEW t \in Threads, PrintMsg(t)
  PROVE  \E c \in Clients : Contract!Hear(c)
<1>1. PICK c \in Clients :
        /\ fd[sock[t]] = c /\ sock[t] \in Fds /\ taken[c] \in Len(printed[c]) + 1 .. sent[c]
        /\ printed' = [printed EXCEPT ![c] = Continued(printed[c], taken[c])]
  BY PrintHears DEF SafeInv
<1>2. UNCHANGED <<up, backlog, client, sent, fd>>
  BY DEF PrintMsg
<1>3. ServedView' = ServedView /\ ClientView' = ClientView
  BY <1>2, SameView DEF Held
<1>4. ServedView[c] = "yes"
  BY <1>1, ViewOf DEF Held
<1>5. printed' = [printed EXCEPT ![c] = [k \in 1 .. taken[c] |-> IF k \in DOMAIN @ THEN @[k] ELSE k]]
  BY <1>1 DEF Continued
<1> QED
  BY <1>1, <1>2, <1>3, <1>4, <1>5 DEF Contract!Hear

(* The steps a client sees nothing of. *)
LEMMA HiddenSteps ==
  ASSUME CreateThread \/ UNCHANGED vars \/ \E t \in Threads : StartThread(t) \/ Read(t)
  PROVE  UNCHANGED Contract!vars
<1>1. UNCHANGED <<up, backlog, client, sent, printed, fd>>
  BY DEF CreateThread, StartThread, Read, vars, net, proc
<1> QED
  BY <1>1, SameView DEF Held, Contract!vars

LEMMA ClientRefines ==
  ASSUME SafeInv, NEW c \in Clients, Client(c), UNCHANGED proc
  PROVE  [Contract!Next]_(Contract!vars)
<1>1. /\ \A d \in Clients : Held(d)' <=> Held(d)
      /\ UNCHANGED <<up, printed>>
      /\ client \in [Clients -> {"start", "connected", "refused", "gone", "lost"}]
      /\ backlog \in Seq(Clients)
  BY DEF Held, proc, Client, Connect, Write, Killed, Breaks, SafeInv, IInv, NetInv, NetTypeOK
<1>2. CASE Write(c)
  <2>1. UNCHANGED <<backlog, client>> /\ client[c] = "connected"
        /\ \E n \in sent[c] + 1 .. MaxMsgs : sent' = [sent EXCEPT ![c] = n]
    BY <1>2 DEF Write
  <2>2. ServedView' = ServedView /\ ClientView' = ClientView /\ ClientView[c] = "connected"
    BY <1>1, <2>1, SameView DEF ClientView, ClientState
  <2>3. Contract!Say(c)
    BY <1>1, <2>1, <2>2 DEF Contract!Say
  <2> QED
    BY <2>3 DEF Contract!Next
<1>3. CASE Killed(c)
  <2>1. /\ client[c] = "connected" /\ client' = [client EXCEPT ![c] = "gone"]
        /\ UNCHANGED <<backlog, sent>>
    BY <1>3 DEF Killed
  <2>2. client'[c] = "gone" /\ \A d \in Clients \ {c} : client'[d] = client[d]
    BY <1>1, <2>1
  <2>3. \A d \in Clients : Served(d, Held(d))' = Served(d, Held(d))
    BY <1>1, <2>1, <2>2 DEF Served, Waiting
  <2>4. ClientView' = [ClientView EXCEPT ![c] = "gone"] /\ ClientView[c] = "connected"
    BY <2>1, <2>2 DEF ClientView, ClientState
  <2>5. Contract!Leave(c)
    BY <1>1, <2>1, <2>3, <2>4 DEF Contract!Leave, ServedView
  <2> QED
    BY <2>5 DEF Contract!Next
<1>5. CASE Breaks(c)
  <2>1. /\ client[c] \in {"connected", "gone"} /\ client' = [client EXCEPT ![c] = "lost"]
        /\ UNCHANGED <<backlog, sent>>
    BY <1>5 DEF Breaks
  <2>2. client'[c] = "lost" /\ \A d \in Clients \ {c} : client'[d] = client[d]
    BY <1>1, <2>1
  <2>3. \A d \in Clients : Served(d, Held(d))' = Served(d, Held(d))
    BY <1>1, <2>1, <2>2 DEF Served, Waiting
  <2>4. ClientView' = [ClientView EXCEPT ![c] = "lost"] /\ ClientView[c] \in {"connected", "gone"}
    BY <2>1, <2>2 DEF ClientView, ClientState
  <2>5. Contract!Break(c)
    BY <1>1, <2>1, <2>3, <2>4 DEF Contract!Break, ServedView
  <2> QED
    BY <2>5 DEF Contract!Next
<1>4. CASE Connect(c)
  <2>1. client[c] = "start" /\ UNCHANGED sent /\ ~Held(c) /\ ~In(c, backlog)
    BY <1>4 DEF Connect, SafeInv, IInv, NetInv, ConnInv
  <2>2. CASE up /\ backlog' = Append(backlog, c) /\ client' = [client EXCEPT ![c] = "connected"]
    <3>1. \A d : In(d, backlog') <=> In(d, backlog) \/ d = c
      BY <1>1, <2>2, AppendWaits
    <3>2. client'[c] = "connected" /\ \A d \in Clients \ {c} : client'[d] = client[d]
      BY <1>1, <2>2
    <3>3. \A d \in Clients : Served(d, Held(d))' = Served(d, Held(d))
      <4>1. \A d \in Clients : Waiting(d)' <=> Waiting(d) \/ d = c
        BY <3>1 DEF Waiting, In
      <4> QED
        BY <1>1, <2>1, <3>2, <4>1 DEF Served
    <3>4. ClientView' = [ClientView EXCEPT ![c] = "connected"] /\ ClientView[c] = "start"
      BY <2>1, <3>2 DEF ClientView, ClientState
    <3>5. Contract!Connect(c)
      BY <1>1, <2>1, <2>2, <3>3, <3>4 DEF Contract!Connect, ServedView
    <3> QED
      BY <3>5 DEF Contract!Next
  <2>3. CASE ~up /\ UNCHANGED backlog /\ client' = [client EXCEPT ![c] = "refused"]
    <3>1. client'[c] = "refused" /\ \A d \in Clients \ {c} : client'[d] = client[d]
      BY <1>1, <2>3
    <3>2. \A d \in Clients : Served(d, Held(d))' = Served(d, Held(d))
      BY <1>1, <2>1, <2>3, <3>1 DEF Served, Waiting
    <3>3. ClientView' = [ClientView EXCEPT ![c] = "gone"] /\ ClientView[c] = "start"
      BY <2>1, <3>1 DEF ClientView, ClientState
    <3>4. Contract!Leave(c)
      BY <1>1, <2>1, <2>3, <3>2, <3>3 DEF Contract!Leave, ServedView
    <3> QED
      BY <3>4 DEF Contract!Next
  <2> QED
    BY <1>4, <2>2, <2>3 DEF Connect
<1> QED
  BY <1>2, <1>3, <1>4, <1>5 DEF Client

LEMMA InitRefines == Init => Contract!Init
<1> SUFFICES ASSUME Init PROVE Contract!Init
  OBVIOUS
<1>1. \A c \in Clients : client[c] = "start" /\ ~Held(c)
  BY NobodyAssumption DEF Init, NetInit, Held
<1>2. ClientView = [c \in Clients |-> "start"] /\ ServedView = [c \in Clients |-> "no"]
  BY <1>1 DEF ClientView, ClientState, ServedView, Served
<1> QED
  BY <1>2 DEF Init, NetInit, Contract!Init

(* Whatever becomes of accept and pthread_create, and whenever SIGINT comes, *)
(* a connection is taken once, in its turn, every message is printed once    *)
(* and in order, and a connection is closed only when its client has left    *)
(* and all it sent is printed, when it has broken, or by the end of the      *)
(* process.                                                                  *)
THEOREM ThreadServes == Spec => Contract!Safety
<1>1. SafeInv /\ [Next]_vars => [Contract!Next]_(Contract!vars)
  <2> SUFFICES ASSUME SafeInv, [Next]_vars
               PROVE  [Contract!Next]_(Contract!vars)
    OBVIOUS
  <2>1. CASE Accept
    BY <2>1, AcceptRefines DEF Contract!Next
  <2>2. CASE AcceptFails \/ TermHandler
    <3>1. main # "exited" /\ Exit
      BY <2>2 DEF AcceptFails, TermHandler
    <3> QED
      BY <3>1, ExitRefines DEF Contract!Next
  <2>3. CASE CreateThread \/ UNCHANGED vars
    BY <2>3, HiddenSteps
  <2>4. ASSUME NEW t \in Threads, Thread(t) PROVE [Contract!Next]_(Contract!vars)
    BY <2>4, HiddenSteps, CloseRefines, PrintRefines DEF Thread, Contract!Next
  <2> QED
    BY <2>1, <2>2, <2>3, <2>4, ClientRefines DEF Next, Main
<1> QED
  BY <1>1, InitRefines, SafeInit, SafeNext, PTL DEF Spec, Contract!Safety
=============================================================================
