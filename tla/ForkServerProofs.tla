-------------------------- MODULE ForkServerProofs --------------------------
(***************************************************************************)
(* Proofs about ForkServer: no connection outlives its session or has two  *)
(* readers, and while forks succeed it implements the safety of            *)
(* EchoService, for every number of clients, messages and processes.       *)
(***************************************************************************)
EXTENDS ForkServer, EchoNetProofs

(* The parent has a socket while it forks, and nobody else has it before.   *)
ParentSock ==
  /\ parent \in {"accept", "exited"} => newSockId = Nobody
  /\ parent = "fork" => newSockId \in Clients /\ \A p \in Children : sock[p] # newSockId

(* A child has its socket from fork to exit, and nobody else's.             *)
ChildSock ==
  /\ \A p \in Children : child[p] \in {"unborn", "zombie"} <=> sock[p] = Nobody
  /\ \A p \in Children : forked < p => child[p] = "unborn"
  /\ \A p, q \in Children : sock[p] = sock[q] /\ sock[p] # Nobody => p = q

(* A connection somebody holds has left the queue, and cannot come back.    *)
HeldOnce == \A c \in Clients : Held(c) => client[c] # "start" /\ ~In(c, backlog)

Filled == \A p \in Children : child[p] = "print" => msgBuffer[p][1] \in 1 .. MaxMsgs

IInv == TypeOK /\ NetInv /\ ParentSock /\ ChildSock /\ HeldOnce /\ Filled

LEMMA InitInv == Init => IInv
<1> SUFFICES ASSUME Init PROVE IInv
  OBVIOUS
<1>1. NetInv /\ \A c \in Clients : ~In(c, backlog)
  BY NetInitInv DEF Init
<1>2. \A c \in Clients : ~Held(c)
  BY NobodyAssumption DEF Init, Held
<1>3. TypeOK
  BY <1>1, NetAssumption, ServerAssumption DEF Init, TypeOK, NetInv
<1> QED
  BY <1>1, <1>2, <1>3 DEF Init, IInv, ParentSock, ChildSock, HeldOnce, Filled

LEMMA ClientInv ==
  ASSUME IInv, NEW c \in Clients, Client(c), UNCHANGED proc
  PROVE  IInv'
<1>1. NetInv' /\ ClientEffect
  BY ClientStep DEF IInv
<1>2. TypeOK'
  BY <1>1 DEF IInv, TypeOK, proc, NetInv
<1>3. HeldOnce'
  BY <1>1 DEF IInv, HeldOnce, Held, ClientEffect, proc
<1> QED
  BY <1>1, <1>2, <1>3 DEF IInv, ParentSock, ChildSock, Filled, proc

LEMMA AcceptInv == IInv /\ Accept => IInv'
<1> SUFFICES ASSUME IInv, Accept PROVE IInv'
  OBVIOUS
<1>1. PICK c : c = Head(backlog)
  OBVIOUS
<1>2. NetInv' /\ AcceptEffect(c)
  BY <1>1, AcceptStep DEF IInv, Accept
<1>3. /\ newSockId' = c /\ parent' = "fork" /\ parent = "accept" /\ c # Nobody
      /\ UNCHANGED <<client, forked, child, sock, listens, msgBuffer>>
  BY <1>1, <1>2, NobodyAssumption DEF Accept, AcceptEffect
<1>4. TypeOK'
  BY <1>2, <1>3 DEF IInv, TypeOK, NetInv, AcceptEffect
<1>5. ~Held(c)
  BY <1>2 DEF IInv, HeldOnce, AcceptEffect
<1>6. ParentSock'
  BY <1>2, <1>3, <1>5 DEF ParentSock, Held, AcceptEffect
<1>7. HeldOnce'
  BY <1>2, <1>3 DEF IInv, HeldOnce, Held, AcceptEffect
<1> QED
  BY <1>2, <1>3, <1>4, <1>6, <1>7 DEF IInv, ChildSock, Filled

(* Everything about the queue and the clients is as it was. *)
QuietNet == UNCHANGED <<backlog, client>>

LEMMA QuietNetInv ==
  ASSUME NetInv, QuietNet, NetTypeOK'
  PROVE  NetInv'
BY DEF NetInv, QuietNet

LEMMA ForkInv == IInv /\ Fork => IInv'
<1> SUFFICES ASSUME IInv, Fork PROVE IInv'
  OBVIOUS
<1> USE ServerAssumption
<1>1. UNCHANGED <<net, newSockId, msgBuffer>> /\ parent = "fork" /\ parent' = "close"
  BY DEF Fork
<1>2. NetInv' /\ NetTypeOK' /\ QuietNet
  BY <1>1 DEF IInv, NetInv, NetTypeOK, net, QuietNet
<1>3. CASE UNCHANGED <<forked, child, sock, listens>>
  BY <1>1, <1>2, <1>3 DEF IInv, TypeOK, ParentSock, ChildSock, HeldOnce, Held, Filled, QuietNet
<1>4. CASE /\ forked < MaxProcs
           /\ forked' = forked + 1
           /\ child' = [child EXCEPT ![forked + 1] = "start"]
           /\ sock' = [sock EXCEPT ![forked + 1] = newSockId]
           /\ listens' = listens \cup {forked + 1}
  <2>1. PICK n : n = forked + 1
    OBVIOUS
  <2>2. /\ n \in Children /\ forked \in Nat /\ forked < n /\ forked' = n
        /\ child' = [child EXCEPT ![n] = "start"] /\ sock' = [sock EXCEPT ![n] = newSockId]
        /\ listens' = listens \cup {n}
        /\ child \in [Children -> {"unborn", "start", "read", "print", "zombie"}]
        /\ sock \in [Children -> Clients \cup {Nobody}]
    BY <1>4, <2>1 DEF IInv, TypeOK, Children
  <2>3. /\ newSockId \in Clients /\ newSockId # Nobody
        /\ \A p \in Children : sock[p] # newSockId
    BY <1>1, NobodyAssumption DEF IInv, ParentSock
  <2>4. TypeOK'
    BY <1>1, <1>2, <1>4, <2>2, <2>3 DEF IInv, TypeOK
  <2>5. ChildSock'
    <3>1. /\ child'[n] = "start" /\ sock'[n] = newSockId
          /\ \A p \in Children \ {n} : child'[p] = child[p] /\ sock'[p] = sock[p]
      BY <2>2
    <3>2. \A p \in Children : n < p => forked < p /\ p # n
      BY <2>2 DEF Children
    <3> QED
      BY <2>2, <2>3, <3>1, <3>2 DEF IInv, ChildSock
  <2>6. HeldOnce'
    <3>1. \A c \in Clients : Held(c)' => Held(c)
      BY <1>1, <2>2, <2>3 DEF Held
    <3> QED
      BY <3>1, <1>2 DEF IInv, HeldOnce, QuietNet
  <2>7. Filled'
    BY <1>1, <2>2 DEF IInv, Filled
  <2> QED
    BY <1>1, <1>2, <2>4, <2>5, <2>6, <2>7 DEF IInv, ParentSock
<1> QED
  BY <1>3, <1>4 DEF Fork

LEMMA ParentEndInv == IInv /\ (ParentClose \/ AcceptFails) => IInv'
<1> SUFFICES ASSUME IInv, ParentClose \/ AcceptFails PROVE IInv'
  OBVIOUS
<1>1. /\ UNCHANGED <<backlog, client, sent, taken, printed, forked, child, sock, msgBuffer>>
      /\ up' \in BOOLEAN /\ listens' \subseteq {0} \cup Children
      /\ \/ newSockId' = Nobody /\ parent' = "accept"
         \/ newSockId' = newSockId /\ parent' = "exited" /\ parent = "accept"
  BY DEF ParentClose, AcceptFails, Listening, Closed, net, IInv, TypeOK, NetTypeOK
<1>2. NetInv' /\ NetTypeOK'
  BY <1>1 DEF IInv, NetInv, NetTypeOK
<1>3. TypeOK' /\ ParentSock'
  BY <1>1, <1>2 DEF IInv, TypeOK, ParentSock
<1>4. \A c \in Clients : Held(c)' => Held(c)
  BY <1>1, NobodyAssumption DEF Held
<1> QED
  BY <1>1, <1>2, <1>3, <1>4 DEF IInv, ChildSock, HeldOnce, Filled

-----------------------------------------------------------------------------
LEMMA CloseListeningInv ==
  ASSUME IInv, NEW p \in Children, CloseListening(p)
  PROVE  IInv'
<1>1. /\ UNCHANGED <<backlog, client, sent, taken, printed, parent, newSockId, forked, sock, msgBuffer>>
      /\ up' \in BOOLEAN /\ listens' \subseteq {0} \cup Children
      /\ child[p] = "start" /\ child' = [child EXCEPT ![p] = "read"]
  BY DEF CloseListening, Listening, IInv, TypeOK
<1>2. NetInv' /\ NetTypeOK'
  BY <1>1 DEF IInv, NetInv, NetTypeOK
<1>3. TypeOK'
  BY <1>1, <1>2 DEF IInv, TypeOK
<1>4. ChildSock' /\ Filled'
  BY <1>1 DEF IInv, TypeOK, ChildSock, Filled
<1> QED
  BY <1>1, <1>2, <1>3, <1>4 DEF IInv, ParentSock, HeldOnce, Held

(* A child that is reading has a connection. *)
LEMMA ReaderHasSocket ==
  ASSUME IInv, NEW p \in Children, child[p] \in {"read", "print"}
  PROVE  sock[p] \in Clients
BY DEF IInv, TypeOK, ChildSock

LEMMA ReadInv ==
  ASSUME IInv, NEW p \in Children, Read(p)
  PROVE  IInv'
<1> USE NetAssumption
<1>1. PICK c, n : /\ c = sock[p] /\ n \in taken[c] + 1 .. sent[c]
                  /\ msgBuffer' = [msgBuffer EXCEPT ![p] = <<taken[c] + 1, n>>]
                  /\ taken' = [taken EXCEPT ![c] = n]
  BY DEF Read
<1>2. /\ UNCHANGED <<up, backlog, client, sent, printed, parent, newSockId, forked, sock, listens>>
      /\ child[p] = "read" /\ child' = [child EXCEPT ![p] = "print"]
  BY DEF Read
<1>3. c \in Clients
  BY <1>1, <1>2, ReaderHasSocket
<1>4. /\ taken[c] \in 0 .. MaxMsgs /\ sent[c] \in 0 .. MaxMsgs
      /\ taken \in [Clients -> 0 .. MaxMsgs]
  BY <1>3 DEF IInv, NetInv, NetTypeOK
<1>5. n \in 1 .. MaxMsgs /\ taken[c] + 1 \in 1 .. MaxMsgs
  BY <1>1, <1>4
<1>6. NetTypeOK' /\ NetInv'
  <2>1. taken' \in [Clients -> 0 .. MaxMsgs]
    <3>1. n \in 0 .. MaxMsgs
      BY <1>5
    <3> QED
      BY <3>1, <1>1, <1>4, Zenon
  <2> QED
    BY <1>2, <2>1 DEF IInv, NetInv, NetTypeOK
<1>7. msgBuffer' \in [Children -> (0 .. MaxMsgs) \X (0 .. MaxMsgs)]
  BY <1>1, <1>5 DEF IInv, TypeOK
<1>8. TypeOK'
  BY <1>2, <1>6, <1>7 DEF IInv, TypeOK
<1>9. Filled'
  BY <1>1, <1>2, <1>5 DEF IInv, TypeOK, Filled
<1>10. ChildSock'
  BY <1>2 DEF IInv, TypeOK, ChildSock
<1> QED
  BY <1>2, <1>6, <1>8, <1>9, <1>10 DEF IInv, ParentSock, HeldOnce, Held

LEMMA PrintMsgInv ==
  ASSUME IInv, NEW p \in Children, PrintMsg(p)
  PROVE  IInv'
<1>1. PICK c, a, b : c = sock[p] /\ a = msgBuffer[p][1] /\ b = msgBuffer[p][2]
  OBVIOUS
<1>2. /\ UNCHANGED <<up, backlog, client, sent, taken, parent, newSockId, forked, sock, listens, msgBuffer>>
      /\ child[p] = "print" /\ child' = [child EXCEPT ![p] = "read"]
      /\ printed' = [printed EXCEPT ![c] = @ \o Messages(a, b)]
  BY <1>1 DEF PrintMsg
<1>3. c \in Clients /\ a \in 1 .. MaxMsgs /\ b \in 0 .. MaxMsgs
  BY <1>1, <1>2, ReaderHasSocket DEF IInv, Filled, TypeOK
<1>4. Messages(a, b) \in Seq(1 .. MaxMsgs) /\ printed \in [Clients -> Seq(1 .. MaxMsgs)]
  BY <1>3, MessagesType DEF IInv, NetInv, NetTypeOK
<1>5. printed[c] \o Messages(a, b) \in Seq(1 .. MaxMsgs)
  BY <1>3, <1>4, ConcatProperties
<1>6. printed' \in [Clients -> Seq(1 .. MaxMsgs)]
  BY <1>2, <1>4, <1>5
<1>7. NetTypeOK' /\ NetInv'
  BY <1>2, <1>6 DEF IInv, NetInv, NetTypeOK
<1>8. TypeOK'
  BY <1>2, <1>7 DEF IInv, TypeOK
<1>9. ChildSock' /\ Filled'
  BY <1>2 DEF IInv, TypeOK, ChildSock, Filled
<1> QED
  BY <1>2, <1>7, <1>8, <1>9 DEF IInv, ParentSock, HeldOnce, Held

LEMMA ExitInv ==
  ASSUME IInv, NEW p \in Children, Exit(p)
  PROVE  IInv'
<1>1. /\ UNCHANGED <<net, parent, newSockId, forked, listens, msgBuffer>>
      /\ child[p] = "read" /\ child' = [child EXCEPT ![p] = "zombie"]
      /\ sock' = [sock EXCEPT ![p] = Nobody]
  BY DEF Exit
<1>2. NetInv' /\ NetTypeOK' /\ UNCHANGED <<backlog, client>>
  BY <1>1 DEF IInv, NetInv, NetTypeOK, net
<1>3. TypeOK' /\ Filled'
  BY <1>1, <1>2 DEF IInv, TypeOK, Filled
<1>4. ChildSock'
  BY <1>1 DEF IInv, TypeOK, ChildSock
<1>5. ParentSock'
  <2>1. parent = "fork" => newSockId # Nobody
    BY NobodyAssumption DEF IInv, ParentSock
  <2> QED
    BY <1>1, <2>1 DEF IInv, TypeOK, ParentSock
<1>6. \A c \in Clients : Held(c)' => Held(c)
  BY <1>1, NobodyAssumption DEF IInv, TypeOK, Held
<1> QED
  BY <1>1, <1>2, <1>3, <1>4, <1>5, <1>6 DEF IInv, HeldOnce

LEMMA NextInv == IInv /\ [Next]_vars => IInv'
<1> SUFFICES ASSUME IInv, [Next]_vars PROVE IInv'
  OBVIOUS
<1>1. CASE Parent \/ AcceptFails
  BY <1>1, AcceptInv, ForkInv, ParentEndInv DEF Parent
<1>2. ASSUME NEW p \in Children, Child(p) PROVE IInv'
  BY <1>2, CloseListeningInv, ReadInv, PrintMsgInv, ExitInv DEF Child
<1>3. ASSUME NEW c \in Clients, Client(c), UNCHANGED proc PROVE IInv'
  BY <1>3, ClientInv
<1>4. CASE UNCHANGED vars
  <2>1. UNCHANGED <<backlog, client, up, sent, taken, printed>> /\ UNCHANGED proc
    BY <1>4 DEF vars, net
  <2>2. NetInv' /\ TypeOK'
    BY <2>1 DEF IInv, NetInv, TypeOK, NetTypeOK, proc
  <2> QED
    BY <2>1, <2>2 DEF IInv, ParentSock, ChildSock, HeldOnce, Held, Filled, proc
<1> QED
  BY <1>1, <1>2, <1>3, <1>4 DEF Next

(* IInv holds of every reachable state, for every number of clients,        *)
(* messages and processes.                                                  *)
THEOREM ForkInvariance == Spec => []IInv
  BY InitInv, NextInv, PTL DEF Spec

(* Every variable of the server and of the network keeps its type.          *)
THEOREM ForkTypeCorrect == Spec => []TypeOK
<1>1. IInv => TypeOK
  BY DEF IInv
<1> QED
  BY <1>1, ForkInvariance, PTL

(* A connection the parent has gone on from is held by its child alone,     *)
(* which is alive, and no two children ever read from one.                  *)
THEOREM NoSocketLeaks == Spec => []NoSocketLeak
<1>1. IInv => NoSocketLeak
  <2> SUFFICES ASSUME IInv PROVE NoSocketLeak
    OBVIOUS
  <2>1. ASSUME parent = "accept", NEW c \in Clients, Held(c)
        PROVE  \E p \in Children : sock[p] = c /\ child[p] # "zombie"
    <3>1. c # Nobody /\ newSockId = Nobody
      BY <2>1, NobodyAssumption DEF IInv, ParentSock
    <3> QED
      BY <2>1, <3>1 DEF IInv, ChildSock, Held
  <2> QED
    BY <2>1 DEF IInv, ChildSock, NoSocketLeak
<1> QED
  BY <1>1, ForkInvariance, PTL

-----------------------------------------------------------------------------
(* What has been printed of a connection is what has been read of it, but   *)
(* for what a child has in its buffer.                                      *)
Prints(p, c) == child[p] = "print" /\ sock[p] = c

HeardInv ==
  /\ \A c \in Clients : taken[c] <= sent[c]
  /\ \A c \in Clients : (\A p \in Children : ~Prints(p, c)) => Len(printed[c]) = taken[c]
  /\ \A p \in Children : \A c \in Clients : Prints(p, c) =>
       /\ msgBuffer[p][1] = Len(printed[c]) + 1 /\ msgBuffer[p][2] = taken[c]
       /\ Len(printed[c]) < taken[c]

UpInv == up = (listens # {}) /\ (parent # "exited" => 0 \in listens)

SafeInv == IInv /\ HeardInv /\ UpInv

LEMMA Numbers ==
  ASSUME IInv, NEW c \in Clients
  PROVE  /\ sent[c] \in Nat /\ taken[c] \in Nat /\ printed[c] \in Seq(1 .. MaxMsgs)
         /\ Len(printed[c]) \in Nat
<1>1. sent[c] \in 0 .. MaxMsgs /\ taken[c] \in 0 .. MaxMsgs /\ printed[c] \in Seq(1 .. MaxMsgs)
  BY DEF IInv, NetInv, NetTypeOK
<1> QED
  BY <1>1, NetAssumption, LenProperties

(* Steps that read and print nothing. *)
LEMMA QuietHeard ==
  ASSUME HeardInv, UNCHANGED <<taken, printed, msgBuffer>>, sent' = sent,
         \A p \in Children : \A c \in Clients : Prints(p, c)' <=> Prints(p, c)
  PROVE  HeardInv'
BY DEF HeardInv

LEMMA ClientHeard ==
  ASSUME IInv, HeardInv, ClientEffect, UNCHANGED proc, \A d \in Clients : sent'[d] \in Nat
  PROVE  HeardInv'
<1>1. \A p \in Children : \A c \in Clients : Prints(p, c)' <=> Prints(p, c)
  BY DEF Prints, proc
<1>2. \A c \in Clients : taken'[c] <= sent'[c]
  <2> SUFFICES ASSUME NEW c \in Clients PROVE taken[c] <= sent'[c]
    BY DEF ClientEffect
  <2>1. taken[c] <= sent[c] /\ sent[c] <= sent'[c] /\ sent[c] \in Nat /\ taken[c] \in Nat /\ sent'[c] \in Nat
    BY Numbers DEF HeardInv, ClientEffect
  <2> QED
    BY <2>1
<1> QED
  BY <1>1, <1>2 DEF HeardInv, ClientEffect, proc

LEMMA ReadHeard ==
  ASSUME IInv, HeardInv, NEW p \in Children, Read(p)
  PROVE  HeardInv'
<1>1. PICK c, n : /\ c = sock[p] /\ n \in taken[c] + 1 .. sent[c]
                  /\ msgBuffer' = [msgBuffer EXCEPT ![p] = <<taken[c] + 1, n>>]
                  /\ taken' = [taken EXCEPT ![c] = n]
  BY DEF Read
<1>2. /\ UNCHANGED <<sent, printed, sock>>
      /\ child[p] = "read" /\ child' = [child EXCEPT ![p] = "print"]
  BY DEF Read
<1>3. c \in Clients
  BY <1>1, <1>2, ReaderHasSocket
<1>4. /\ taken[c] \in Nat /\ sent[c] \in Nat /\ n \in Nat /\ taken[c] < n /\ n <= sent[c]
      /\ taken \in [Clients -> 0 .. MaxMsgs]
      /\ child \in [Children -> {"unborn", "start", "read", "print", "zombie"}]
      /\ msgBuffer \in [Children -> (0 .. MaxMsgs) \X (0 .. MaxMsgs)]
  BY <1>1, <1>3, Numbers DEF IInv, NetInv, NetTypeOK, TypeOK
<1>5. \A q \in Children : sock[q] = c => q = p
  BY <1>1, <1>3, NobodyAssumption DEF IInv, ChildSock
<1>6. Len(printed[c]) = taken[c]
  BY <1>2, <1>3, <1>5 DEF HeardInv, Prints
<1>7. taken'[c] = n /\ \A d \in Clients \ {c} : taken'[d] = taken[d]
  BY <1>1, <1>3, <1>4
<1>8. /\ msgBuffer'[p] = <<taken[c] + 1, n>> /\ child'[p] = "print"
      /\ \A q \in Children \ {p} : msgBuffer'[q] = msgBuffer[q] /\ child'[q] = child[q]
  BY <1>1, <1>2, <1>4
<1>9. \A d \in Clients : taken'[d] <= sent'[d]
  BY <1>2, <1>4, <1>7 DEF HeardInv
<1>10. ASSUME NEW d \in Clients, d # c
       PROVE  /\ (\A q \in Children : ~Prints(q, d)') => Len(printed'[d]) = taken'[d]
              /\ \A q \in Children : Prints(q, d)' =>
                   /\ msgBuffer'[q][1] = Len(printed'[d]) + 1 /\ msgBuffer'[q][2] = taken'[d]
                   /\ Len(printed'[d]) < taken'[d]
  <2>1. \A q \in Children : (Prints(q, d)' <=> Prints(q, d)) /\ (Prints(q, d) => q # p)
    BY <1>1, <1>2, <1>8, <1>10 DEF Prints
  <2> QED
    BY <2>1, <1>2, <1>7, <1>8, <1>10 DEF HeardInv
<1>11. /\ Prints(p, c)' /\ \A q \in Children : Prints(q, c)' => q = p
       /\ msgBuffer'[p][1] = Len(printed'[c]) + 1 /\ msgBuffer'[p][2] = taken'[c]
       /\ Len(printed'[c]) < taken'[c]
  BY <1>1, <1>2, <1>4, <1>5, <1>6, <1>7, <1>8 DEF Prints
<1> QED
  BY <1>9, <1>10, <1>11 DEF HeardInv

(* What a child prints continues what was printed before. *)
LEMMA PrintHears ==
  ASSUME IInv, HeardInv, NEW p \in Children, PrintMsg(p)
  PROVE  \E c \in Clients :
           /\ Prints(p, c) /\ \A q \in Children : sock[q] = c => q = p
           /\ taken[c] \in Len(printed[c]) + 1 .. sent[c]
           /\ printed' = [printed EXCEPT ![c] = Continued(printed[c], taken[c])]
           /\ printed' \in [Clients -> Seq(1 .. MaxMsgs)]
           /\ Len(printed'[c]) = taken[c] /\ \A d \in Clients \ {c} : printed'[d] = printed[d]
<1>1. PICK c : c = sock[p]
  OBVIOUS
<1>2. child[p] = "print" /\ c \in Clients
  BY <1>1, ReaderHasSocket DEF PrintMsg
<1>3. PICK s, b : s = printed[c] /\ b = taken[c]
  OBVIOUS
<1>4. /\ s \in Seq(1 .. MaxMsgs) /\ Len(s) \in Nat /\ b \in Nat /\ Len(s) < b /\ sent[c] \in Nat /\ b <= sent[c]
      /\ msgBuffer[p][1] = Len(s) + 1 /\ msgBuffer[p][2] = b
  BY <1>1, <1>2, <1>3, Numbers DEF HeardInv, Prints
<1>5. printed' = [printed EXCEPT ![c] = s \o Messages(Len(s) + 1, b)]
  BY <1>1, <1>3, <1>4 DEF PrintMsg
<1>6. s \o Messages(Len(s) + 1, b) = Continued(s, b)
  BY <1>4, MessagesFollow
<1>7. printed' \in [Clients -> Seq(1 .. MaxMsgs)] /\ printed \in [Clients -> Seq(1 .. MaxMsgs)]
  <2>1. NetTypeOK' /\ NetTypeOK
    BY PrintMsgInv DEF IInv, NetInv
  <2> QED
    BY <2>1 DEF NetTypeOK
<1>8. printed'[c] = Continued(s, b)
  BY <1>2, <1>5, <1>6, <1>7
<1>9. Len(printed'[c]) = b
  <2>1. printed'[c] \in Seq(1 .. MaxMsgs) /\ DOMAIN printed'[c] = 1 .. b
    BY <1>2, <1>7, <1>8 DEF Continued
  <2> QED
    BY <2>1, <1>4, LenProperties
<1>10. \A d \in Clients \ {c} : printed'[d] = printed[d]
  BY <1>5, <1>7
<1>11. \A q \in Children : sock[q] = c => q = p
  BY <1>1, <1>2, NobodyAssumption DEF IInv, ChildSock
<1>12. printed' = [printed EXCEPT ![c] = Continued(printed[c], taken[c])]
  BY <1>3, <1>5, <1>6
<1>13. taken[c] \in Len(printed[c]) + 1 .. sent[c]
  BY <1>3, <1>4
<1> QED
  BY <1>1, <1>2, <1>3, <1>7, <1>9, <1>10, <1>11, <1>12, <1>13 DEF Prints

LEMMA PrintHeard ==
  ASSUME IInv, HeardInv, NEW p \in Children, PrintMsg(p)
  PROVE  HeardInv'
<1>1. PICK c \in Clients :
        /\ Prints(p, c) /\ \A q \in Children : sock[q] = c => q = p
        /\ Len(printed'[c]) = taken[c] /\ \A d \in Clients \ {c} : printed'[d] = printed[d]
  BY PrintHears
<1>2. /\ UNCHANGED <<sent, taken, sock, msgBuffer>> /\ child' = [child EXCEPT ![p] = "read"]
      /\ child'[p] = "read" /\ \A q \in Children \ {p} : child'[q] = child[q]
  BY DEF PrintMsg, IInv, TypeOK
<1>3. \A q \in Children : ~Prints(q, c)'
  BY <1>1, <1>2 DEF Prints
<1>4. \A q \in Children : \A d \in Clients \ {c} : Prints(q, d)' <=> Prints(q, d)
  BY <1>1, <1>2 DEF Prints
<1> QED
  BY <1>1, <1>2, <1>3, <1>4 DEF HeardInv

LEMMA HeardNext == IInv /\ HeardInv /\ [Next]_vars => HeardInv'
<1> SUFFICES ASSUME IInv, HeardInv, [Next]_vars PROVE HeardInv'
  OBVIOUS
<1>1. ASSUME NEW c \in Clients, Client(c), UNCHANGED proc
      PROVE  HeardInv'
  <2>1. NetInv' /\ ClientEffect
    BY <1>1, ClientStep DEF IInv
  <2>2. \A d \in Clients : sent'[d] \in Nat
    BY <2>1, NetAssumption DEF NetInv, NetTypeOK
  <2> QED
    BY <1>1, <2>1, <2>2, ClientHeard
<1>2. CASE Accept \/ AcceptFails \/ ParentClose \/ UNCHANGED vars
  BY <1>2, QuietHeard DEF Accept, AcceptFails, ParentClose, Prints, vars, net, proc
<1>3. CASE Fork
  <2>1. \A p \in Children : p = forked + 1 => child[p] = "unborn"
    BY <1>3, ServerAssumption DEF IInv, TypeOK, ChildSock, Children
  <2>2. \A p \in Children : \/ child'[p] = child[p] /\ sock'[p] = sock[p]
                            \/ child[p] = "unborn" /\ child'[p] = "start"
    BY <1>3, <2>1 DEF Fork, IInv, TypeOK
  <2> QED
    BY <1>3, <2>2, QuietHeard DEF Fork, Prints, net
<1>4. ASSUME NEW p \in Children, CloseListening(p) \/ Exit(p)
      PROVE  HeardInv'
  <2>1. /\ UNCHANGED <<taken, printed, msgBuffer, sent>> /\ child[p] # "print" /\ child'[p] # "print"
        /\ \A q \in Children \ {p} : child'[q] = child[q] /\ sock'[q] = sock[q]
    BY <1>4 DEF CloseListening, Exit, net, IInv, TypeOK
  <2> QED
    BY <2>1, QuietHeard DEF Prints
<1> QED
  BY <1>1, <1>2, <1>3, <1>4, ReadHeard, PrintHeard DEF Next, Parent, Child

LEMMA UpNext == IInv /\ UpInv /\ [Next]_vars => UpInv'
<1> SUFFICES ASSUME IInv, UpInv, [Next]_vars PROVE UpInv'
  OBVIOUS
<1>1. \A p \in Children : p # 0
  BY DEF Children
<1>2. CASE Parent \/ AcceptFails
  BY <1>2 DEF UpInv, Parent, Accept, Fork, ParentClose, AcceptFails, Listening, net
<1>3. ASSUME NEW p \in Children, Child(p) PROVE UpInv'
  BY <1>1, <1>3 DEF UpInv, Child, CloseListening, Read, PrintMsg, Exit, Listening, net
<1>4. ASSUME NEW c \in Clients, Client(c), UNCHANGED proc PROVE UpInv'
  BY <1>4, ClientStep DEF UpInv, IInv, ClientEffect, proc
<1> QED
  BY <1>2, <1>3, <1>4 DEF Next, UpInv, vars, net, proc

LEMMA SafeInit == Init => SafeInv
<1> SUFFICES ASSUME Init PROVE SafeInv
  OBVIOUS
<1>1. HeardInv
  <2>1. \A c \in Clients : taken[c] = 0 /\ sent[c] = 0 /\ printed[c] = <<>>
    BY DEF Init, NetInit
  <2>2. \A p \in Children : child[p] = "unborn"
    BY DEF Init
  <2> QED
    BY <2>1, <2>2 DEF HeardInv, Prints
<1> QED
  BY <1>1, InitInv DEF SafeInv, UpInv, Init, NetInit

LEMMA SafeNext == SafeInv /\ [Next]_vars => SafeInv'
  BY NextInv, HeardNext, UpNext DEF SafeInv

-----------------------------------------------------------------------------
(* ForkServer implements EchoService while forks succeed: the connection    *)
(* the parent is about to close is then held by its child, or was read to   *)
(* its end by it, or has broken.                                            *)
ForkSucceeds == parent = "fork" => forked < MaxProcs

HeardOut(c) == Eof(c) /\ Len(printed[c]) = sent[c]
Finished(c) == HeardOut(c) \/ client[c] = "lost"
Handed ==
  parent = "close" =>
    /\ newSockId \in Clients
    /\ (\E p \in Children : sock[p] = newSockId) \/ Finished(newSockId)

(* A child ends when it has read and printed all its client sent, or the    *)
(* connection has broken.                                                   *)
LEMMA ExitFinishes ==
  ASSUME SafeInv, NEW p \in Children, Exit(p)
  PROVE  sock[p] \in Clients /\ Finished(sock[p])
<1>1. child[p] = "read" /\ ReadEnds(sock[p]) /\ sock[p] \in Clients
  BY ReaderHasSocket DEF SafeInv, Exit, EndOfSession
<1>2. \A q \in Children : sock[q] = sock[p] => q = p
  BY <1>1, NobodyAssumption DEF SafeInv, IInv, ChildSock
<1>3. Len(printed[sock[p]]) = taken[sock[p]]
  BY <1>1, <1>2 DEF SafeInv, HeardInv, Prints
<1> QED
  BY <1>1, <1>3 DEF Finished, HeardOut, ReadEnds, Eof

(* Nothing more is heard on a finished connection, and one that has broken  *)
(* stays so.                                                                *)
LEMMA StaysLost ==
  ASSUME SafeInv, [Next]_vars, NEW c \in Clients, client[c] = "lost"
  PROVE  client'[c] = "lost"
<1>1. ASSUME NEW d \in Clients, Client(d) PROVE client'[c] = client[c]
  <2>1. client[d] # "lost" \/ UNCHANGED client
    BY <1>1 DEF Client, Connect, Write, Killed, Breaks
  <2> QED
    BY <1>1, <2>1 DEF Client, Connect, Write, Killed, Breaks, SafeInv, IInv, NetInv, NetTypeOK
<1>2. CASE Parent \/ AcceptFails \/ (\E p \in Children : Child(p)) \/ UNCHANGED vars
  BY <1>2 DEF Parent, Accept, AcceptFails, Fork, ParentClose, Child, CloseListening, Read,
              PrintMsg, Exit, vars, net
<1> QED
  BY <1>1, <1>2 DEF Next

LEMMA StaysHeardOut ==
  ASSUME SafeInv, [Next]_vars, NEW c \in Clients, HeardOut(c)
  PROVE  Finished(c)'
<1>1. /\ taken[c] = sent[c] /\ client[c] = "gone" /\ Len(printed[c]) = sent[c]
      /\ sent[c] \in Nat
  BY Numbers DEF HeardOut, Eof, SafeInv
<1>2. CASE Parent \/ AcceptFails \/ UNCHANGED vars
  BY <1>2 DEF Finished, HeardOut, Eof, Parent, Accept, AcceptFails, Fork, ParentClose, vars, net
<1>3. ASSUME NEW p \in Children, CloseListening(p) \/ Exit(p) PROVE Finished(c)'
  BY <1>3 DEF Finished, HeardOut, Eof, CloseListening, Exit, net
<1>4. ASSUME NEW p \in Children, Read(p) PROVE Finished(c)'
  <2>1. sock[p] # c
    BY <1>1, <1>4 DEF Read
  <2>2. taken'[c] = taken[c] /\ UNCHANGED <<sent, client, printed>>
    BY <1>4, <2>1 DEF Read, SafeInv, IInv, NetInv, NetTypeOK
  <2> QED
    BY <2>2 DEF Finished, HeardOut, Eof
<1>5. ASSUME NEW p \in Children, PrintMsg(p) PROVE Finished(c)'
  <2>1. ~Prints(p, c)
    BY <1>1 DEF SafeInv, HeardInv
  <2>2. printed'[c] = printed[c] /\ UNCHANGED <<sent, client, taken>>
    <3>1. \A d \in Clients : Prints(p, d) => d # c
      BY <2>1
    <3> QED
      BY <1>5, <3>1, PrintHears DEF PrintMsg, SafeInv
  <2> QED
    BY <2>2 DEF Finished, HeardOut, Eof
<1>6. ASSUME NEW d \in Clients, Client(d) PROVE Finished(c)'
  <2>1. CASE Breaks(d)
    <3>1. client'[c] = client[c] \/ client'[c] = "lost"
      BY <2>1 DEF Breaks, SafeInv, IInv, NetInv, NetTypeOK
    <3>2. UNCHANGED <<sent, taken, printed>>
      BY <2>1 DEF Breaks
    <3> QED
      BY <3>1, <3>2 DEF Finished, HeardOut, Eof
  <2>2. CASE Connect(d) \/ Write(d) \/ Killed(d)
    <3>1. client[d] # "gone"
      BY <2>2 DEF Connect, Write, Killed
    <3>2. d # c
      BY <1>1, <3>1
    <3>3. client'[c] = client[c] /\ sent'[c] = sent[c] /\ UNCHANGED <<taken, printed>>
      BY <2>2, <3>2 DEF Connect, Write, Killed, SafeInv, IInv, NetInv, NetTypeOK
    <3> QED
      BY <3>3 DEF Finished, HeardOut, Eof
  <2> QED
    BY <1>6, <2>1, <2>2 DEF Client
<1> QED
  BY <1>2, <1>3, <1>4, <1>5, <1>6 DEF Next, Child

LEMMA StaysFinished ==
  ASSUME SafeInv, [Next]_vars, NEW c \in Clients, Finished(c)
  PROVE  Finished(c)'
BY StaysLost, StaysHeardOut DEF Finished

LEMMA HandedNext == SafeInv /\ ForkSucceeds /\ Handed /\ [Next]_vars => Handed'
<1> SUFFICES ASSUME SafeInv, ForkSucceeds, Handed, [Next]_vars, parent' = "close"
             PROVE  Handed'
  BY DEF Handed
<1>1. CASE Fork
  <2>1. /\ newSockId \in Clients /\ newSockId' = newSockId
        /\ sock' = [sock EXCEPT ![forked + 1] = newSockId] /\ forked + 1 \in Children
    BY <1>1, ServerAssumption DEF Fork, ForkSucceeds, SafeInv, IInv, ParentSock, TypeOK, Children
  <2>2. sock'[forked + 1] = newSockId
    BY <2>1 DEF SafeInv, IInv, TypeOK
  <2> QED
    BY <2>1, <2>2 DEF Handed
<1>2. CASE ~Fork
  <2>1. parent = "close" /\ newSockId' = newSockId
    BY <1>2 DEF Next, Parent, Accept, ParentClose, AcceptFails, Child, CloseListening, Read, PrintMsg, Exit, vars, proc
  <2>2. newSockId \in Clients
    BY <2>1 DEF Handed
  <2>3. CASE Finished(newSockId)
    <3>1. PICK c \in Clients : c = newSockId
      BY <2>2
    <3>2. Finished(c)'
      BY <2>3, <3>1, StaysFinished
    <3> QED
      BY <2>1, <3>1, <3>2 DEF Handed
  <2>4. ASSUME NEW p \in Children, sock[p] = newSockId PROVE Handed'
    <3>1. CASE Exit(p)
      <4>1. PICK c \in Clients : c = newSockId
        BY <2>2
      <4>2. Finished(c)'
        BY <2>4, <3>1, <4>1, ExitFinishes, StaysFinished
      <4> QED
        BY <2>1, <4>1, <4>2 DEF Handed
    <3>2. CASE ~Exit(p)
      <4>1. sock'[p] = sock[p]
        BY <1>2, <3>2 DEF Next, Parent, Accept, ParentClose, AcceptFails, Child, CloseListening, Read, PrintMsg, Exit,
             vars, proc, SafeInv, IInv, TypeOK
      <4> QED
        BY <2>1, <2>2, <2>4, <4>1 DEF Handed
    <3> QED
      BY <3>1, <3>2
  <2> QED
    BY <2>1, <2>3, <2>4 DEF Handed
<1> QED
  BY <1>1, <1>2
-----------------------------------------------------------------------------
(* What EchoService sees of a connection.                                   *)
LEMMA ViewOf ==
  ASSUME NEW c \in Clients
  PROVE  /\ Held(c) => ServedView[c] = "yes"
         /\ ~Held(c) /\ (client[c] \in {"start", "refused"} \/ In(c, backlog)) => ServedView[c] = "no"
         /\ ~Held(c) /\ client[c] \notin {"start", "refused"} /\ ~In(c, backlog) => ServedView[c] = "over"
BY DEF ServedView, Served, Waiting, In

(* A step that changes neither the queue, the clients nor who is held.      *)
LEMMA SameView ==
  ASSUME QuietNet, \A c \in Clients : Held(c)' <=> Held(c)
  PROVE  ServedView' = ServedView /\ ClientView' = ClientView
<1>1. \A c \in Clients : Served(c, Held(c))' = Served(c, Held(c))
  BY DEF QuietNet, Served, Waiting
<1>2. \A c \in Clients : ClientState(c)' = ClientState(c)
  BY DEF QuietNet, ClientState
<1> QED
  BY <1>1, <1>2 DEF ServedView, ClientView

(* Nobody listens any more, or somebody still does. *)
LEMMA ListeningRefines ==
  ASSUME UpInv, NEW p, Listening(listens \ {p}), QuietNet, UNCHANGED <<sent, printed>>,
         \A c \in Clients : Held(c)' <=> Held(c)
  PROVE  Contract!Stop \/ UNCHANGED Contract!vars
<1>1. ServedView' = ServedView /\ ClientView' = ClientView
  BY SameView
<1>2. CASE up' = up
  BY <1>1, <1>2 DEF Contract!vars
<1>3. CASE up' # up
  <2>1. up /\ up' = FALSE
    BY <1>3 DEF UpInv, Listening
  <2>2. ServedView' = [c \in Clients |-> IF c \in {} THEN "over" ELSE ServedView[c]]
    BY <1>1 DEF ServedView
  <2>3. {} \in SUBSET {c \in Clients : ServedView[c] = "yes"}
    OBVIOUS
  <2> QED
    BY <1>1, <2>1, <2>2, <2>3 DEF Contract!Stop
<1> QED
  BY <1>2, <1>3

LEMMA AcceptRefines ==
  ASSUME SafeInv, Accept
  PROVE  \E c \in Clients : Contract!Serve(c)
<1>1. PICK c : c = Head(backlog)
  OBVIOUS
<1>2. AcceptEffect(c) /\ \A d : In(d, backlog) => d = c \/ In(d, backlog')
  BY <1>1, AcceptStep, TailWaits DEF SafeInv, IInv, NetInv, NetTypeOK, Accept
<1>3. /\ UNCHANGED <<up, client, sent, printed, sock>> /\ newSockId' = c /\ newSockId = Nobody
  BY <1>1 DEF Accept, SafeInv, IInv, ParentSock
<1>4. c \in Clients /\ c # Nobody /\ client[c] # "start" /\ In(c, backlog)
  BY <1>2, NobodyAssumption DEF AcceptEffect
<1>5. up
  BY DEF Accept, SafeInv, UpInv
<1>6. \A d \in Clients : Held(d)' <=> Held(d) \/ d = c
  BY <1>3, NobodyAssumption DEF Held
<1>7. ~Held(c)
  BY <1>4 DEF SafeInv, IInv, HeldOnce
<1>8. ServedView[c] = "no" /\ Served(c, Held(c))' = "yes"
  BY <1>4, <1>6, <1>7, ViewOf DEF Served
<1>9. \A d \in Clients \ {c} : Served(d, Held(d))' = Served(d, Held(d))
  <2> SUFFICES ASSUME NEW d \in Clients, d # c PROVE Served(d, Held(d))' = Served(d, Held(d))
    OBVIOUS
  <2>1. (Held(d)' <=> Held(d)) /\ (In(d, backlog') <=> In(d, backlog))
    BY <1>2, <1>6 DEF AcceptEffect
  <2>2. Waiting(d)' <=> Waiting(d)
    BY <2>1 DEF Waiting, In
  <2> QED
    BY <1>3, <2>1, <2>2 DEF Served
<1>10. ServedView' = [ServedView EXCEPT ![c] = "yes"]
  BY <1>4, <1>8, <1>9 DEF ServedView
<1>11. ClientView' = ClientView /\ ClientView[c] # "start"
  BY <1>3, <1>4 DEF ClientView, ClientState
<1> QED
  BY <1>3, <1>4, <1>5, <1>8, <1>10, <1>11 DEF Contract!Serve

(* The connection is let go by the last of its two holders. *)
LEMMA LetGoRefines ==
  ASSUME SafeInv, QuietNet, UNCHANGED <<up, sent, printed>>,
         NEW c \in Clients, Held(c), Finished(c), \A d \in Clients \ {c} : Held(d)' <=> Held(d)
  PROVE  Contract!LetGo(c) \/ UNCHANGED Contract!vars
<1>1. CASE Held(c)'
  BY <1>1, SameView DEF Contract!vars
<1>2. CASE ~Held(c)'
  <2>1. /\ client[c] \in {"gone", "lost"} /\ ~In(c, backlog)
        /\ client[c] = "gone" => Len(printed[c]) = sent[c]
    BY DEF Finished, HeardOut, Eof, SafeInv, IInv, HeldOnce
  <2>2. ServedView[c] = "yes" /\ Served(c, Held(c))' = "over"
    BY <1>2, <2>1, ViewOf DEF Served, Waiting, In, QuietNet
  <2>3. \A d \in Clients \ {c} : Served(d, Held(d))' = Served(d, Held(d))
    BY DEF Served, Waiting, QuietNet
  <2>4. ServedView' = [ServedView EXCEPT ![c] = "over"]
    BY <2>2, <2>3 DEF ServedView
  <2>5. ClientView' = ClientView /\ ClientView[c] = client[c]
    BY <2>1 DEF ClientView, ClientState, QuietNet
  <2> QED
    BY <2>1, <2>2, <2>4, <2>5 DEF Contract!LetGo
<1> QED
  BY <1>1, <1>2
LEMMA ParentRefines ==
  ASSUME SafeInv, ForkSucceeds, Handed, Fork \/ ParentClose \/ AcceptFails
  PROVE  [Contract!Next]_(Contract!vars)
<1>1. CASE Fork
  <2>1. /\ sock' = [sock EXCEPT ![forked + 1] = newSockId] /\ forked + 1 \in Children
        /\ UNCHANGED <<net, newSockId>> /\ sock[forked + 1] = Nobody
    BY <1>1, ServerAssumption DEF Fork, ForkSucceeds, SafeInv, IInv, TypeOK, ChildSock, Children
  <2>2. \A c \in Clients : Held(c)' <=> Held(c)
    BY <2>1, NobodyAssumption DEF SafeInv, IInv, TypeOK, Held
  <2> QED
    BY <2>1, <2>2, SameView DEF QuietNet, net, Contract!vars
<1>2. CASE ParentClose
  <2>1. PICK c : c = newSockId
    OBVIOUS
  <2>2. /\ c \in Clients /\ newSockId' = Nobody /\ UNCHANGED <<net, sock>>
        /\ (\E p \in Children : sock[p] = c) \/ Finished(c)
    BY <1>2, <2>1 DEF ParentClose, Handed, Closed
  <2>3. Held(c) /\ \A d \in Clients \ {c} : Held(d)' <=> Held(d)
    BY <2>1, <2>2, NobodyAssumption DEF Held
  <2>4. CASE \E p \in Children : sock[p] = c
    <3>1. \A d \in Clients : Held(d)' <=> Held(d)
      BY <2>2, <2>3, <2>4 DEF Held
    <3> QED
      BY <2>2, <3>1, SameView DEF QuietNet, net, Contract!vars
  <2>5. CASE Finished(c)
    <3>1. QuietNet /\ UNCHANGED <<up, sent, printed>>
      BY <2>2 DEF QuietNet, net
    <3>2. Contract!LetGo(c) \/ UNCHANGED Contract!vars
      BY <2>2, <2>3, <2>5, <3>1, LetGoRefines
    <3> QED
      BY <2>2, <3>2 DEF Contract!Next
  <2> QED
    BY <2>2, <2>4, <2>5
<1>3. CASE AcceptFails
  <2>1. /\ Listening(listens \ {0}) /\ QuietNet /\ UNCHANGED <<sent, printed>>
        /\ \A c \in Clients : Held(c)' <=> Held(c)
    BY <1>3 DEF AcceptFails, QuietNet, Held
  <2>2. Contract!Stop \/ UNCHANGED Contract!vars
    BY <2>1, ListeningRefines DEF SafeInv
  <2> QED
    BY <2>2 DEF Contract!Next
<1> QED
  BY <1>1, <1>2, <1>3

LEMMA ChildRefines ==
  ASSUME SafeInv, NEW p \in Children, Child(p)
  PROVE  [Contract!Next]_(Contract!vars)
<1>1. CASE CloseListening(p)
  <2>1. /\ Listening(listens \ {p}) /\ QuietNet /\ UNCHANGED <<sent, printed>>
        /\ \A c \in Clients : Held(c)' <=> Held(c)
    BY <1>1 DEF CloseListening, QuietNet, Held
  <2>2. Contract!Stop \/ UNCHANGED Contract!vars
    BY <2>1, ListeningRefines DEF SafeInv
  <2> QED
    BY <2>2 DEF Contract!Next
<1>2. CASE Read(p)
  <2>1. /\ QuietNet /\ UNCHANGED <<up, sent, printed>>
        /\ \A c \in Clients : Held(c)' <=> Held(c)
    BY <1>2 DEF Read, QuietNet, Held
  <2> QED
    BY <2>1, SameView DEF Contract!vars
<1>3. CASE PrintMsg(p)
  <2>1. PICK c \in Clients :
          /\ Prints(p, c) /\ taken[c] \in Len(printed[c]) + 1 .. sent[c]
          /\ printed' = [printed EXCEPT ![c] = Continued(printed[c], taken[c])]
    BY <1>3, PrintHears DEF SafeInv
  <2>2. /\ QuietNet /\ UNCHANGED <<up, sent>>
        /\ \A d \in Clients : Held(d)' <=> Held(d)
    BY <1>3 DEF PrintMsg, QuietNet, Held
  <2>3. ServedView' = ServedView /\ ClientView' = ClientView
    BY <2>2, SameView
  <2>4. ServedView[c] = "yes"
    BY <2>1, ViewOf DEF Prints, Held
  <2>5. printed' = [printed EXCEPT ![c] = [k \in 1 .. taken[c] |-> IF k \in DOMAIN @ THEN @[k] ELSE k]]
    BY <2>1 DEF Continued
  <2>6. Contract!Hear(c)
    BY <2>1, <2>2, <2>3, <2>4, <2>5 DEF Contract!Hear
  <2> QED
    BY <2>6 DEF Contract!Next
<1>4. CASE Exit(p)
  <2>1. PICK c : c = sock[p]
    OBVIOUS
  <2>2. c \in Clients /\ Finished(c) /\ Held(c)
    BY <1>4, <2>1, ExitFinishes DEF Held
  <2>3. sock' = [sock EXCEPT ![p] = Nobody] /\ UNCHANGED <<net, newSockId>>
    BY <1>4 DEF Exit
  <2>4. \A d \in Clients \ {c} : Held(d)' <=> Held(d)
    BY <2>1, <2>3, NobodyAssumption DEF Held, SafeInv, IInv, TypeOK
  <2>5. QuietNet /\ UNCHANGED <<up, sent, printed>>
    BY <2>3 DEF QuietNet, net
  <2>6. Contract!LetGo(c) \/ UNCHANGED Contract!vars
    BY <2>2, <2>4, <2>5, LetGoRefines
  <2> QED
    BY <2>2, <2>6 DEF Contract!Next
<1> QED
  BY <1>1, <1>2, <1>3, <1>4 DEF Child

LEMMA ClientRefines ==
  ASSUME SafeInv, NEW c \in Clients, Client(c), UNCHANGED proc
  PROVE  [Contract!Next]_(Contract!vars)
<1>1. /\ \A d \in Clients : Held(d)' <=> Held(d)
      /\ UNCHANGED <<up, printed>>
      /\ client \in [Clients -> {"start", "connected", "refused", "gone", "lost"}]
      /\ backlog \in Seq(Clients)
  BY DEF Held, proc, Client, Connect, Write, Killed, Breaks, SafeInv, IInv, NetInv, NetTypeOK
<1>2. CASE Write(c)
  <2>1. QuietNet /\ client[c] = "connected"
        /\ \E n \in sent[c] + 1 .. MaxMsgs : sent' = [sent EXCEPT ![c] = n]
    BY <1>2 DEF Write, QuietNet
  <2>2. ServedView' = ServedView /\ ClientView' = ClientView /\ ClientView[c] = "connected"
    BY <1>1, <2>1, SameView DEF ClientView, ClientState
  <2>3. Contract!Say(c)
    BY <1>1, <2>1, <2>2 DEF Contract!Say
  <2> QED
    BY <2>3 DEF Contract!Next
<1>3. CASE Killed(c)
  <2>1. /\ client[c] = "connected" /\ client' = [client EXCEPT ![c] = "gone"]
        /\ UNCHANGED <<backlog, sent>>
    BY <1>3 DEF Killed
  <2>2. client'[c] = "gone" /\ \A d \in Clients \ {c} : client'[d] = client[d]
    BY <1>1, <2>1
  <2>3. \A d \in Clients : Served(d, Held(d))' = Served(d, Held(d))
    BY <1>1, <2>1, <2>2 DEF Served, Waiting
  <2>4. ClientView' = [ClientView EXCEPT ![c] = "gone"] /\ ClientView[c] = "connected"
    BY <2>1, <2>2 DEF ClientView, ClientState
  <2>5. Contract!Leave(c)
    BY <1>1, <2>1, <2>3, <2>4 DEF Contract!Leave, ServedView
  <2> QED
    BY <2>5 DEF Contract!Next
<1>5. CASE Breaks(c)
  <2>1. /\ client[c] \in {"connected", "gone"} /\ client' = [client EXCEPT ![c] = "lost"]
        /\ UNCHANGED <<backlog, sent>>
    BY <1>5 DEF Breaks
  <2>2. client'[c] = "lost" /\ \A d \in Clients \ {c} : client'[d] = client[d]
    BY <1>1, <2>1
  <2>3. \A d \in Clients : Served(d, Held(d))' = Served(d, Held(d))
    BY <1>1, <2>1, <2>2 DEF Served, Waiting
  <2>4. ClientView' = [ClientView EXCEPT ![c] = "lost"] /\ ClientView[c] \in {"connected", "gone"}
    BY <2>1, <2>2 DEF ClientView, ClientState
  <2>5. Contract!Break(c)
    BY <1>1, <2>1, <2>3, <2>4 DEF Contract!Break, ServedView
  <2> QED
    BY <2>5 DEF Contract!Next
<1>4. CASE Connect(c)
  <2>1. client[c] = "start" /\ UNCHANGED sent /\ ~Held(c) /\ ~In(c, backlog)
    BY <1>4 DEF Connect, SafeInv, IInv, NetInv, HeldOnce
  <2>2. CASE up /\ backlog' = Append(backlog, c) /\ client' = [client EXCEPT ![c] = "connected"]
    <3>1. \A d : In(d, backlog') <=> In(d, backlog) \/ d = c
      BY <1>1, <2>2, AppendWaits
    <3>2. client'[c] = "connected" /\ \A d \in Clients \ {c} : client'[d] = client[d]
      BY <1>1, <2>2
    <3>3. \A d \in Clients : Served(d, Held(d))' = Served(d, Held(d))
      <4>1. \A d \in Clients : Waiting(d)' <=> Waiting(d) \/ d = c
        BY <3>1 DEF Waiting, In
      <4> QED
        BY <1>1, <2>1, <3>2, <4>1 DEF Served
    <3>4. ClientView' = [ClientView EXCEPT ![c] = "connected"] /\ ClientView[c] = "start"
      BY <2>1, <3>2 DEF ClientView, ClientState
    <3>5. Contract!Connect(c)
      BY <1>1, <2>1, <2>2, <3>3, <3>4 DEF Contract!Connect, ServedView
    <3> QED
      BY <3>5 DEF Contract!Next
  <2>3. CASE ~up /\ UNCHANGED backlog /\ client' = [client EXCEPT ![c] = "refused"]
    <3>1. client'[c] = "refused" /\ \A d \in Clients \ {c} : client'[d] = client[d]
      BY <1>1, <2>3
    <3>2. \A d \in Clients : Served(d, Held(d))' = Served(d, Held(d))
      BY <1>1, <2>1, <2>3, <3>1 DEF Served, Waiting
    <3>3. ClientView' = [ClientView EXCEPT ![c] = "gone"] /\ ClientView[c] = "start"
      BY <2>1, <3>1 DEF ClientView, ClientState
    <3>4. Contract!Leave(c)
      BY <1>1, <2>1, <2>3, <3>2, <3>3 DEF Contract!Leave, ServedView
    <3> QED
      BY <3>4 DEF Contract!Next
  <2> QED
    BY <1>4, <2>2, <2>3 DEF Connect
<1> QED
  BY <1>2, <1>3, <1>4, <1>5 DEF Client

LEMMA InitRefines == Init => Contract!Init /\ Handed
<1> SUFFICES ASSUME Init PROVE Contract!Init /\ Handed
  OBVIOUS
<1>1. \A c \in Clients : client[c] = "start" /\ ~Held(c)
  BY NobodyAssumption DEF Init, NetInit, Held
<1>2. ClientView = [c \in Clients |-> "start"] /\ ServedView = [c \in Clients |-> "no"]
  BY <1>1 DEF ClientView, ClientState, ServedView, Served
<1> QED
  BY <1>2 DEF Init, NetInit, Contract!Init, Handed

(* While no fork fails the server is an echo service: a connection is taken *)
(* once, in its turn, every message is printed once and in order, and the   *)
(* parent and the child between them let it go only when the client has     *)
(* left and all it sent is printed, or it has broken.                       *)
THEOREM ForkServes == Spec /\ []ForkSucceeds => Contract!Safety
<1>1. SafeInv /\ ForkSucceeds /\ Handed /\ [Next]_vars => [Contract!Next]_(Contract!vars)
  <2> SUFFICES ASSUME SafeInv, ForkSucceeds, Handed, [Next]_vars
               PROVE  [Contract!Next]_(Contract!vars)
    OBVIOUS
  <2>1. CASE Accept
    BY <2>1, AcceptRefines DEF Contract!Next
  <2>2. CASE UNCHANGED vars
    <3>1. QuietNet /\ UNCHANGED <<up, sent, printed>> /\ \A c \in Clients : Held(c)' <=> Held(c)
      BY <2>2 DEF vars, net, proc, QuietNet, Held
    <3> QED
      BY <3>1, SameView DEF Contract!vars
  <2> QED
    BY <2>1, <2>2, ParentRefines, ChildRefines, ClientRefines DEF Next, Parent
<1> QED
  BY <1>1, InitRefines, SafeInit, SafeNext, HandedNext, PTL DEF Spec, Contract!Safety
=============================================================================
