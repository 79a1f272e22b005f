---------------------------- MODULE EchoNetProofs ----------------------------
(***************************************************************************)
(* What the proofs about the two echo servers share: a client is in the    *)
(* queue of the listening socket at most once, and leaves it for good when *)
(* it is accepted.                                                         *)
(***************************************************************************)
EXTENDS EchoNet, SequenceTheorems, TLAPS

In(e, s) == \E k \in DOMAIN s : s[k] = e
Distinct(s) == \A i, j \in DOMAIN s : s[i] = s[j] => i = j

LEMMA FunctionIsSeq ==
  ASSUME NEW S, NEW n \in Nat, NEW f \in [1 .. n -> S]
  PROVE  f \in Seq(S) /\ Len(f) = n
<1>1. f \in Seq(S)
  BY SeqDef
<1>2. Len(f) \in Nat /\ 1 .. Len(f) = 1 .. n
  BY <1>1, LenProperties
<1> QED
  BY <1>1, <1>2

LEMMA AppendDistinct ==
  ASSUME NEW S, NEW s \in Seq(S), NEW e \in S, Distinct(s), ~In(e, s)
  PROVE  /\ Append(s, e) \in Seq(S) /\ Len(Append(s, e)) = Len(s) + 1
         /\ Distinct(Append(s, e))
         /\ \A d : In(d, Append(s, e)) => In(d, s) \/ d = e
<1> DEFINE t == Append(s, e)
<1>1. /\ t \in Seq(S) /\ Len(t) = Len(s) + 1 /\ t[Len(s) + 1] = e
      /\ \A k \in 1 .. Len(s) : t[k] = s[k]
  BY AppendProperties
<1>2. DOMAIN s = 1 .. Len(s) /\ DOMAIN t = 1 .. Len(s) + 1 /\ Len(s) \in Nat
  BY <1>1, LenProperties
<1> HIDE DEF t
<1>3. ASSUME NEW k \in DOMAIN t
      PROVE  (t[k] = e /\ k = Len(s) + 1) \/ (k \in DOMAIN s /\ t[k] = s[k])
  BY <1>1, <1>2
<1>4. Distinct(t)
  BY <1>3 DEF Distinct, In
<1>5. \A d : In(d, t) => In(d, s) \/ d = e
  BY <1>3 DEF In
<1> QED
  BY <1>1, <1>4, <1>5 DEF t

LEMMA TailDistinct ==
  ASSUME NEW S, NEW s \in Seq(S), s # <<>>, Distinct(s)
  PROVE  /\ Head(s) \in S /\ In(Head(s), s)
         /\ Tail(s) \in Seq(S) /\ Len(Tail(s)) <= Len(s)
         /\ Distinct(Tail(s)) /\ ~In(Head(s), Tail(s))
         /\ \A d : In(d, Tail(s)) => In(d, s)
<1> DEFINE t == Tail(s)
<1>1. /\ Head(s) = s[1] /\ Head(s) \in S /\ t \in Seq(S) /\ Len(t) = Len(s) - 1
      /\ \A k \in 1 .. Len(t) : t[k] = s[k + 1]
  BY HeadTailProperties
<1>2. DOMAIN s = 1 .. Len(s) /\ DOMAIN t = 1 .. Len(t) /\ Len(s) \in Nat /\ Len(s) # 0
  BY <1>1, LenProperties, EmptySeq
<1> HIDE DEF t
<1>3. 1 \in DOMAIN s
  BY <1>2
<1>4. ASSUME NEW k \in DOMAIN t PROVE k + 1 \in DOMAIN s /\ t[k] = s[k + 1] /\ k + 1 # 1
  BY <1>1, <1>2
<1>5. ASSUME NEW i \in DOMAIN t, NEW j \in DOMAIN t, i + 1 = j + 1 PROVE i = j
  BY <1>5, <1>2
<1>6. Distinct(t)
  BY <1>4, <1>5 DEF Distinct
<1>7. ~In(Head(s), t) /\ \A d : In(d, t) => In(d, s)
  BY <1>1, <1>3, <1>4 DEF Distinct, In
<1> QED
  BY <1>1, <1>2, <1>3, <1>6, <1>7 DEF In, t

(* Who waits in the queue changes by the one who comes or goes. *)
LEMMA AppendWaits ==
  ASSUME NEW S, NEW s \in Seq(S), NEW e \in S
  PROVE  \A d : In(d, Append(s, e)) <=> In(d, s) \/ d = e
<1> DEFINE t == Append(s, e)
<1>1. /\ t \in Seq(S) /\ Len(t) = Len(s) + 1 /\ t[Len(s) + 1] = e
      /\ \A k \in 1 .. Len(s) : t[k] = s[k]
  BY AppendProperties
<1>2. DOMAIN s = 1 .. Len(s) /\ DOMAIN t = 1 .. Len(s) + 1 /\ Len(s) \in Nat
  BY <1>1, LenProperties
<1> HIDE DEF t
<1>3. ASSUME NEW k \in DOMAIN t PROVE t[k] = e \/ (k \in DOMAIN s /\ t[k] = s[k])
  BY <1>1, <1>2
<1>4. ASSUME NEW k \in DOMAIN s PROVE k \in DOMAIN t /\ t[k] = s[k]
  BY <1>1, <1>2
<1>5. Len(s) + 1 \in DOMAIN t
  BY <1>2
<1> QED
  BY <1>1, <1>3, <1>4, <1>5 DEF In, t

LEMMA TailWaits ==
  ASSUME NEW S, NEW s \in Seq(S), s # <<>>
  PROVE  \A d : In(d, s) => d = Head(s) \/ In(d, Tail(s))
<1> DEFINE t == Tail(s)
<1>1. /\ Head(s) = s[1] /\ t \in Seq(S) /\ Len(t) = Len(s) - 1
      /\ \A k \in 1 .. Len(t) : t[k] = s[k + 1]
  BY HeadTailProperties
<1>2. DOMAIN s = 1 .. Len(s) /\ DOMAIN t = 1 .. Len(t) /\ Len(s) \in Nat
  BY <1>1, LenProperties
<1> HIDE DEF t
<1>3. ASSUME NEW k \in DOMAIN s, k # 1
      PROVE  k - 1 \in DOMAIN t /\ t[k - 1] = s[k]
  <2>1. k - 1 \in 1 .. Len(t) /\ (k - 1) + 1 = k
    BY <1>1, <1>2, <1>3
  <2> QED
    BY <1>1, <1>2, <2>1
<1> QED
  BY <1>1, <1>3 DEF In, t

-----------------------------------------------------------------------------
(* A client in the queue is not one still to connect. *)
NetInv ==
  /\ NetTypeOK
  /\ Distinct(backlog)
  /\ \A c \in Clients : In(c, backlog) => client[c] # "start"

LEMMA NetInitInv == NetInit => NetInv /\ \A c \in Clients : ~In(c, backlog)
BY NetAssumption DEF NetInit, NetInv, NetTypeOK, Distinct, In

(* What a server may rely on of a client's step. *)
ClientEffect ==
  /\ UNCHANGED <<up, taken, printed>>
  /\ \A d \in Clients : In(d, backlog') => In(d, backlog) \/ client[d] = "start"
  /\ \A d \in Clients : client[d] # "start" => client'[d] # "start"
  /\ \A d \in Clients : sent[d] <= sent'[d]

LEMMA ClientStep ==
  ASSUME NetInv, NEW c \in Clients, Client(c)
  PROVE  NetInv' /\ ClientEffect
<1> USE NetAssumption
<1>1. CASE Write(c)
  <2>2. PICK n \in sent[c] + 1 .. MaxMsgs : sent' = [sent EXCEPT ![c] = n]
    BY <1>1 DEF Write
  <2>3. sent \in [Clients -> 0 .. MaxMsgs] /\ n \in 0 .. MaxMsgs /\ sent[c] <= n
    BY <2>2 DEF NetInv, NetTypeOK
  <2>1. /\ UNCHANGED <<up, backlog, client, taken, printed>>
        /\ sent' \in [Clients -> 0 .. MaxMsgs]
        /\ \A d \in Clients : sent[d] <= sent'[d]
    BY <1>1, <2>2, <2>3 DEF Write
  <2> QED
    BY <2>1 DEF NetInv, NetTypeOK, ClientEffect
<1>3. CASE Killed(c) \/ Breaks(c)
  <2>1. /\ UNCHANGED <<up, backlog, sent, taken, printed>>
        /\ client' \in [Clients -> {"start", "connected", "refused", "gone", "lost"}]
        /\ \A d \in Clients : client[d] # "start" => client'[d] # "start"
    BY <1>3 DEF Killed, Breaks, NetInv, NetTypeOK
  <2> QED
    BY <2>1 DEF NetInv, NetTypeOK, ClientEffect
<1>2. CASE Connect(c)
  <2>1. CASE backlog' = Append(backlog, c) /\ Len(backlog) < QUEUE_LIM
             /\ client' = [client EXCEPT ![c] = "connected"]
    <3>1. client[c] = "start" /\ ~In(c, backlog) /\ backlog \in Seq(Clients) /\ Distinct(backlog)
      BY <1>2 DEF Connect, NetInv, NetTypeOK
    <3>2. /\ backlog' \in Seq(Clients) /\ Len(backlog') = Len(backlog) + 1
          /\ Distinct(backlog')
          /\ \A d : In(d, backlog') => In(d, backlog) \/ d = c
      BY <2>1, <3>1, AppendDistinct
    <3>3. NetTypeOK'
      BY <1>2, <2>1, <3>2 DEF Connect, NetInv, NetTypeOK
    <3> QED
      BY <1>2, <2>1, <3>1, <3>2, <3>3 DEF Connect, NetInv, NetTypeOK, ClientEffect
  <2>2. CASE UNCHANGED backlog /\ client' = [client EXCEPT ![c] = "refused"]
    BY <1>2, <2>2 DEF Connect, NetInv, NetTypeOK, ClientEffect, In, Distinct
  <2> QED
    BY <1>2, <2>1, <2>2 DEF Connect
<1> QED
  BY <1>1, <1>2, <1>3 DEF Client

(* A server takes the first connection of the queue. *)
AcceptEffect(c) ==
  /\ c \in Clients /\ client[c] # "start"
  /\ In(c, backlog) /\ ~In(c, backlog')
  /\ \A d \in Clients : In(d, backlog') => In(d, backlog)

LEMMA AcceptStep ==
  ASSUME NetInv, backlog # <<>>, backlog' = Tail(backlog),
         UNCHANGED <<up, client, sent, taken, printed>>
  PROVE  NetInv' /\ AcceptEffect(Head(backlog))
<1>1. backlog \in Seq(Clients) /\ Distinct(backlog)
  BY DEF NetInv, NetTypeOK
<1>2. /\ Head(backlog) \in Clients /\ In(Head(backlog), backlog)
      /\ backlog' \in Seq(Clients) /\ Len(backlog') <= Len(backlog)
      /\ Distinct(backlog') /\ ~In(Head(backlog), backlog')
      /\ \A d : In(d, backlog') => In(d, backlog)
  BY <1>1, TailDistinct
<1>3. Len(backlog') <= QUEUE_LIM
  BY <1>1, <1>2, NetAssumption, LenProperties DEF NetInv, NetTypeOK
<1> QED
  BY <1>2, <1>3 DEF NetInv, NetTypeOK, AcceptEffect

(* What is printed of a read is some of the messages that were sent. *)
LEMMA MessagesType ==
  ASSUME NEW a \in 1 .. MaxMsgs, NEW b \in 0 .. MaxMsgs
  PROVE  Messages(a, b) \in Seq(1 .. MaxMsgs)
<1>1. CASE b < a
  <2>1. Messages(a, b) = <<>>
    BY <1>1, NetAssumption DEF Messages
  <2> QED
    BY <2>1
<1>2. CASE a <= b
  <2>1. b - a + 1 \in Nat /\ Messages(a, b) \in [1 .. b - a + 1 -> 1 .. MaxMsgs]
    BY <1>2, NetAssumption DEF Messages
  <2> QED
    BY <2>1, FunctionIsSeq, Zenon
<1> QED
  BY <1>1, <1>2, NetAssumption

(* The messages after those of s, up to b, are what a reader would add. *)
Continued(s, b) == [k \in 1 .. b |-> IF k \in DOMAIN s THEN s[k] ELSE k]

LEMMA MessagesFollow ==
  ASSUME NEW S, NEW s \in Seq(S), NEW b \in Nat, Len(s) < b
  PROVE  s \o Messages(Len(s) + 1, b) = Continued(s, b)
<1> DEFINE m == Messages(Len(s) + 1, b)
<1>1. Len(s) \in Nat /\ DOMAIN s = 1 .. Len(s)
  BY LenProperties
<1>2. m = [k \in 1 .. b - Len(s) |-> Len(s) + k]
  <2>1. b - (Len(s) + 1) + 1 = b - Len(s)
    BY <1>1
  <2>2. \A k \in 1 .. b - Len(s) : Len(s) + 1 + k - 1 = Len(s) + k
    BY <1>1
  <2> QED
    BY <2>1, <2>2 DEF Messages
<1>3. m \in Seq(Nat) /\ Len(m) = b - Len(s)
  <2>1. b - Len(s) \in Nat /\ m \in [1 .. b - Len(s) -> Nat]
    BY <1>1, <1>2
  <2> QED
    BY <2>1, FunctionIsSeq, Zenon
<1>4. s \in Seq(S \cup Nat) /\ m \in Seq(S \cup Nat)
  <2>1. s \in [1 .. Len(s) -> S \cup Nat] /\ m \in [1 .. Len(m) -> S \cup Nat]
    <3>1. m \in [1 .. Len(m) -> Nat] /\ s \in [1 .. Len(s) -> S]
      BY <1>3, LenProperties
    <3> QED
      BY <3>1
  <2>2. Len(m) \in Nat /\ Len(s) \in Nat
    BY <1>1, <1>3
  <2> QED
    BY <2>1, <2>2, SeqDef
<1> HIDE DEF m
<1>5. PICK t : t = s \o m
  OBVIOUS
<1>6. /\ t \in Seq(S \cup Nat) /\ Len(t) = b
      /\ \A k \in 1 .. b : t[k] = IF k <= Len(s) THEN s[k] ELSE m[k - Len(s)]
  <2>1. Len(s) + Len(m) = b
    BY <1>1, <1>3
  <2> QED
    BY <1>4, <1>5, <2>1, ConcatProperties
<1>7. ASSUME NEW k \in 1 .. b
      PROVE  t[k] = IF k \in DOMAIN s THEN s[k] ELSE k
  <2>1. k > Len(s) => k - Len(s) \in 1 .. b - Len(s) /\ Len(s) + (k - Len(s)) = k
    BY <1>1
  <2>2. k > Len(s) => m[k - Len(s)] = k
    BY <1>2, <2>1
  <2>3. k \in DOMAIN s <=> k <= Len(s)
    BY <1>1
  <2> QED
    BY <1>1, <1>6, <2>2, <2>3
<1>8. t = [k \in 1 .. b |-> t[k]]
  BY <1>6, LenProperties
<1>9. t = Continued(s, b)
  BY <1>7, <1>8 DEF Continued
<1> QED
  BY <1>5, <1>9 DEF m
=============================================================================
