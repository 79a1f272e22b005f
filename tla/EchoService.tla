----------------------------- MODULE EchoService -----------------------------
(***************************************************************************)
(* What the clients of either echo server are promised: a connection that  *)
(* is taken is served until the client has left or the connection breaks,  *)
(* what a client sent is heard once and in order, all of it before an      *)
(* unbroken connection is let go, and while the server is up every client  *)
(* is served.                                                              *)
(***************************************************************************)
EXTENDS Integers, Sequences

CONSTANTS Clients, MaxMsgs  (* messages a client sends at most *)

VARIABLES
  up,      (* the server takes connections                                 *)
  client,  (* each client: "start", "connected", "gone" or "lost"          *)
  sent,    (* messages it has written                                      *)
  heard,   (* the messages printed for it, in order                        *)
  served   (* its connection: "no", "yes" or "over"                        *)

vars == <<up, client, sent, heard, served>>

Init ==
  /\ up = TRUE
  /\ client = [c \in Clients |-> "start"]
  /\ sent = [c \in Clients |-> 0]
  /\ heard = [c \in Clients |-> <<>>]
  /\ served = [c \in Clients |-> "no"]

Connect(c) ==
  /\ client[c] = "start" /\ up
  /\ client' = [client EXCEPT ![c] = "connected"]
  /\ UNCHANGED <<up, sent, heard, served>>

Leave(c) ==
  /\ client[c] = "connected" \/ (client[c] = "start" /\ ~up)
  /\ client' = [client EXCEPT ![c] = "gone"]
  /\ UNCHANGED <<up, sent, heard, served>>

Say(c) ==
  /\ client[c] = "connected"
  /\ \E n \in sent[c] + 1 .. MaxMsgs : sent' = [sent EXCEPT ![c] = n]
  /\ UNCHANGED <<up, client, heard, served>>

Serve(c) ==
  /\ up /\ client[c] # "start" /\ served[c] = "no"
  /\ served' = [served EXCEPT ![c] = "yes"]
  /\ UNCHANGED <<up, client, sent, heard>>

Hear(c) ==
  /\ served[c] = "yes"
  /\ \E n \in Len(heard[c]) + 1 .. sent[c] :
       heard' = [heard EXCEPT ![c] = [k \in 1 .. n |-> IF k \in DOMAIN @ THEN @[k] ELSE k]]
  /\ UNCHANGED <<up, client, sent, served>>

Break(c) ==
  /\ client[c] \in {"connected", "gone"}
  /\ client' = [client EXCEPT ![c] = "lost"]
  /\ UNCHANGED <<up, sent, heard, served>>

LetGo(c) ==
  /\ served[c] = "yes"
  /\ (client[c] = "gone" /\ Len(heard[c]) = sent[c]) \/ client[c] = "lost"
  /\ served' = [served EXCEPT ![c] = "over"]
  /\ UNCHANGED <<up, client, sent, heard>>

(* The server stops: no connection is taken any more, and those of D end.   *)
Stop ==
  /\ up /\ up' = FALSE
  /\ \E D \in SUBSET {c \in Clients : served[c] = "yes"} :
       served' = [c \in Clients |-> IF c \in D THEN "over" ELSE served[c]]
  /\ UNCHANGED <<client, sent, heard>>

Next ==
  \/ Stop
  \/ \E c \in Clients : \/ Connect(c) \/ Leave(c) \/ Say(c)
                        \/ Break(c) \/ Serve(c) \/ Hear(c) \/ LetGo(c)

Safety == Init /\ [][Next]_vars
Spec ==
  /\ Safety
  /\ \A c \in Clients : /\ WF_vars(Serve(c))
                        /\ WF_vars(up /\ Hear(c))
                        /\ WF_vars(up /\ LetGo(c))
=============================================================================
