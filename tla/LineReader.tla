----------------------------- MODULE LineReader -----------------------------
(***************************************************************************)
(* What a caller of Rio_readlineb is promised: call after call it is given *)
(* the stream cut up in one way, whatever the pieces it arrives in: up to  *)
(* and with the next '\n', but no more than fits the caller's buffer.      *)
(***************************************************************************)
EXTENDS Integers, Sequences, FiniteSetsExt

CONSTANT MAXBUF  (* bytes of the caller's buffer, the '\0' included *)

VARIABLES
  reply,     (* the stream, fixed: the kind of each byte                    *)
  consumed,  (* bytes of it that earlier calls have returned                *)
  given      (* the bytes the last call has returned, by position, until    *)
             (* the next one                                                *)

vars == <<reply, consumed, given>>
Waiting == <<>>

Init == consumed = 0 /\ given = Waiting

(* Where the line that starts after byte k ends. *)
EndOfLine(k) ==
  Min({e \in k + 1 .. Len(reply) : e = Len(reply) \/ e = k + MAXBUF - 1 \/ reply[e] = "lf"})

Call == given' = Waiting /\ UNCHANGED <<reply, consumed>>

Line ==
  /\ given = Waiting /\ consumed < Len(reply)
  /\ consumed' = EndOfLine(consumed)
  /\ given' = [k \in 1 .. consumed' - consumed |-> consumed + k]
  /\ UNCHANGED reply

Spec == Init /\ [][Call \/ Line]_vars
=============================================================================
