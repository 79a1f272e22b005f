----------------------------- MODULE MCWebClient -----------------------------
(* Short replies for WebClient. *)
EXTENDS WebClient

UpTo(len, S) == UNION {[1 .. k -> S] : k \in 0 .. len}

(* A header line, the empty line and any short body, whole or cut short;    *)
(* header lines fit the caller's buffer, body lines need not.               *)
Header == <<"x", "cr", "lf", "cr", "lf">>
ShortReplies ==
  {Header \o b : b \in UpTo(4, {"x", "lf"}) \cup UpTo(3, {"x", "lf", "nul"})}
  \cup {SubSeq(Header, 1, k) : k \in 0 .. 4}
=============================================================================
