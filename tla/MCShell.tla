------------------------------ MODULE MCShell ------------------------------
(* Short inputs for Shell. *)
EXTENDS Shell

Line(cmd, to) == [cmd |-> cmd, to |-> to]

UpTo(n, S) == UNION {[1 .. k -> S] : k \in 0 .. n}

(* Every kind of line, with each redirection of a program's output.         *)
Kinds ==
  {Line(c, "") : c \in {"run", "missing", "noexec", "cd", "badcd", "exit", "empty", "spaces"}}
  \cup {Line("run", ">"), Line("run", ">>"), Line("fail", ">>"), Line("noexec", ">")}

ShortInputs == UpTo(3, Kinds)

(* Programs and the lines whose child leaves by exit(). *)
Script == UpTo(3, {Line("run", ""), Line("cd", ""), Line("missing", "")})
=============================================================================
