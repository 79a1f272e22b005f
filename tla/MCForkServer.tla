---------------------------- MODULE MCForkServer ----------------------------
(* Clients are model values; the bounds are those of the .cfg. *)
EXTENDS ForkServer
=============================================================================
