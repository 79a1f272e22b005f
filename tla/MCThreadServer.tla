--------------------------- MODULE MCThreadServer ---------------------------
(* Clients are model values; the bounds are those of the .cfg. *)
EXTENDS ThreadServer
=============================================================================
