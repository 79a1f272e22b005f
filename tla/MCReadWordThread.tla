-------------------------- MODULE MCReadWordThread --------------------------
(* Small rings and files for ReadWordThread. *)
EXTENDS ReadWordThread

(* Every file of at most NO_THREADS_COUNT + 1 words, with and without text  *)
(* after the last delimiter.                                                *)
AnyFile == [words : 0 .. NO_THREADS_COUNT + 1, tail : BOOLEAN]

(* Files that hold at least one word for every thread. *)
LongFile == [words : {NO_THREADS_COUNT}, tail : {FALSE}]
=============================================================================
