------------------------------ MODULE FileFetch ------------------------------
(***************************************************************************)
(* proj3_web_crawler/file_tester.c: fetch, which asks a file for its size, *)
(* keeps that in an int and then reads that many bytes, while other        *)
(* processes cut the file or write to it.  Every byte written is a new     *)
(* number, so that a page made of bytes from different times shows.        *)
(***************************************************************************)
EXTENDS Integers, Sequences

CONSTANTS
  MaxSize,    (* bytes the file may have                                   *)
  MaxWrites,  (* bytes other processes write                               *)
  INT_MAX     (* the greatest int                                          *)

ASSUME FileAssumption == MaxSize \in Nat /\ MaxWrites \in Nat /\ INT_MAX \in Nat

VARIABLES
  file,     (* its bytes                                                   *)
  stamp,    (* the last byte written to it                                 *)
  fetchPc,  (* fetch: "open", "seek", "read", "returned", "null" or        *)
            (* "aborted" by an assertion                                   *)
  page,     (* buf without its '\0'; 0 is memory nobody has written to     *)
  fetchPos, (* bytes of it that are filled                                 *)
  offset,   (* the file offset                                             *)
  held      (* what the file has held since it was opened, and where       *)

others == <<file, stamp>>
fetch == <<fetchPc, page, fetchPos, offset>>
fetchVars == <<others, fetch, held>>

Bytes(f) == {<<k, f[k]>> : k \in DOMAIN f}

FetchInit ==
  /\ stamp = MaxSize /\ \E size \in 0 .. MaxSize : file = [k \in 1 .. size |-> k]
  /\ fetchPc = "open" /\ page = <<>> /\ fetchPos = 0 /\ offset = 0 /\ held = {}

(* The other processes. *)
Truncate ==
  /\ \E size \in 0 .. Len(file) - 1 : file' = SubSeq(file, 1, size)
  /\ UNCHANGED <<stamp, fetch, held>>

Write ==
  /\ stamp < MaxSize + MaxWrites
  /\ stamp' = stamp + 1
  /\ \/ Len(file) < MaxSize /\ file' = Append(file, stamp')
     \/ \E k \in DOMAIN file : file' = [file EXCEPT ![k] = stamp']
  /\ held' = IF fetchPc = "open" THEN held ELSE held \cup Bytes(file')
  /\ UNCHANGED fetch

-----------------------------------------------------------------------------
Open ==
  /\ fetchPc = "open"
  /\ \/ fetchPc' = "seek" /\ held' = Bytes(file)
     \/ fetchPc' = "null" /\ UNCHANGED held
  /\ UNCHANGED <<others, page, fetchPos, offset>>

(* lseek to the end and back.  The first one's result becomes an int, which *)
(* has only its low bits: a negative one, as of a call that has failed,     *)
(* ends in an assertion, and so does Malloc when there is no memory.        *)
(* (size + 1 overflows for INT_MAX; both ends are there for it as well.)    *)
AsInt(off, size) == (off - size) % (2 * (INT_MAX + 1)) = 0

Rewound == 0

Allocate ==
  /\ fetchPc = "seek"
  /\ \E size \in 0 .. INT_MAX :
       /\ AsInt(Len(file), size)
       /\ fetchPc' = "read"
       /\ page' = [k \in 1 .. size |-> 0] /\ offset' = Rewound
  /\ UNCHANGED <<others, fetchPos, held>>

AllocateFails ==
  /\ fetchPc = "seek"
  /\ fetchPc' = "aborted"
  /\ UNCHANGED <<others, page, fetchPos, offset, held>>

(* read() returns some of the bytes there are from the offset on. *)
OneByte(rv) == fetchPos + 1  (* mutant *)
OneMore(rv) == fetchPos + rv + 1  (* mutant *)
Filled(rv) == fetchPos + rv

Read ==
  /\ fetchPc = "read" /\ fetchPos < Len(page)
  /\ \E rv \in 1 .. Len(page) - fetchPos :
       /\ offset + rv <= Len(file)
       /\ page' = [k \in DOMAIN page |-> IF k \in fetchPos + 1 .. fetchPos + rv
                                         THEN file[offset + k - fetchPos] ELSE page[k]]
       /\ fetchPos' = Filled(rv) /\ offset' = offset + rv
  /\ UNCHANGED <<others, fetchPc, held>>

(* assert(rv > 0): the file has become too short, or the call has failed or *)
(* been interrupted.                                                        *)
ShortIgnored == "read"  (* mutant: the assertion is gone *)
AfterShortRead == "aborted"

ReadNothing ==
  /\ fetchPc = "read" /\ fetchPos < Len(page)
  /\ offset >= Len(file)
  /\ fetchPc' = AfterShortRead
  /\ UNCHANGED <<others, page, fetchPos, offset, held>>

ReadFails ==
  /\ fetchPc = "read" /\ fetchPos < Len(page)
  /\ fetchPc' = "aborted"
  /\ UNCHANGED <<others, page, fetchPos, offset, held>>

Return ==
  /\ fetchPc = "read" /\ fetchPos >= Len(page)
  /\ fetchPc' = "returned"
  /\ UNCHANGED <<others, page, fetchPos, offset, held>>

Others == Truncate \/ Write
Fetch == Open \/ Allocate \/ AllocateFails \/ Read \/ ReadNothing \/ Return

FetchNext == Others \/ Fetch \/ ReadFails

FetchSpec == FetchInit /\ [][FetchNext]_fetchVars

-----------------------------------------------------------------------------
FetchTypeOK ==
  /\ stamp \in 0 .. MaxSize + MaxWrites
  /\ file \in Seq(1 .. stamp) /\ Len(file) <= MaxSize
  /\ fetchPc \in {"open", "seek", "read", "returned", "null", "aborted"}
  /\ page \in Seq(0 .. stamp) /\ Len(page) <= INT_MAX
  /\ fetchPos \in 0 .. Len(page) /\ offset \in 0 .. MaxSize
  /\ held \subseteq (1 .. MaxSize) \X (1 .. stamp)

(* The page fetch returns has no byte of unwritten memory: each was in the  *)
(* file, at its place, at some time since the file was opened.              *)
PageWasThere == fetchPc = "returned" => Bytes(page) \subseteq held

(* fetch ends, also when the file has become shorter than its size was, or  *)
(* is longer than an int can say.                                           *)
FetchEnds == <>(fetchPc \in {"returned", "null", "aborted"})
=============================================================================
