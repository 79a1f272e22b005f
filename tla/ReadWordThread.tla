--------------------------- MODULE ReadWordThread ---------------------------
(***************************************************************************)
(* read_word_thread.c: NO_THREADS_COUNT threads take turns around a ring   *)
(* to read one word each from a shared FILE and print it.  A turn is       *)
(* passed by setting done[next] and signalling cv[next] under one mutex.   *)
(*                                                                         *)
(* A step is one critical-section segment between two points another       *)
(* thread can observe.  feof(fp) is also read outside the mutex, so the    *)
(* step that sets the end-of-file indicator is a step of its own.          *)
(***************************************************************************)
EXTENDS Integers, Sequences

CONSTANTS
  NO_THREADS_COUNT,  (* number of threads in the ring                      *)
  Files              (* the inputs t.txt may be: a number of words ended   *)
                     (* by ' ' or '\n', and whether text follows the last  *)

ASSUME ThreadsAssumption == NO_THREADS_COUNT \in Nat \ {0}
ASSUME FilesAssumption == Files \subseteq [words : Nat, tail : BOOLEAN]

Threads == 0 .. NO_THREADS_COUNT - 1

NextSkipsOne(i) == (i + 2) % NO_THREADS_COUNT  (* mutant *)
NextWrapsEarly(i) == IF i = NO_THREADS_COUNT - 2 THEN 0 ELSE i + 1  (* mutant *)
Next_(i) == (i + 1) % NO_THREADS_COUNT

Free == -1            (* the mutex has no owner                            *)
EmptyWordIsEOF == -1  (* mutant *)
EmptyWord == 0        (* what GetTheWord leaves in str at end of file      *)

VARIABLES
  file,      (* the input, fixed for a behaviour                           *)
  pos,       (* words already taken from fp, the unfinished last included  *)
  feof,      (* the end-of-file indicator of fp                            *)
  lock,      (* owner of the mutex, or Free                                *)
  done,      (* done[i]: thread i may take its turn                        *)
  eof_done,  (* set by a thread whose read met end of file                 *)
  pc,        (* where each thread is                                       *)
  str,       (* each thread's local buffer: the number of the word read    *)
  mainPc,    (* where main is                                              *)
  spawned,   (* threads main has created                                   *)
  output     (* words printed, as <<word, thread>>                         *)

vars == <<file, pos, feof, lock, done, eof_done, pc, str, mainPc, spawned, output>>
fileVars == <<file, pos, feof>>

PcValues == {"unborn", "test", "acquire", "first", "wait1", "wake1", "getword",
             "print", "handover", "second", "wait2", "wake2", "exited"}

(* A thread inside the mutex. *)
Holding == {"first", "getword", "print", "handover", "second"}

Init ==
  /\ file \in Files
  /\ pos = 0 /\ feof = FALSE
  /\ lock = Free
  /\ done = [i \in Threads |-> 0]
  /\ eof_done = 0
  /\ pc = [i \in Threads |-> "unborn"]
  /\ str = [i \in Threads |-> EmptyWord]
  /\ mainPc = "create" /\ spawned = 0
  /\ output = <<>>

-----------------------------------------------------------------------------
Goto(i, label) == pc' = [pc EXCEPT ![i] = label]

(* pthread_cond_signal on every cv of S: thread i is the only one that ever *)
(* waits on cv[i], and a woken thread still has to win the mutex back.      *)
SignalLost(f, S) == f  (* mutant *)
Signalled(f, S) ==
  [i \in Threads |-> IF i \in S /\ f[i] = "wait1" THEN "wake1"
                     ELSE IF i \in S /\ f[i] = "wait2" THEN "wake2"
                     ELSE f[i]]

(* while (feof(fp) == 0), read with no lock held. *)
TestEof(i) ==
  /\ pc[i] = "test"
  /\ Goto(i, IF feof THEN "exited" ELSE "acquire")
  /\ UNCHANGED <<fileVars, lock, done, eof_done, str, mainPc, spawned, output>>

(* pthread_mutex_lock at the top of the loop. *)
Acquire(i) ==
  /\ pc[i] = "acquire" /\ lock = Free
  /\ lock' = i
  /\ Goto(i, "first")
  /\ UNCHANGED <<fileVars, done, eof_done, str, mainPc, spawned, output>>

(* while (done[i] == 0) pthread_cond_wait(&cv[i], &lock). *)
WaitForTurn(i) ==
  /\ pc[i] = "first" /\ done[i] = 0
  /\ lock' = Free
  /\ Goto(i, "wait1")
  /\ UNCHANGED <<fileVars, done, eof_done, str, mainPc, spawned, output>>

TakeTurn(i) ==
  /\ pc[i] = "first" /\ done[i] # 0
  /\ Goto(i, "getword")
  /\ UNCHANGED <<fileVars, lock, done, eof_done, str, mainPc, spawned, output>>

(* GetTheWord: characters up to ' ', '\n' or EOF.  Meeting EOF sets the     *)
(* indicator, whether or not characters came before it.                     *)
GetTheWord(i) ==
  /\ pc[i] = "getword"
  /\ \/ /\ pos < file.words
        /\ pos' = pos + 1 /\ feof' = feof
        /\ str' = [str EXCEPT ![i] = pos + 1]
     \/ /\ pos = file.words /\ file.tail
        /\ pos' = pos + 1 /\ feof' = TRUE
        /\ str' = [str EXCEPT ![i] = pos + 1]
     \/ /\ pos > file.words \/ (pos = file.words /\ ~file.tail)
        /\ pos' = pos /\ feof' = TRUE
        /\ str' = [str EXCEPT ![i] = EmptyWord]
  /\ Goto(i, "print")
  /\ UNCHANGED <<file, lock, done, eof_done, mainPc, spawned, output>>

(* The rest of PrintWord: print, or release every thread of the ring. *)
PrintTheWord(i) ==
  /\ pc[i] = "print" /\ ~feof
  /\ output' = Append(output, <<str[i], i>>)
  /\ Goto(i, "handover")
  /\ UNCHANGED <<fileVars, lock, done, eof_done, str, mainPc, spawned>>

ReleasedNone == done  (* mutant *)
Released == [j \in Threads |-> 1]

ReleaseAll(i) ==
  /\ pc[i] = "print" /\ feof
  /\ eof_done' = 1
  /\ done' = Released
  /\ pc' = [Signalled(pc, Threads) EXCEPT ![i] = "handover"]
  /\ UNCHANGED <<fileVars, lock, str, mainPc, spawned, output>>

(* done[next] = 1; done[i] = 0; pthread_cond_signal(&cv[next]). *)
PassedKeepingIt(i) == [done EXCEPT ![Next_(i)] = 1]  (* mutant *)
Passed(i) == [done EXCEPT ![Next_(i)] = 1, ![i] = 0]

HandOver(i) ==
  /\ pc[i] = "handover"
  /\ done' = Passed(i)
  /\ pc' = [Signalled(pc, {Next_(i)}) EXCEPT ![i] = "second"]
  /\ UNCHANGED <<fileVars, lock, eof_done, str, mainPc, spawned, output>>

(* while (eof_done == 0 && feof(fp) == 0) pthread_cond_wait(&cv[i], &lock). *)
WaitForEof(i) ==
  /\ pc[i] = "second" /\ eof_done = 0 /\ ~feof
  /\ lock' = Free
  /\ Goto(i, "wait2")
  /\ UNCHANGED <<fileVars, done, eof_done, str, mainPc, spawned, output>>

Unlock(i) ==
  /\ pc[i] = "second" /\ (eof_done # 0 \/ feof)
  /\ lock' = Free
  /\ Goto(i, "test")
  /\ UNCHANGED <<fileVars, done, eof_done, str, mainPc, spawned, output>>

(* pthread_cond_wait returns once the woken thread owns the mutex again. *)
Reacquire(i) ==
  /\ pc[i] \in {"wake1", "wake2"} /\ lock = Free
  /\ lock' = i
  /\ Goto(i, IF pc[i] = "wake1" THEN "first" ELSE "second")
  /\ UNCHANGED <<fileVars, done, eof_done, str, mainPc, spawned, output>>

(* POSIX lets pthread_cond_wait return with no signal. *)
SpuriousWake(i) ==
  /\ pc[i] \in {"wait1", "wait2"}
  /\ pc' = Signalled(pc, {i})
  /\ UNCHANGED <<fileVars, lock, done, eof_done, str, mainPc, spawned, output>>

Thread(i) ==
  \/ TestEof(i) \/ Acquire(i) \/ WaitForTurn(i) \/ TakeTurn(i) \/ GetTheWord(i)
  \/ PrintTheWord(i) \/ ReleaseAll(i) \/ HandOver(i) \/ WaitForEof(i)
  \/ Unlock(i) \/ Reacquire(i)

-----------------------------------------------------------------------------
(* main creates the threads in order; each may run before the next exists.  *)
(* The sleeps order nothing and are left out.                               *)
CreateThread ==
  /\ mainPc = "create" /\ spawned < NO_THREADS_COUNT
  /\ Goto(spawned, "test")
  /\ spawned' = spawned + 1
  /\ mainPc' = IF spawned + 1 = NO_THREADS_COUNT THEN "kick" ELSE "create"
  /\ UNCHANGED <<fileVars, lock, done, eof_done, str, output>>

(* Lock, done[0] = 1, signal cv[0], unlock: one critical section of main.   *)
KickOff ==
  /\ mainPc = "kick" /\ lock = Free
  /\ done' = [done EXCEPT ![0] = 1]
  /\ pc' = Signalled(pc, {0})
  /\ mainPc' = "join"
  /\ UNCHANGED <<fileVars, lock, eof_done, str, spawned, output>>

(* pthread_join of every thread, then fclose. *)
JoinAll ==
  /\ mainPc = "join"
  /\ \A i \in Threads : pc[i] = "exited"
  /\ mainPc' = "closed"
  /\ UNCHANGED <<fileVars, lock, done, eof_done, pc, str, spawned, output>>

Main == CreateThread \/ KickOff \/ JoinAll

Next == Main \/ \E i \in Threads : Thread(i) \/ SpuriousWake(i)

Spec == Init /\ [][Next]_vars

(* Every thread and main keep running while they can; nobody is promised    *)
(* the mutex against a rival that keeps taking it.                          *)
FairSpec ==
  /\ Spec
  /\ WF_vars(Main)
  /\ \A i \in Threads : WF_vars(Thread(i))

-----------------------------------------------------------------------------
TypeOK ==
  /\ file \in Files
  /\ pos \in Nat /\ feof \in BOOLEAN
  /\ lock \in Threads \cup {Free}
  /\ done \in [Threads -> {0, 1}]
  /\ eof_done \in {0, 1}
  /\ pc \in [Threads -> PcValues]
  /\ str \in [Threads -> Nat]
  /\ mainPc \in {"create", "kick", "join", "closed"}
  /\ spawned \in 0 .. NO_THREADS_COUNT
  /\ output \in Seq(Nat \X Threads)

(* Words come out in file order, word k from the k-th thread of the ring,   *)
(* whatever the scheduler does: no word is lost, repeated or printed by a   *)
(* thread that did not hold the turn, and no thread gets a second turn.     *)
RingOrder ==
  \A k \in DOMAIN output : output[k] = <<k, k - 1>>

(* Until end of file is met the turn is a token: done[] never admits two    *)
(* threads, although it is written by main and by every thread.             *)
SingleTurn ==
  ~feof => \A i, j \in Threads : done[i] # 0 /\ done[j] # 0 => i = j

(* A thread asleep on its cv has no reason to be awake: its flag is down,   *)
(* and at end of file the thread about to signal it is still in PrintWord.  *)
NoLostWakeup ==
  \A i \in Threads :
    /\ pc[i] = "wait1" => done[i] = 0
    /\ pc[i] = "wait2" =>
         \/ ~feof /\ eof_done = 0
         \/ \E j \in Threads : pc[j] = "print"

(* Only a thread that has met end of file, or found it met, leaves the ring, *)
(* and it never leaves another one behind with its flag still down.         *)
ExitReleasesAll ==
  \A i \in Threads :
    pc[i] = "exited" =>
      /\ feof
      /\ \A j \in Threads : pc[j] \in {"first", "wait1"} =>
           \/ done[j] # 0
           \/ \E k \in Threads : pc[k] = "print"

(* Spurious wakeups stop at some point: they are not an adversary that may  *)
(* hold the mutex for ever.                                                 *)
FewSpuriousWakeups == <>[][\A i \in Threads : ~SpuriousWake(i)]_vars

(* What the ring achieves: one word per thread at most, then it is over.    *)
PrintedInTheEnd == IF file.words < NO_THREADS_COUNT THEN file.words ELSE NO_THREADS_COUNT

OneRoundIsPrinted ==
  FewSpuriousWakeups => <>[](Len(output) = PrintedInTheEnd)

(* A file with fewer words than threads is read to its end, every thread    *)
(* exits, and main joins them all and closes the file.                      *)
ShortFileTerminates ==
  FewSpuriousWakeups /\ file.words < NO_THREADS_COUNT => <>(mainPc = "closed")

(* What main is written for, whatever the file: every join returns and the  *)
(* file is closed.                                                          *)
EveryThreadJoined ==
  FewSpuriousWakeups => <>(mainPc = "closed")
=============================================================================
