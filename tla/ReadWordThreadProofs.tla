------------------------ MODULE ReadWordThreadProofs ------------------------
(***************************************************************************)
(* Safety of the word-reading ring, for every number of threads and every  *)
(* input file.                                                             *)
(*                                                                         *)
(* RingOrder is not inductive: that the next word is printed by the next   *)
(* thread depends on who has had its turn, on the flag that is up and on   *)
(* how far the file has been read.  RingInv ties all of these to the       *)
(* number of words printed; EofInv says what holds once the end of file    *)
(* has been met and the ring is being taken down.                          *)
(***************************************************************************)
EXTENDS ReadWordThread, TLAPS

BeforeTurn == {"unborn", "test", "acquire", "first", "wait1", "wake1"}
AfterTurn == {"second", "wait2", "wake2"}
FirstLap == {"acquire", "first", "wait1", "wake1", "getword", "print"}

Kicked == mainPc \in {"join", "closed"}
Turns == Len(output)

(* The mutex owner is the one thread inside a critical section. *)
LockInv == \A i \in Threads : lock = i <=> pc[i] \in Holding

(* A thread main has not created does nothing. *)
BornInv == \A i \in Threads : spawned <= i => pc[i] = "unborn"

(* Where thread i is, given the number of words printed. *)
Placed(i) ==
  /\ i > Turns => pc[i] \in BeforeTurn
  /\ i = Turns => pc[i] \in BeforeTurn \cup {"getword", "print"}
  /\ i < Turns => pc[i] \in AfterTurn \cup {"handover"}
  /\ pc[i] = "handover" => i = Turns - 1
  /\ pc[i] \notin BeforeTurn => Kicked

(* A flag that is up is that of the thread handing over its turn, or of the *)
(* thread after the last one that had a turn.                               *)
Flagged(i) ==
  done[i] # 0 =>
    /\ Kicked
    /\ \/ i = Turns - 1 /\ pc[i] = "handover"
       \/ /\ i = Turns \/ (i = 0 /\ Turns = NO_THREADS_COUNT)
          /\ \A j \in Threads : pc[j] # "handover"

ReadSoFar(i) ==
  /\ pc[i] = "print" => pos = Turns + 1 /\ str[i] = Turns + 1
  /\ pc[i] \in {"getword", "print", "handover"} => done[i] # 0

RingInv ==
  ~feof =>
    /\ eof_done = 0
    /\ Turns <= NO_THREADS_COUNT
    /\ \A i \in Threads : Placed(i) /\ Flagged(i) /\ ReadSoFar(i)
    /\ (\A i \in Threads : pc[i] # "print") => pos = Turns

(* feof is set by a thread about to release all others, and eof_done means  *)
(* that one has: whoever has yet to take a turn is free to take it.         *)
EofInv ==
  /\ eof_done # 0 =>
       /\ feof
       /\ \A i \in Threads : pc[i] \in FirstLap => done[i] # 0
  /\ feof => \/ eof_done # 0
             \/ \E i \in Threads : pc[i] = "print"
  /\ feof => Kicked
  /\ \A i \in Threads : pc[i] = "exited" => feof

IInv ==
  /\ TypeOK
  /\ BornInv
  /\ LockInv
  /\ RingInv
  /\ EofInv
  /\ NoLostWakeup
  /\ RingOrder
-----------------------------------------------------------------------------
(* The successor around the ring, without the remainder. *)
LEMMA NextIs ==
  ASSUME NEW i \in Threads
  PROVE  /\ Next_(i) \in Threads
         /\ Next_(i) = IF i = NO_THREADS_COUNT - 1 THEN 0 ELSE i + 1
BY ThreadsAssumption DEF Threads, Next_

(* What a signal does to the program counters. *)
LEMMA SignalledIs ==
  ASSUME NEW f \in [Threads -> PcValues], NEW S
  PROVE  /\ Signalled(f, S) \in [Threads -> PcValues]
         /\ \A i \in Threads :
              /\ i \notin S \/ f[i] \notin {"wait1", "wait2"} => Signalled(f, S)[i] = f[i]
              /\ i \in S /\ f[i] = "wait1" => Signalled(f, S)[i] = "wake1"
              /\ i \in S /\ f[i] = "wait2" => Signalled(f, S)[i] = "wake2"
BY DEF Signalled, PcValues

(* A signal wakes sleepers and touches no other thread. *)
LEMMA SignalMoves ==
  ASSUME NEW f \in [Threads -> PcValues], NEW S, NEW i \in Threads
  PROVE  \/ Signalled(f, S)[i] = f[i]
         \/ f[i] = "wait1" /\ Signalled(f, S)[i] = "wake1"
         \/ f[i] = "wait2" /\ Signalled(f, S)[i] = "wake2"
BY DEF Signalled

(* The program starts with no thread created, nothing read and the mutex    *)
(* free.                                                                    *)
LEMMA InitIInv == Init => IInv
<1> SUFFICES ASSUME Init PROVE IInv
  OBVIOUS
<1> USE ThreadsAssumption, FilesAssumption DEF Init, Threads, Free
<1>1. TypeOK
  BY DEF TypeOK, PcValues, EmptyWord
<1>2. BornInv /\ LockInv
  BY DEF BornInv, LockInv, Holding
<1>3. RingInv
  BY DEF RingInv, Placed, Flagged, ReadSoFar, Turns, BeforeTurn
<1>4. EofInv /\ NoLostWakeup /\ RingOrder
  BY DEF EofInv, NoLostWakeup, RingOrder
<1>5. QED
  BY <1>1, <1>2, <1>3, <1>4 DEF IInv

(* Every action keeps the types. *)
LEMMA TypeStep == TypeOK /\ [Next]_vars => TypeOK'
<1> SUFFICES ASSUME TypeOK, [Next]_vars PROVE TypeOK'
  OBVIOUS
<1> USE DEF TypeOK, PcValues, Goto, fileVars, Released, Passed
<1>1. CASE Main
  <2>1. CASE CreateThread
    <3>1. /\ spawned \in Threads
          /\ spawned + 1 \in 0 .. NO_THREADS_COUNT
      BY <2>1, ThreadsAssumption DEF CreateThread, Threads
    <3>2. QED
      BY <2>1, <3>1 DEF CreateThread
  <2>2. CASE KickOff
    <3>1. 0 \in Threads
      BY ThreadsAssumption DEF Threads
    <3>2. pc' \in [Threads -> PcValues]
      BY <2>2, SignalledIs DEF KickOff
    <3>3. QED
      BY <2>2, <3>1, <3>2 DEF KickOff
  <2>3. CASE JoinAll
    BY <2>3 DEF JoinAll
  <2>4. QED
    BY <1>1, <2>1, <2>2, <2>3 DEF Main
<1>2. ASSUME NEW i \in Threads, Thread(i)
      PROVE  TypeOK'
  <2>1. CASE TestEof(i) \/ Acquire(i) \/ WaitForTurn(i) \/ TakeTurn(i)
    BY <2>1 DEF TestEof, Acquire, WaitForTurn, TakeTurn
  <2>2. CASE GetTheWord(i)
    <3>1. /\ pos' = pos \/ pos' = pos + 1
          /\ feof' = feof \/ feof' = TRUE
          /\ \/ str' = [str EXCEPT ![i] = pos + 1]
             \/ str' = [str EXCEPT ![i] = EmptyWord]
      BY <2>2, Zenon DEF GetTheWord
    <3>2. pos' \in Nat
      BY <3>1
    <3>3. str' \in [Threads -> Nat]
      <4>1. pos + 1 \in Nat /\ EmptyWord \in Nat
        BY DEF EmptyWord
      <4>2. QED
        BY <3>1, <4>1
    <3>4. feof' \in BOOLEAN
      BY <3>1, Zenon
    <3>5. pc' \in [Threads -> PcValues]
      BY <2>2 DEF GetTheWord
    <3>6. QED
      BY <2>2, <3>2, <3>3, <3>4, <3>5 DEF GetTheWord
  <2>3. CASE PrintTheWord(i)
    BY <2>3 DEF PrintTheWord
  <2>4. CASE ReleaseAll(i)
    <3>1. pc' \in [Threads -> PcValues]
      BY <2>4, SignalledIs DEF ReleaseAll
    <3>2. QED
      BY <2>4, <3>1 DEF ReleaseAll
  <2>5. CASE HandOver(i)
    <3>1. pc' \in [Threads -> PcValues]
      BY <2>5, SignalledIs DEF HandOver
    <3>2. done' \in [Threads -> {0, 1}]
      BY <2>5, NextIs DEF HandOver
    <3>3. QED
      BY <2>5, <3>1, <3>2 DEF HandOver
  <2>6. CASE WaitForEof(i) \/ Unlock(i) \/ Reacquire(i)
    BY <2>6 DEF WaitForEof, Unlock, Reacquire
  <2>7. QED
    BY <1>2, <2>1, <2>2, <2>3, <2>4, <2>5, <2>6 DEF Thread
<1>3. ASSUME NEW i \in Threads, SpuriousWake(i)
      PROVE  TypeOK'
  <2>1. pc' \in [Threads -> PcValues]
    BY <1>3, SignalledIs DEF SpuriousWake
  <2>2. QED
    BY <1>3, <2>1 DEF SpuriousWake
<1>4. CASE UNCHANGED vars
  BY <1>4 DEF vars
<1>5. QED
  BY <1>1, <1>2, <1>3, <1>4 DEF Next

(* A thread main has not created has no step of its own and no signal       *)
(* reaches it.                                                              *)
LEMMA BornStep == TypeOK /\ BornInv /\ [Next]_vars => BornInv'
<1> SUFFICES ASSUME TypeOK, BornInv, [Next]_vars PROVE BornInv'
  OBVIOUS
<1>0. pc \in [Threads -> PcValues] /\ spawned \in Nat /\ Threads \subseteq Int
  BY ThreadsAssumption DEF TypeOK, Threads
<1> USE <1>0 DEF BornInv, Goto
<1>1. CASE CreateThread
  BY <1>1 DEF CreateThread
<1>2. CASE KickOff \/ JoinAll
  BY <1>2, SignalledIs DEF KickOff, JoinAll
<1>3. ASSUME NEW i \in Threads, Thread(i) \/ SpuriousWake(i)
      PROVE  BornInv'
  <2>1. spawned' = spawned /\ pc[i] # "unborn"
    BY <1>3 DEF Thread, TestEof, Acquire, WaitForTurn, TakeTurn, GetTheWord, PrintTheWord,
                ReleaseAll, HandOver, WaitForEof, Unlock, Reacquire, SpuriousWake
  <2>2. \A j \in Threads \ {i} : pc[j] = "unborn" => pc'[j] = "unborn"
    <3>1. CASE ReleaseAll(i) \/ HandOver(i) \/ SpuriousWake(i)
      BY <3>1, SignalledIs DEF ReleaseAll, HandOver, SpuriousWake
    <3>2. CASE \E label : Goto(i, label)
      BY <3>2
    <3>3. QED
      BY <1>3, <3>1, <3>2
         DEF Thread, TestEof, Acquire, WaitForTurn, TakeTurn, GetTheWord, PrintTheWord,
             WaitForEof, Unlock, Reacquire
  <2>3. QED
    BY <2>1, <2>2
<1>4. CASE UNCHANGED vars
  BY <1>4 DEF vars
<1>5. QED
  BY <1>1, <1>2, <1>3, <1>4 DEF Next, Main

(* The thread that owns the mutex stays the only one in a critical section: *)
(* main takes it only when free, a signal moves no thread into one, and     *)
(* waiting gives it up.                                                     *)
LEMMA LockStep == TypeOK /\ BornInv /\ LockInv /\ [Next]_vars => LockInv'
<1> SUFFICES ASSUME TypeOK, BornInv, LockInv, [Next]_vars PROVE LockInv'
  OBVIOUS
<1>0. /\ pc \in [Threads -> PcValues]
      /\ Free \notin Threads
  BY DEF TypeOK, Free, Threads
<1> USE <1>0 DEF LockInv, Holding, Goto
<1>1. CASE Main
  <2>1. CASE CreateThread
    <3>1. pc[spawned] = "unborn" /\ spawned \in Threads
      BY <2>1, ThreadsAssumption DEF CreateThread, BornInv, TypeOK, Threads
    <3>2. QED
      BY <2>1, <3>1 DEF CreateThread
  <2>2. CASE KickOff
    <3>1. \A j \in Threads : pc[j] \notin Holding
      BY <2>2 DEF KickOff
    <3>2. \A j \in Threads : pc'[j] \notin Holding
      BY <2>2, <3>1, SignalledIs DEF KickOff
    <3>3. QED
      BY <2>2, <3>2 DEF KickOff
  <2>3. CASE JoinAll
    BY <2>3 DEF JoinAll
  <2>4. QED
    BY <1>1, <2>1, <2>2, <2>3 DEF Main
<1>2. ASSUME NEW i \in Threads, Thread(i)
      PROVE  LockInv'
  <2>1. CASE Acquire(i) \/ Reacquire(i)
    BY <2>1 DEF Acquire, Reacquire
  <2>2. CASE WaitForTurn(i) \/ WaitForEof(i) \/ Unlock(i)
    BY <2>2 DEF WaitForTurn, WaitForEof, Unlock
  <2>3. CASE TestEof(i) \/ TakeTurn(i) \/ GetTheWord(i) \/ PrintTheWord(i)
    BY <2>3 DEF TestEof, TakeTurn, GetTheWord, PrintTheWord
  <2>4. CASE ReleaseAll(i) \/ HandOver(i)
    <3>1. lock = i /\ lock' = i /\ pc'[i] \in Holding
      BY <2>4, SignalledIs DEF ReleaseAll, HandOver
    <3>2. \A j \in Threads \ {i} : pc'[j] \notin Holding
      BY <2>4, <3>1, SignalledIs DEF ReleaseAll, HandOver
    <3>3. QED
      BY <3>1, <3>2
  <2>5. QED
    BY <1>2, <2>1, <2>2, <2>3, <2>4 DEF Thread
<1>3. ASSUME NEW i \in Threads, SpuriousWake(i)
      PROVE  LockInv'
  BY <1>3, SignalledIs DEF SpuriousWake
<1>4. CASE UNCHANGED vars
  BY <1>4 DEF vars
<1>5. QED
  BY <1>1, <1>2, <1>3, <1>4 DEF Next

(* At most one thread is inside a critical section. *)
LEMMA OneHolder ==
  ASSUME LockInv, NEW i \in Threads, NEW j \in Threads,
         pc[i] \in Holding, pc[j] \in Holding
  PROVE  i = j
BY DEF LockInv

(* While end of file has not been met the turn moves one place per word     *)
(* printed.                                                                 *)
LEMMA RingStep == IInv /\ [Next]_vars => RingInv'
<1> SUFFICES ASSUME IInv, [Next]_vars, ~feof'
             PROVE  /\ eof_done' = 0
                    /\ Turns' <= NO_THREADS_COUNT
                    /\ \A i \in Threads : Placed(i)' /\ Flagged(i)' /\ ReadSoFar(i)'
                    /\ (\A i \in Threads : pc'[i] # "print") => pos' = Turns'
  BY DEF RingInv
<1>0. /\ pc \in [Threads -> PcValues] /\ done \in [Threads -> {0, 1}]
      /\ Turns \in Nat /\ pos \in Nat /\ NO_THREADS_COUNT \in Nat \ {0}
      /\ TypeOK /\ LockInv /\ BornInv
  BY ThreadsAssumption DEF IInv, TypeOK, Turns
<1>1. ~feof
  BY DEF Next, Main, CreateThread, KickOff, JoinAll, Thread, TestEof, Acquire, WaitForTurn,
         TakeTurn, GetTheWord, PrintTheWord, ReleaseAll, HandOver, WaitForEof, Unlock,
         Reacquire, SpuriousWake, fileVars, vars
<1>2. /\ eof_done = 0
      /\ Turns <= NO_THREADS_COUNT
      /\ \A i \in Threads : Placed(i) /\ Flagged(i) /\ ReadSoFar(i)
      /\ (\A i \in Threads : pc[i] # "print") => pos = Turns
  BY <1>1, Zenon DEF IInv, RingInv
<1>3. Threads = {k \in Int : 0 <= k /\ k <= NO_THREADS_COUNT - 1}
  BY <1>0 DEF Threads
<1> USE <1>0, <1>2, <1>3 DEF Placed, Flagged, ReadSoFar, BeforeTurn, AfterTurn, Goto, fileVars, Passed
<1>4. CASE CreateThread
  <2>1. spawned \in Threads /\ pc[spawned] = "unborn"
    BY <1>4 DEF CreateThread, BornInv, TypeOK
  <2>2. ~Kicked /\ \A i \in Threads : done[i] = 0 /\ pc[i] \in BeforeTurn
    BY <1>4 DEF CreateThread, Kicked
  <2>3. /\ Turns' = Turns /\ done' = done /\ pos' = pos /\ eof_done' = eof_done
        /\ pc' = [pc EXCEPT ![spawned] = "test"]
    BY <1>4 DEF CreateThread, Turns
  <2>4. \A i \in Threads : pc'[i] = pc[i] \/ (pc'[i] = "test" /\ pc[i] = "unborn")
    BY <2>1, <2>3
  <2>5. QED
    BY <2>2, <2>3, <2>4
<1>5. CASE KickOff
  <2>1. ~Kicked /\ Kicked'
    BY <1>5 DEF KickOff, Kicked
  <2>2. /\ Turns' = Turns /\ pos' = pos /\ eof_done' = eof_done
        /\ done' = [done EXCEPT ![0] = 1] /\ pc' = Signalled(pc, {0})
    BY <1>5 DEF KickOff, Turns
  <2>3. \A i \in Threads : done[i] = 0 /\ pc[i] \in BeforeTurn /\ pc'[i] \in BeforeTurn
    <3>1. ASSUME NEW i \in Threads
          PROVE  done[i] = 0 /\ pc[i] \in BeforeTurn
      BY <2>1, <3>1
    <3>2. ASSUME NEW i \in Threads
          PROVE  pc'[i] \in BeforeTurn
      BY <2>2, <3>1, SignalMoves
    <3>3. QED
      BY <3>1, <3>2
  <2>4. Turns = 0
    BY <2>3
  <2>5. QED
    BY <2>1, <2>2, <2>3, <2>4
<1>6. CASE JoinAll \/ UNCHANGED vars
  <2>1. /\ Turns' = Turns /\ pos' = pos /\ eof_done' = eof_done /\ done' = done
        /\ pc' = pc /\ str' = str /\ (Kicked => Kicked')
    BY <1>6 DEF JoinAll, vars, Turns, Kicked
  <2>2. QED
    BY <2>1
<1>7. ASSUME NEW i \in Threads,
             TestEof(i) \/ Acquire(i) \/ WaitForTurn(i) \/ WaitForEof(i) \/ Reacquire(i)
               \/ SpuriousWake(i)
      PROVE  /\ eof_done' = 0
             /\ Turns' <= NO_THREADS_COUNT
             /\ \A j \in Threads : Placed(j)' /\ Flagged(j)' /\ ReadSoFar(j)'
             /\ (\A j \in Threads : pc'[j] # "print") => pos' = Turns'
  <2>1. /\ Turns' = Turns /\ pos' = pos /\ eof_done' = eof_done /\ done' = done
        /\ str' = str /\ Kicked' = Kicked
    BY <1>7 DEF TestEof, Acquire, WaitForTurn, WaitForEof, Reacquire, SpuriousWake, Turns, Kicked
  <2>2. \A j \in Threads : \/ pc'[j] = pc[j]
                           \/ pc[j] \in BeforeTurn /\ pc'[j] \in BeforeTurn
                           \/ pc[j] \in AfterTurn /\ pc'[j] \in AfterTurn
    <3>1. CASE SpuriousWake(i)
      BY <3>1, SignalMoves DEF SpuriousWake
    <3>2. CASE ~SpuriousWake(i)
      BY <1>1, <1>7, <3>2 DEF TestEof, Acquire, WaitForTurn, WaitForEof, Reacquire
    <3>3. QED
      BY <3>1, <3>2
  <2>3. \A j \in Threads : (pc'[j] = "print" <=> pc[j] = "print")
                           /\ (pc'[j] = "handover" <=> pc[j] = "handover")
    BY <2>2
  <2>4. QED
    BY <2>1, <2>2, <2>3
<1>8. ASSUME NEW i \in Threads, TakeTurn(i)
      PROVE  /\ eof_done' = 0
             /\ Turns' <= NO_THREADS_COUNT
             /\ \A j \in Threads : Placed(j)' /\ Flagged(j)' /\ ReadSoFar(j)'
             /\ (\A j \in Threads : pc'[j] # "print") => pos' = Turns'
  <2>1. /\ Turns' = Turns /\ pos' = pos /\ eof_done' = eof_done /\ done' = done
        /\ str' = str /\ Kicked' = Kicked /\ pc[i] = "first" /\ done[i] # 0
        /\ pc' = [pc EXCEPT ![i] = "getword"]
    BY <1>8 DEF TakeTurn, Turns, Kicked
  <2>2. i = Turns /\ Kicked
    BY <2>1
  <2>3. QED
    BY <2>1, <2>2
<1>9. ASSUME NEW i \in Threads, GetTheWord(i)
      PROVE  /\ eof_done' = 0
             /\ Turns' <= NO_THREADS_COUNT
             /\ \A j \in Threads : Placed(j)' /\ Flagged(j)' /\ ReadSoFar(j)'
             /\ (\A j \in Threads : pc'[j] # "print") => pos' = Turns'
  <2>1. /\ Turns' = Turns /\ eof_done' = eof_done /\ done' = done
        /\ Kicked' = Kicked /\ pc[i] = "getword"
        /\ pc' = [pc EXCEPT ![i] = "print"]
    BY <1>9 DEF GetTheWord, Turns, Kicked
  <2>2. pos' = pos + 1 /\ str' = [str EXCEPT ![i] = pos + 1]
    BY <1>9, Zenon DEF GetTheWord
  <2>3. str \in [Threads -> Nat]
    BY DEF TypeOK
  <2>4. i = Turns
    BY <2>1
  <2>5. \A j \in Threads : pc[j] = "print" => i = j
    BY <2>1, OneHolder DEF Holding
  <2>6. pos = Turns
    BY <2>1, <2>5
  <2>7. QED
    BY <2>1, <2>2, <2>3, <2>4, <2>5, <2>6
<1>10. ASSUME NEW i \in Threads, PrintTheWord(i)
      PROVE  /\ eof_done' = 0
             /\ Turns' <= NO_THREADS_COUNT
             /\ \A j \in Threads : Placed(j)' /\ Flagged(j)' /\ ReadSoFar(j)'
             /\ (\A j \in Threads : pc'[j] # "print") => pos' = Turns'
  <2>1. /\ pos' = pos /\ eof_done' = eof_done /\ done' = done /\ str' = str
        /\ Kicked' = Kicked /\ pc[i] = "print"
        /\ pc' = [pc EXCEPT ![i] = "handover"]
    BY <1>10 DEF PrintTheWord, Kicked
  <2>2. Turns' = Turns + 1
    BY <1>10 DEF PrintTheWord, Turns, TypeOK
  <2>3. \A j \in Threads : pc[j] \in Holding => i = j
    BY <2>1, OneHolder DEF Holding
  <2>4. i = Turns /\ pos = Turns + 1 /\ done[i] # 0 /\ Kicked
    BY <2>1
  <2>5. \A j \in Threads : done[j] # 0 => j = i
    BY <2>3, <2>4 DEF Holding
  <2>6. \A j \in Threads \ {i} : pc'[j] \notin Holding /\ pc'[j] = pc[j]
    BY <2>1, <2>3
  <2>7. QED
    BY <2>1, <2>2, <2>4, <2>5, <2>6 DEF Holding
<1>11. ASSUME NEW i \in Threads, HandOver(i)
      PROVE  /\ eof_done' = 0
             /\ Turns' <= NO_THREADS_COUNT
             /\ \A j \in Threads : Placed(j)' /\ Flagged(j)' /\ ReadSoFar(j)'
             /\ (\A j \in Threads : pc'[j] # "print") => pos' = Turns'
  <2>1. /\ pos' = pos /\ eof_done' = eof_done /\ str' = str /\ Turns' = Turns
        /\ Kicked' = Kicked /\ pc[i] = "handover"
        /\ done' = [done EXCEPT ![Next_(i)] = 1, ![i] = 0]
        /\ pc' = [Signalled(pc, {Next_(i)}) EXCEPT ![i] = "second"]
    BY <1>11 DEF HandOver, Kicked, Turns
  <2>2. \A j \in Threads : pc[j] \in Holding => i = j
    BY <2>1, OneHolder DEF Holding
  <2>3. i = Turns - 1 /\ Kicked /\ pos = Turns
    BY <2>1, <2>2 DEF Holding
  <2>4. \A j \in Threads \ {i} : \/ pc'[j] = pc[j]
                                 \/ pc[j] = "wait1" /\ pc'[j] = "wake1"
                                 \/ pc[j] = "wait2" /\ pc'[j] = "wake2"
    BY <2>1, SignalMoves, SignalledIs
  <2>5. pc'[i] = "second" /\ \A j \in Threads : pc'[j] \notin Holding \ {"second"}
    <3>1. pc'[i] = "second"
      <4>1. Signalled(pc, {Next_(i)}) \in [Threads -> PcValues]
        BY SignalledIs
      <4>2. QED
        BY <2>1, <4>1
    <3>2. \A j \in Threads \ {i} : pc[j] \notin Holding
      BY <2>2
    <3>3. QED
      BY <2>4, <3>1, <3>2 DEF Holding
  <2>6. \A j \in Threads : done'[j] # 0 => j = Turns \/ (j = 0 /\ Turns = NO_THREADS_COUNT)
    <3>1. \A j \in Threads : done[j] # 0 => j = i
      BY <2>1, <2>3
    <3>2. \A j \in Threads : done'[j] # 0 => j = Next_(i) /\ j # i
      BY <2>1, <3>1, NextIs
    <3>3. QED
      BY <2>3, <3>2, NextIs
  <2>7. ASSUME NEW j \in Threads
        PROVE  Placed(j)'
    <3>1. CASE j = i
      BY <2>1, <2>3, <2>5, <3>1
    <3>2. CASE j # i
      BY <2>1, <2>3, <2>4, <3>2
    <3>3. QED
      BY <3>1, <3>2
  <2>8. ASSUME NEW j \in Threads
        PROVE  Flagged(j)' /\ ReadSoFar(j)'
    BY <2>1, <2>3, <2>5, <2>6 DEF Holding
  <2>9. QED
    BY <2>1, <2>3, <2>7, <2>8
<1>12. ASSUME NEW i \in Threads, ReleaseAll(i) \/ Unlock(i)
      PROVE  FALSE
  BY <1>1, <1>12, Zenon DEF ReleaseAll, Unlock
<1>13. QED
  BY <1>4, <1>5, <1>6, <1>7, <1>8, <1>9, <1>10, <1>11, <1>12, Zenon DEF Next, Main, Thread

(* Whoever meets end of file frees every thread that is yet to have a turn, *)
(* and nobody leaves before it has been met.                                *)
LEMMA EofStep == IInv /\ [Next]_vars => EofInv'
<1> SUFFICES ASSUME IInv, [Next]_vars PROVE EofInv'
  OBVIOUS
<1>0. /\ pc \in [Threads -> PcValues] /\ done \in [Threads -> {0, 1}]
      /\ Threads \subseteq Int
      /\ TypeOK /\ EofInv
  BY DEF IInv, TypeOK, Threads
<1> USE <1>0 DEF EofInv, FirstLap, Goto, fileVars, Released, Passed
<1>1. CASE CreateThread
  <2>1. ~Kicked /\ ~feof /\ eof_done = 0
    BY <1>1 DEF CreateThread, Kicked
  <2>2. feof' = feof /\ eof_done' = eof_done /\ pc' = [pc EXCEPT ![spawned] = "test"]
    BY <1>1 DEF CreateThread
  <2>3. \A j \in Threads : pc'[j] = "exited" => pc[j] = "exited"
    BY <2>2
  <2>4. \A j \in Threads : pc[j] # "exited"
    BY <2>1
  <2>5. ~feof' /\ eof_done' = 0 /\ \A j \in Threads : pc'[j] # "exited"
    BY <2>1, <2>2, <2>3, <2>4
  <2>6. QED
    BY <2>5, Zenon
<1>2. CASE KickOff
  <2>1. /\ ~Kicked /\ ~feof /\ eof_done = 0
    BY <1>2 DEF KickOff, Kicked
  <2>2. QED
    BY <1>2, <2>1, SignalMoves DEF KickOff
<1>3. CASE JoinAll \/ UNCHANGED vars
  BY <1>3 DEF JoinAll, vars, Kicked
<1>4. ASSUME NEW i \in Threads,
             TestEof(i) \/ Acquire(i) \/ WaitForTurn(i) \/ TakeTurn(i) \/ WaitForEof(i)
               \/ Unlock(i) \/ Reacquire(i) \/ SpuriousWake(i)
      PROVE  EofInv'
  <2>1. /\ feof' = feof /\ eof_done' = eof_done /\ done' = done /\ Kicked' = Kicked
    BY <1>4 DEF TestEof, Acquire, WaitForTurn, TakeTurn, WaitForEof, Unlock, Reacquire,
                SpuriousWake, Kicked
  <2>2. \A j \in Threads :
          /\ pc'[j] \in FirstLap => pc[j] \in FirstLap \/ (j = i /\ ~feof)
          /\ pc'[j] = "exited" => pc[j] = "exited" \/ feof
          /\ pc[j] = "print" => pc'[j] = "print"
    <3>1. CASE SpuriousWake(i)
      BY <3>1, SignalMoves DEF SpuriousWake
    <3>2. CASE TestEof(i)
      BY <3>2 DEF TestEof
    <3>3. CASE Acquire(i) \/ WaitForTurn(i) \/ TakeTurn(i) \/ WaitForEof(i) \/ Unlock(i)
                 \/ Reacquire(i)
      BY <3>3 DEF Acquire, WaitForTurn, TakeTurn, WaitForEof, Unlock, Reacquire
    <3>4. QED
      BY <1>4, <3>1, <3>2, <3>3
  <2>3. QED
    BY <2>1, <2>2
<1>5. ASSUME NEW i \in Threads, GetTheWord(i)
      PROVE  EofInv'
  <2>1. /\ pc[i] = "getword" /\ pc' = [pc EXCEPT ![i] = "print"]
        /\ done' = done /\ eof_done' = eof_done /\ Kicked' = Kicked
    BY <1>5 DEF GetTheWord, Kicked
  <2>2. feof => feof'
    BY <1>5, Zenon DEF GetTheWord
  <2>3. Kicked
    BY <2>1, Zenon DEF IInv, RingInv, Placed, BeforeTurn
  <2>4. QED
    BY <2>1, <2>2, <2>3
<1>6. ASSUME NEW i \in Threads, PrintTheWord(i)
      PROVE  EofInv'
  BY <1>6 DEF PrintTheWord
<1>7. ASSUME NEW i \in Threads, ReleaseAll(i)
      PROVE  EofInv'
  BY <1>7, SignalMoves DEF ReleaseAll, Kicked
<1>8. ASSUME NEW i \in Threads, HandOver(i)
      PROVE  EofInv'
  <2>1. /\ pc[i] = "handover" /\ feof' = feof /\ eof_done' = eof_done /\ Kicked' = Kicked
        /\ done' = [done EXCEPT ![Next_(i)] = 1, ![i] = 0]
        /\ pc' = [Signalled(pc, {Next_(i)}) EXCEPT ![i] = "second"]
    BY <1>8 DEF HandOver, Kicked
  <2>2. pc'[i] = "second" /\ \A j \in Threads \ {i} :
          /\ pc'[j] \in FirstLap => pc[j] \in FirstLap
          /\ pc'[j] = "exited" => pc[j] = "exited"
          /\ pc[j] = "print" => pc'[j] = "print"
    BY <2>1, SignalMoves, SignalledIs
  <2>3. \A j \in Threads \ {i} : done[j] # 0 => done'[j] # 0
    BY <2>1, NextIs
  <2>4. QED
    BY <2>1, <2>2, <2>3
<1>9. QED
  BY <1>1, <1>2, <1>3, <1>4, <1>5, <1>6, <1>7, <1>8 DEF Next, Main, Thread

(* A thread goes to sleep only for a reason, and the reason ends only with  *)
(* a signal to it, or in PrintWord by the thread about to signal.           *)
LEMMA WakeStep == IInv /\ [Next]_vars => NoLostWakeup'
<1> SUFFICES ASSUME IInv, [Next]_vars PROVE NoLostWakeup'
  OBVIOUS
<1>0. /\ pc \in [Threads -> PcValues] /\ done \in [Threads -> {0, 1}]
      /\ TypeOK /\ NoLostWakeup
  BY DEF IInv, TypeOK
<1> USE <1>0 DEF NoLostWakeup, Goto, fileVars, Passed
<1>1. CASE CreateThread \/ JoinAll \/ UNCHANGED vars
  <2>1. /\ feof' = feof /\ eof_done' = eof_done /\ done' = done
        /\ pc' = pc \/ (pc' = [pc EXCEPT ![spawned] = "test"] /\ pc[spawned] = "unborn")
    <3>1. CASE CreateThread
      <4>1. pc[spawned] = "unborn"
        BY <3>1, ThreadsAssumption DEF IInv, BornInv, CreateThread, Threads, TypeOK
      <4>2. QED
        BY <3>1, <4>1 DEF CreateThread
    <3>2. QED
      BY <1>1, <3>1 DEF JoinAll, vars
  <2>2. \A j \in Threads : /\ pc'[j] \in {"wait1", "wait2"} => pc'[j] = pc[j]
                           /\ pc[j] = "print" => pc'[j] = "print"
    BY <2>1
  <2>3. QED
    BY <2>1, <2>2
<1>2. CASE KickOff
  <2>1. /\ feof' = feof /\ eof_done' = eof_done
        /\ done' = [done EXCEPT ![0] = 1] /\ pc' = Signalled(pc, {0})
    BY <1>2 DEF KickOff
  <2>2. \A j \in Threads : /\ pc'[j] \in {"wait1", "wait2"} => pc'[j] = pc[j] /\ j # 0
                           /\ pc[j] = "print" => pc'[j] = "print"
    BY <2>1, SignalMoves, SignalledIs
  <2>3. QED
    BY <2>1, <2>2
<1>3. ASSUME NEW i \in Threads,
             TestEof(i) \/ Acquire(i) \/ WaitForTurn(i) \/ TakeTurn(i) \/ WaitForEof(i)
               \/ Unlock(i) \/ Reacquire(i) \/ SpuriousWake(i)
      PROVE  NoLostWakeup'
  <2>1. feof' = feof /\ eof_done' = eof_done /\ done' = done
    BY <1>3 DEF TestEof, Acquire, WaitForTurn, TakeTurn, WaitForEof, Unlock, Reacquire,
                SpuriousWake
  <2>2. \A j \in Threads :
          /\ pc'[j] = "wait1" => pc[j] = "wait1" \/ done[j] = 0
          /\ pc'[j] = "wait2" => pc[j] = "wait2" \/ (~feof /\ eof_done = 0)
          /\ pc[j] = "print" => pc'[j] = "print"
    <3>1. CASE SpuriousWake(i)
      BY <3>1, SignalMoves DEF SpuriousWake
    <3>2. CASE WaitForTurn(i) \/ WaitForEof(i)
      BY <3>2 DEF WaitForTurn, WaitForEof
    <3>3. CASE TestEof(i) \/ Acquire(i) \/ TakeTurn(i) \/ Unlock(i) \/ Reacquire(i)
      BY <3>3 DEF TestEof, Acquire, TakeTurn, Unlock, Reacquire
    <3>4. QED
      BY <1>3, <3>1, <3>2, <3>3
  <2>3. QED
    BY <2>1, <2>2
<1>4. ASSUME NEW i \in Threads, GetTheWord(i)
      PROVE  NoLostWakeup'
  <2>1. pc' = [pc EXCEPT ![i] = "print"] /\ done' = done
    BY <1>4 DEF GetTheWord
  <2>2. QED
    BY <2>1
<1>5. ASSUME NEW i \in Threads, PrintTheWord(i)
      PROVE  NoLostWakeup'
  <2>1. /\ pc' = [pc EXCEPT ![i] = "handover"] /\ done' = done
        /\ ~feof' /\ eof_done' = eof_done /\ ~feof
    BY <1>5 DEF PrintTheWord
  <2>2. eof_done = 0
    BY <2>1, Zenon DEF IInv, RingInv
  <2>3. QED
    BY <2>1, <2>2
<1>6. ASSUME NEW i \in Threads, ReleaseAll(i)
      PROVE  NoLostWakeup'
  <2>1. pc' = [Signalled(pc, Threads) EXCEPT ![i] = "handover"]
    BY <1>6 DEF ReleaseAll
  <2>2. \A j \in Threads : pc'[j] \notin {"wait1", "wait2"}
    BY <2>1, SignalMoves, SignalledIs
  <2>3. QED
    BY <2>2
<1>7. ASSUME NEW i \in Threads, HandOver(i)
      PROVE  NoLostWakeup'
  <2>1. /\ pc[i] = "handover" /\ feof' = feof /\ eof_done' = eof_done
        /\ done' = [done EXCEPT ![Next_(i)] = 1, ![i] = 0]
        /\ pc' = [Signalled(pc, {Next_(i)}) EXCEPT ![i] = "second"]
    BY <1>7 DEF HandOver
  <2>2. /\ pc'[i] = "second"
        /\ \A j \in Threads \ {i} :
             /\ pc'[j] \in {"wait1", "wait2"} => pc'[j] = pc[j] /\ j # Next_(i)
             /\ pc[j] = "print" => pc'[j] = "print"
    BY <2>1, SignalMoves, SignalledIs
  <2>3. \A j \in Threads \ {i} : j # Next_(i) => done'[j] = done[j]
    BY <2>1, NextIs
  <2>4. QED
    BY <2>1, <2>2, <2>3
<1>8. QED
  BY <1>1, <1>2, <1>3, <1>4, <1>5, <1>6, <1>7 DEF Next, Main, Thread

(* The word appended to the output is the next one, by the next thread.      *)
LEMMA OrderStep == IInv /\ [Next]_vars => RingOrder'
<1> SUFFICES ASSUME IInv, [Next]_vars PROVE RingOrder'
  OBVIOUS
<1>0. TypeOK /\ RingOrder /\ output \in Seq(Nat \X Threads)
  BY DEF IInv, TypeOK
<1>1. ASSUME NEW i \in Threads, PrintTheWord(i)
      PROVE  RingOrder'
  <2>1. output' = Append(output, <<str[i], i>>) /\ pc[i] = "print" /\ ~feof
    BY <1>1 DEF PrintTheWord
  <2>2. Placed(i) /\ ReadSoFar(i)
    BY <2>1, Zenon DEF IInv, RingInv
  <2>3. str[i] = Turns + 1 /\ i = Turns
    BY <2>1, <2>2, ThreadsAssumption
       DEF Placed, ReadSoFar, BeforeTurn, AfterTurn, Threads, Turns
  <2>4. QED
    BY <1>0, <2>1, <2>3 DEF RingOrder, Turns
<1>2. ASSUME output' = output
      PROVE  RingOrder'
  BY <1>0, <1>2 DEF RingOrder
<1>3. QED
  BY <1>1, <1>2
     DEF Next, Main, CreateThread, KickOff, JoinAll, Thread, TestEof, Acquire, WaitForTurn,
         TakeTurn, GetTheWord, ReleaseAll, HandOver, WaitForEof, Unlock, Reacquire,
         SpuriousWake, vars

(* No step of main, a thread or the scheduler leaves the invariant.          *)
LEMMA Inductive == IInv /\ [Next]_vars => IInv'
BY TypeStep, BornStep, LockStep, RingStep, EofStep, WakeStep, OrderStep DEF IInv

-----------------------------------------------------------------------------
(* The inductive invariant holds of every reachable state. *)
THEOREM Invariance == Spec => []IInv
<1>1. Init => IInv
  BY InitIInv
<1>2. IInv /\ [Next]_vars => IInv'
  BY Inductive
<1>3. QED
  BY <1>1, <1>2, PTL DEF Spec

(* The variables of read_word_thread.c keep their types: every thread is at *)
(* one of its program points and the flags are 0 or 1.                      *)
THEOREM TypeCorrect == Spec => []TypeOK
<1>1. IInv => TypeOK
  BY DEF IInv
<1>2. QED
  BY <1>1, Invariance, PTL

(* Words are printed in file order, the k-th by the k-th thread, for every  *)
(* ring size, every file and every schedule.                                *)
THEOREM PrintedInRingOrder == Spec => []RingOrder
<1>1. IInv => RingOrder
  BY DEF IInv
<1>2. QED
  BY <1>1, Invariance, PTL

(* done[] is a token until end of file is met: at most one flag is up. *)
THEOREM OneTurnAtATime == Spec => []SingleTurn
<1>1. IInv => SingleTurn
  <2> SUFFICES ASSUME IInv, ~feof,
                      NEW i \in Threads, NEW j \in Threads, done[i] # 0, done[j] # 0
               PROVE  i = j
    BY DEF SingleTurn
  <2>1. /\ Flagged(i) /\ Flagged(j) /\ Turns <= NO_THREADS_COUNT
        /\ Turns \in Nat /\ i \in Int /\ j \in Int
        /\ i < NO_THREADS_COUNT /\ j < NO_THREADS_COUNT
    BY ThreadsAssumption DEF IInv, RingInv, TypeOK, Turns, Threads
  <2>2. QED
    BY <2>1, ThreadsAssumption DEF Flagged
<1>2. QED
  BY <1>1, Invariance, PTL

(* No thread sleeps on its condition variable past the event it waits for,  *)
(* although done[] and eof_done are set by other threads.                   *)
THEOREM NoWakeupIsLost == Spec => []NoLostWakeup
<1>1. IInv => NoLostWakeup
  BY DEF IInv
<1>2. QED
  BY <1>1, Invariance, PTL

(* A thread leaves only once end of file has been met, and no thread it     *)
(* leaves behind is still waiting for a turn that nobody will give it.      *)
THEOREM ExitLeavesNoneBehind == Spec => []ExitReleasesAll
<1>1. IInv => ExitReleasesAll
  BY Zenon DEF IInv, EofInv, ExitReleasesAll, FirstLap
<1>2. QED
  BY <1>1, Invariance, PTL
=============================================================================
