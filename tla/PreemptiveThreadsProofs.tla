----------------------- MODULE PreemptiveThreadsProofs -----------------------
(***************************************************************************)
(* The safety invariants of PreemptiveThreads, for any number of threads,  *)
(* any client queues and any client; its refinement of ThreadStates; what  *)
(* a structured client is promised; and the safety facts that the liveness *)
(* properties rest on.                                                     *)
(***************************************************************************)
EXTENDS PreemptiveThreads, DataLemmas, FiniteSetTheorems, SequenceTheorems, TLAPS

-----------------------------------------------------------------------------
(***************************************************************************)
(* Lemmas about the queue operations.                                      *)
(***************************************************************************)

\* An injective sequence of tids that leaves one out is shorter than the array.
LEMMA RoomLeft ==
  ASSUME NEW s \in Seq(Tids), IsInjective(s), NEW x \in Tids, x \notin Range(s)
  PROVE  Len(s) < MaxThreads
<1> DEFINE n == Len(s)
           T == Tids \ {x}
<1>1. IsFiniteSet(Tids) /\ Cardinality(Tids) = MaxThreads
  BY FS_Interval, MaxThreadsAssumption DEF Tids
<1>2. IsFiniteSet(T) /\ Cardinality(T) = MaxThreads - 1
  BY <1>1, FS_RemoveElement
<1>3. IsFiniteSet(1 .. n) /\ Cardinality(1 .. n) = n
  <2>1. n \in Nat
    OBVIOUS
  <2> HIDE DEF n
  <2> QED
    BY <2>1, FS_Interval
<1>4. s \in [1 .. n -> T]
  BY RangeSeq
<1>5. ASSUME n >= MaxThreads PROVE FALSE
  <2>1. Cardinality(T) < Cardinality(1 .. n)
    BY <1>2, <1>3, <1>5, MaxThreadsAssumption
  <2>2. \E i, j \in 1 .. n : i # j /\ s[i] = s[j]
    BY <2>1, <1>2, <1>3, <1>4, FS_PigeonHole
  <2> QED
    BY <2>2, RangeSeq
<1> QED
  BY <1>5, MaxThreadsAssumption

\* add_to_queue_tail finds a slot for a thread that is not in the queue.
LEMMA AddToTail ==
  ASSUME NEW q \in Seq(Tids), IsInjective(q), NEW t \in Tids, t \notin Range(q)
  PROVE  /\ add_to_queue_tail(q, t) \in Seq(Tids)
         /\ IsInjective(add_to_queue_tail(q, t))
         /\ Range(add_to_queue_tail(q, t)) = Range(q) \cup {t}
         /\ add_to_queue_tail(q, t) # <<>>
         /\ add_to_queue_tail(q, t) = Append(q, t)
<1>1. add_to_queue_tail(q, t) = Append(q, t)
  BY RoomLeft DEF add_to_queue_tail
<1> QED
  BY <1>1, AppendedNew

\* remove_from_queue takes out one thread and keeps the others.
LEMMA RemoveFrom ==
  ASSUME NEW q \in Seq(Tids), IsInjective(q), NEW i \in 1 .. Len(q)
  PROVE  /\ remove_from_queue(q, i) \in Seq(Tids)
         /\ IsInjective(remove_from_queue(q, i))
         /\ Range(remove_from_queue(q, i)) = Range(q) \ {q[i]}
         /\ q[i] \in Range(q)
         /\ q[i] \in Tids
<1>1. remove_from_queue(q, i) = RemovedAt(q, i)
  BY DEF remove_from_queue, RemovedAt
<1> QED
  BY <1>1, RemovedEntry

\* One queue put behind another still fits when both leave a thread out.
LEMMA Concatenate ==
  ASSUME NEW q \in Seq(Tids), IsInjective(q), NEW s \in Seq(Tids), IsInjective(s),
         Range(q) \cap Range(s) = {},
         NEW x \in Tids, x \notin Range(q), x \notin Range(s)
  PROVE  /\ Len(q \o s) <= MaxThreads
         /\ q \o s \in Seq(Tids)
         /\ IsInjective(q \o s)
         /\ Range(q \o s) = Range(q) \cup Range(s)
<1> DEFINE r == q \o s
<1>1. /\ r \in Seq(Tids)
      /\ Len(r) = Len(q) + Len(s)
      /\ \A i \in 1 .. Len(r) : r[i] = IF i <= Len(q) THEN q[i] ELSE s[i - Len(q)]
  BY ConcatProperties
<1> HIDE DEF r
<1>2. /\ Range(r) = {r[i] : i \in 1 .. Len(r)}
      /\ Range(q) = {q[i] : i \in 1 .. Len(q)}
      /\ Range(s) = {s[i] : i \in 1 .. Len(s)}
  BY <1>1, RangeSeq
<1>3. Range(r) \subseteq Range(q) \cup Range(s)
  BY <1>1, <1>2
<1>4. Range(q) \subseteq Range(r)
  <2>1. \A i \in 1 .. Len(q) : i \in 1 .. Len(r) /\ r[i] = q[i]
    BY <1>1
  <2> QED BY <2>1, <1>2
<1>5. Range(s) \subseteq Range(r)
  <2>1. \A i \in 1 .. Len(s) : i + Len(q) \in 1 .. Len(r) /\ r[i + Len(q)] = s[i]
    BY <1>1
  <2> QED BY <2>1, <1>2
<1>6. IsInjective(r)
  <2>1. \A i, j \in 1 .. Len(q) : q[i] = q[j] => i = j
    BY RangeSeq
  <2>2. \A i, j \in 1 .. Len(s) : s[i] = s[j] => i = j
    BY RangeSeq
  <2>3. \A i \in 1 .. Len(q), j \in 1 .. Len(s) : q[i] # s[j]
    BY <1>2
  <2>4. ASSUME NEW i \in 1 .. Len(r), NEW j \in 1 .. Len(r), r[i] = r[j] PROVE i = j
    <3>1. CASE i <= Len(q) /\ j <= Len(q)
      BY <2>1, <2>4, <3>1, <1>1
    <3>2. CASE i > Len(q) /\ j > Len(q)
      <4>1. i - Len(q) \in 1 .. Len(s) /\ j - Len(q) \in 1 .. Len(s)
        BY <3>2, <1>1
      <4>2. s[i - Len(q)] = s[j - Len(q)]
        BY <2>4, <3>2, <1>1
      <4>3. i - Len(q) = j - Len(q)
        BY <4>1, <4>2, <2>2
      <4> QED
        BY <4>3
    <3>3. CASE i <= Len(q) /\ j > Len(q)
      <4>1. i \in 1 .. Len(q) /\ j - Len(q) \in 1 .. Len(s) /\ q[i] = s[j - Len(q)]
        BY <2>4, <3>3, <1>1
      <4> QED
        BY <4>1, <2>3
    <3>4. CASE i > Len(q) /\ j <= Len(q)
      <4>1. j \in 1 .. Len(q) /\ i - Len(q) \in 1 .. Len(s) /\ q[j] = s[i - Len(q)]
        BY <2>4, <3>4, <1>1
      <4> QED
        BY <4>1, <2>3
    <3> QED
      BY <3>1, <3>2, <3>3, <3>4
  <2> QED
    BY <2>4, <1>1, RangeSeq
<1>7. Len(r) <= MaxThreads
  BY <1>1, <1>3, <1>6, RoomLeft, MaxThreadsAssumption
<1> QED
  BY <1>1, <1>3, <1>4, <1>5, <1>6, <1>7 DEF r

-----------------------------------------------------------------------------
(***************************************************************************)
(* The inductive invariant is the conjunction of the invariants the runs   *)
(* check: each of them needs the others.                                   *)
(***************************************************************************)
IInv == /\ TypeOK /\ OnePlace /\ NoThreadLost /\ TidPartition /\ StackSafe
        /\ WaiterHasTarget /\ KilledNeverRuns

\* None is no tid.
LEMMA NoneIsNoTid == None \notin Tids /\ None \in Int
  BY DEF None, Tids

\* A thread sleeps exactly when some wait queue lists it.
LEMMA AsleepIff == \A t : t \in Asleep <=> \E q \in WaitQueues : t \in Range(waitq[q])
  BY DEF Asleep

\* The running thread is alive and waits for nobody.
LEMMA RunningAlive ==
  ASSUME IInv
  PROVE  /\ Alive(running_thread) /\ running_thread \in created_threads
         /\ ~tcb[running_thread].sleeping
         /\ tcb[running_thread].waiting_on = None
<1> USE DEF IInv
<1>1. Alive(running_thread) /\ running_thread \in created_threads /\ running_thread \in Tids
  BY DEF NoThreadLost, TypeOK, Alive
<1>2. running_thread \notin Asleep
  BY DEF OnePlace
<1>3. ~tcb[running_thread].sleeping
  BY <1>1, <1>2 DEF NoThreadLost
<1>4. \A u \in Tids : running_thread \notin Range(waitq[u])
  BY <1>2, AsleepIff DEF WaitQueues
<1>5. tcb[running_thread].waiting_on = None
  BY <1>1, <1>4 DEF WaiterHasTarget, TypeOK, TCB
<1> QED
  BY <1>1, <1>3, <1>5

\* What the two record updates of a control block change: freeing its stack,
\* and waking it.
LEMMA FreedRecord ==
  ASSUME NEW r \in TCB, NEW s, s = [r EXCEPT !.stack = "freed"]
  PROVE  /\ s \in TCB
         /\ s.killed = r.killed /\ s.sleeping = r.sleeping /\ s.wq = r.wq
         /\ s.waiting_on = r.waiting_on /\ s.exit = r.exit
         /\ s.stack = "freed"
BY DEF TCB

LEMMA WokenRecord ==
  ASSUME NEW r \in TCB, NEW s, s = [r EXCEPT !.sleeping = FALSE, !.waiting_on = None]
  PROVE  /\ s \in TCB
         /\ s.killed = r.killed /\ s.wq = r.wq /\ s.exit = r.exit /\ s.stack = r.stack
         /\ s.sleeping = FALSE /\ s.waiting_on = None
BY DEF TCB

\* thread_routine_cleanup changes nothing but the stack of the zombie.
LEMMA CleanedFacts ==
  ASSUME IInv
  PROVE  /\ Cleaned \in [Tids -> TCB]
         /\ \A t \in Tids : /\ Cleaned[t].killed = tcb[t].killed
                            /\ Cleaned[t].sleeping = tcb[t].sleeping
                            /\ Cleaned[t].wq = tcb[t].wq
                            /\ Cleaned[t].waiting_on = tcb[t].waiting_on
                            /\ Cleaned[t].exit = tcb[t].exit
                            /\ Alive(t) => Cleaned[t].stack # "freed"
                            /\ t \in created_threads /\ ~Alive(t)
                                  => Cleaned[t].stack = "freed"
         /\ ~resuming => Cleaned = tcb
<1> DEFINE z == zombie_tid
<1>1. tcb \in [Tids -> TCB] /\ created_threads \subseteq Tids
  BY DEF IInv, TypeOK
<1>2. CASE z = None
  <2>1. Cleaned = tcb
    BY <1>2 DEF Cleaned
  <2>2. \A t \in Tids : /\ Alive(t) => tcb[t].stack # "freed"
                        /\ t \in created_threads /\ ~Alive(t) => tcb[t].stack = "freed"
    BY <1>2, NoneIsNoTid DEF IInv, StackSafe
  <2> QED
    BY <1>1, <2>1, <2>2
<1>3. CASE z # None
  <2>1. z \in Tids /\ resuming /\ ~Alive(z) /\ Cleaned = [tcb EXCEPT ![z].stack = "freed"]
    BY <1>3 DEF IInv, TypeOK, StackSafe, Cleaned
  <2>2. \A t \in Tids : /\ t # z => Cleaned[t] = tcb[t]
                        /\ t = z => Cleaned[t] = [tcb[t] EXCEPT !.stack = "freed"]
    BY <1>1, <2>1
  <2>3. Cleaned \in [Tids -> TCB]
    <3>1. \A t \in Tids : tcb[t] \in TCB
      BY <1>1
    <3>2. Cleaned[z] \in TCB
      BY <2>1, <2>2, <3>1, FreedRecord
    <3>3. \A t \in Tids : Cleaned[t] \in TCB
      BY <2>2, <3>1, <3>2
    <3> QED
      BY <3>3, <1>1, <2>1
  <2>4. \A t \in Tids : t # z =>
                        /\ Alive(t) => tcb[t].stack # "freed"
                        /\ t \in created_threads /\ ~Alive(t) => tcb[t].stack = "freed"
    BY DEF IInv, StackSafe
  <2>5. \A t \in Tids : /\ Cleaned[t].killed = tcb[t].killed
                        /\ Cleaned[t].sleeping = tcb[t].sleeping
                        /\ Cleaned[t].wq = tcb[t].wq
                        /\ Cleaned[t].waiting_on = tcb[t].waiting_on
                        /\ Cleaned[t].exit = tcb[t].exit
                        /\ t = z => Cleaned[t].stack = "freed"
    <3> SUFFICES ASSUME NEW t \in Tids
                 PROVE  /\ Cleaned[t].killed = tcb[t].killed
                        /\ Cleaned[t].sleeping = tcb[t].sleeping
                        /\ Cleaned[t].wq = tcb[t].wq
                        /\ Cleaned[t].waiting_on = tcb[t].waiting_on
                        /\ Cleaned[t].exit = tcb[t].exit
                        /\ t = z => Cleaned[t].stack = "freed"
      OBVIOUS
    <3>1. tcb[t] \in TCB
      BY <1>1
    <3>2. CASE t = z
      BY ZenonT(60), <2>2, <3>1, <3>2, FreedRecord
    <3>3. CASE t # z
      BY <2>2, <3>3
    <3> QED
      BY <3>2, <3>3
  <2> QED
    BY <2>1, <2>2, <2>3, <2>4, <2>5
<1> QED
  BY <1>2, <1>3

\* Waking the first thread of a queue moves it to the ready queue.
LEMMA WakeFirst ==
  ASSUME IInv, NEW q \in WaitQueues
  PROVE  /\ ReadyAfterWakeup(waitq[q]) \in Seq(Tids)
         /\ IsInjective(ReadyAfterWakeup(waitq[q]))
         /\ Range(ReadyAfterWakeup(waitq[q])) = Ready \cup First(waitq[q])
         /\ First(waitq[q]) \subseteq Range(waitq[q])
         /\ First(waitq[q]) \subseteq Tids
         /\ Rest(waitq[q]) \in Seq(Tids)
         /\ IsInjective(Rest(waitq[q]))
         /\ Range(Rest(waitq[q])) = Range(waitq[q]) \ First(waitq[q])
         /\ Len(waitq[q]) <= 1 => Rest(waitq[q]) = <<>>
         /\ Rest(waitq[q]) # <<>> => waitq[q] # <<>>
<1> DEFINE s == waitq[q]
<1>1. s \in Seq(Tids) /\ IsInjective(s) /\ ready_queue \in Seq(Tids) /\ IsInjective(ready_queue)
  BY DEF IInv, TypeOK, OnePlace
<1>2. Range(s) \subseteq Asleep
  BY AsleepIff
<1>3. Ready \cap Asleep = {}
  BY DEF IInv, OnePlace
<1> HIDE DEF s
<1>4. CASE s = <<>>
  <2>1. Range(s) = {} /\ First(s) = {} /\ Rest(s) = <<>> /\ ReadyAfterWakeup(s) = ready_queue
    BY <1>1, <1>4, RangeSeq DEF First, Rest, ReadyAfterWakeup
  <2> QED
    BY <2>1, <1>1, <1>4 DEF s, Ready
<1>5. CASE s # <<>>
  <2>1. /\ First(s) = {Head(s)} /\ Rest(s) = Tail(s)
        /\ ReadyAfterWakeup(s) = add_to_queue_tail(ready_queue, Head(s))
    BY <1>5 DEF First, Rest, ReadyAfterWakeup
  <2>2. /\ Tail(s) \in Seq(Tids) /\ IsInjective(Tail(s))
        /\ Range(Tail(s)) = Range(s) \ {Head(s)}
        /\ Head(s) \in Range(s) /\ Head(s) \in Tids /\ Len(Tail(s)) = Len(s) - 1
    BY <1>1, <1>5, HeadTaken
  <2>3. Head(s) \notin Range(ready_queue)
    BY <2>2, <1>2, <1>3 DEF Ready
  <2>4. /\ add_to_queue_tail(ready_queue, Head(s)) \in Seq(Tids)
        /\ IsInjective(add_to_queue_tail(ready_queue, Head(s)))
        /\ Range(add_to_queue_tail(ready_queue, Head(s))) = Ready \cup {Head(s)}
    BY <2>2, <2>3, <1>1, AddToTail DEF Ready
  <2>5. Len(s) <= 1 => Tail(s) = <<>>
    BY <1>1, <1>5, <2>2
  <2> QED
    BY <2>1, <2>2, <2>4, <2>5, <1>5 DEF s
<1> QED
  BY <1>4, <1>5

\* When the process stops nothing but its status changes.
LEMMA StopStep ==
  ASSUME IInv, NEW s \in {"exited"} \cup Faults, Stop(s)
  PROVE  IInv'
<1> USE DEF IInv, Stop, sched, queues, tids
<1>1. TypeOK'
  BY DEF TypeOK
<1>2. OnePlace'
  BY DEF OnePlace, Ready, Asleep
<1>3. NoThreadLost'
  BY DEF NoThreadLost, Ready, Asleep, Alive
<1>4. TidPartition'
  BY DEF TidPartition
<1>5. StackSafe' /\ WaiterHasTarget'
  BY DEF StackSafe, WaiterHasTarget, Alive
<1>6. KilledNeverRuns'
  BY DEF KilledNeverRuns, Faults
<1> QED
  BY <1>1, <1>2, <1>3, <1>4, <1>5, <1>6

\* The running thread leaves with an exit code, and the next one is switched to.
LEMMA ExitStep ==
  ASSUME IInv, status = "run", None \notin ExitCodes, NEW code \in Int, code # None,
         thread_exit(Cleaned, code)
  PROVE  IInv'
<1> DEFINE first == First(waitq[me])
           rq    == ReadyAfterWakeup(waitq[me])
           wqs   == [waitq EXCEPT ![me] = Rest(@)]
           tc    == Awoken(Cleaned, first)
<1>1. me \in Tids /\ Alive(me) /\ Cleaned[me].waiting_on = None /\ me \in WaitQueues
  BY RunningAlive, CleanedFacts DEF IInv, TypeOK, me, WaitQueues
<1> HIDE DEF first, rq, wqs, tc
<1>0. PICK m \in Tids : m = me
  BY <1>1
<1>2. ClearedQueues(Cleaned) = waitq
  BY <1>1 DEF ClearedQueues
<1>3. CASE Stop(freeup_leftover_zombies(tc, wqs))
  <2>1. freeup_leftover_zombies(tc, wqs) \in {"exited"} \cup Faults
    BY Zenon DEF freeup_leftover_zombies, Faults
  <2> QED
    BY <1>3, <2>1, StopStep
<1>4. CASE /\ rq # <<>>
           /\ tcb' = [tc EXCEPT ![me].exit = code]
           /\ waitq' = wqs
           /\ num_threads_created' = num_threads_created - 1
           /\ zombie_tid' = me
           /\ SwitchTo(rq, 1)
           /\ ready_queue' = remove_from_queue(rq, 1)
           /\ joining' = [joining EXCEPT ![me] = None]
           /\ UNCHANGED <<user_queues, available_threads, created_threads, status>>
  <2>1. /\ rq \in Seq(Tids) /\ IsInjective(rq) /\ Range(rq) = Ready \cup first
        /\ first \subseteq Range(waitq[me]) /\ first \subseteq Tids
        /\ Rest(waitq[me]) = <<>> /\ Range(waitq[me]) = first
    <3>1. Len(waitq[me]) <= 1
      BY <1>1 DEF IInv, WaiterHasTarget
    <3>2. Rest(waitq[me]) = <<>>
      BY <1>1, <3>1, WakeFirst
    <3>3. Range(Rest(waitq[me])) = {}
      BY <3>2, EmptySeq, RangeSeq
    <3> QED
      BY <1>1, <3>2, <3>3, WakeFirst DEF rq, first
  <2>2. /\ ready_queue' \in Seq(Tids) /\ IsInjective(ready_queue')
        /\ Ready' = Range(rq) \ {running_thread'}
        /\ running_thread' \in Range(rq) /\ running_thread' \in Tids
    <3>1. 1 \in 1 .. Len(rq) /\ running_thread' = rq[1]
      BY <1>4, <2>1 DEF SwitchTo
    <3> QED
      BY <3>1, <2>1, <1>4, RemoveFrom DEF Ready
  <2>3. \A q \in WaitQueues : waitq'[q] = IF q = me THEN <<>> ELSE waitq[q]
    BY <1>1, <1>4, <2>1 DEF IInv, TypeOK, wqs
  <2>4. /\ waitq' \in [WaitQueues -> Seq(Tids)]
        /\ Range(<<>>) = {} /\ IsInjective(<<>>)
    <3>1. waitq' \in [WaitQueues -> Seq(Tids)]
      BY <1>1, <1>4, <2>1 DEF IInv, TypeOK, wqs
    <3>2. Range(<<>>) = {} /\ IsInjective(<<>>)
      BY DEF Range, IsInjective
    <3> QED BY <3>1, <3>2
  <2>5. Asleep' = Asleep \ first
    <3>1. \A q \in WaitQueues \ {me} : Range(waitq[q]) \cap first = {}
      BY <1>1, <2>1 DEF IInv, OnePlace
    <3>2. \A t : t \in Asleep' <=> \E q \in WaitQueues : t \in Range(waitq'[q])
      BY DEF Asleep
    <3> QED
      BY <3>1, <3>2, <2>1, <2>3, <2>4, AsleepIff
  <2>6. /\ tc \in [Tids -> TCB]
        /\ \A t \in Tids : /\ tc[t].killed = tcb[t].killed
                           /\ tc[t].wq = tcb[t].wq
                           /\ tc[t].exit = tcb[t].exit
                           /\ tc[t].stack = Cleaned[t].stack
                           /\ tc[t].sleeping = IF t \in first THEN FALSE ELSE tcb[t].sleeping
                           /\ tc[t].waiting_on = IF t \in first THEN None ELSE tcb[t].waiting_on
    <3>1. Cleaned \in [Tids -> TCB]
      BY CleanedFacts
    <3>2. \A t \in Tids : tc[t] = IF t \in first
                                  THEN [Cleaned[t] EXCEPT !.sleeping = FALSE, !.waiting_on = None]
                                  ELSE Cleaned[t]
      BY DEF Awoken, tc
    <3>3. \A t \in Tids : /\ tc[t] \in TCB
                          /\ tc[t].killed = Cleaned[t].killed
                          /\ tc[t].wq = Cleaned[t].wq
                          /\ tc[t].exit = Cleaned[t].exit
                          /\ tc[t].stack = Cleaned[t].stack
                          /\ tc[t].sleeping = IF t \in first THEN FALSE ELSE Cleaned[t].sleeping
                          /\ tc[t].waiting_on = IF t \in first THEN None ELSE Cleaned[t].waiting_on
      <4> SUFFICES ASSUME NEW t \in Tids
                   PROVE  /\ tc[t] \in TCB
                          /\ tc[t].killed = Cleaned[t].killed
                          /\ tc[t].wq = Cleaned[t].wq
                          /\ tc[t].exit = Cleaned[t].exit
                          /\ tc[t].stack = Cleaned[t].stack
                          /\ tc[t].sleeping = IF t \in first THEN FALSE ELSE Cleaned[t].sleeping
                          /\ tc[t].waiting_on = IF t \in first THEN None ELSE Cleaned[t].waiting_on
        OBVIOUS
      <4> HIDE DEF tc, first
      <4>1. Cleaned[t] \in TCB
        BY <3>1
      <4>2. CASE t \in first
        BY <3>2, <4>1, <4>2, WokenRecord
      <4>3. CASE t \notin first
        BY <3>2, <4>1, <4>3
      <4> QED
        BY <4>2, <4>3
    <3>4. tc \in [Tids -> TCB]
      BY <3>3 DEF Awoken, tc
    <3>5. \A t \in Tids : /\ Cleaned[t].killed = tcb[t].killed
                          /\ Cleaned[t].wq = tcb[t].wq
                          /\ Cleaned[t].exit = tcb[t].exit
                          /\ Cleaned[t].sleeping = tcb[t].sleeping
                          /\ Cleaned[t].waiting_on = tcb[t].waiting_on
      BY CleanedFacts
    <3> SUFFICES ASSUME NEW t \in Tids
                 PROVE  /\ tc[t].killed = tcb[t].killed
                        /\ tc[t].wq = tcb[t].wq
                        /\ tc[t].exit = tcb[t].exit
                        /\ tc[t].stack = Cleaned[t].stack
                        /\ tc[t].sleeping = IF t \in first THEN FALSE ELSE tcb[t].sleeping
                        /\ tc[t].waiting_on = IF t \in first THEN None ELSE tcb[t].waiting_on
      BY <3>4
    <3> QED
      BY ZenonT(60), <3>3, <3>5
  <2>7. /\ tcb' \in [Tids -> TCB]
        /\ \A t \in Tids : /\ tcb'[t].killed = tcb[t].killed
                           /\ tcb'[t].wq = tcb[t].wq
                           /\ tcb'[t].exit = IF t = me THEN code ELSE tcb[t].exit
                           /\ tcb'[t].stack = Cleaned[t].stack
                           /\ tcb'[t].sleeping = IF t \in first THEN FALSE ELSE tcb[t].sleeping
                           /\ tcb'[t].waiting_on = IF t \in first THEN None ELSE tcb[t].waiting_on
    <3>1. \A t \in Tids : tcb'[t] = IF t = me THEN [tc[t] EXCEPT !.exit = code] ELSE tc[t]
      BY <2>6, <1>4, <1>1
    <3>2. \A t \in Tids : /\ tcb'[t] \in TCB
                          /\ tcb'[t].killed = tc[t].killed
                          /\ tcb'[t].wq = tc[t].wq
                          /\ tcb'[t].exit = IF t = me THEN code ELSE tc[t].exit
                          /\ tcb'[t].stack = tc[t].stack
                          /\ tcb'[t].sleeping = tc[t].sleeping
                          /\ tcb'[t].waiting_on = tc[t].waiting_on
      <4> SUFFICES ASSUME NEW t \in Tids
                   PROVE  /\ tcb'[t] \in TCB
                          /\ tcb'[t].killed = tc[t].killed
                          /\ tcb'[t].wq = tc[t].wq
                          /\ tcb'[t].exit = IF t = me THEN code ELSE tc[t].exit
                          /\ tcb'[t].stack = tc[t].stack
                          /\ tcb'[t].sleeping = tc[t].sleeping
                          /\ tcb'[t].waiting_on = tc[t].waiting_on
        OBVIOUS
      <4>1. tc[t] \in TCB
        BY <2>6
      <4>2. CASE t # me
        BY <3>1, <4>1, <4>2
      <4>3. CASE t = me
        <5>1. tcb'[t] = [tc[t] EXCEPT !.exit = code]
          BY <3>1, <4>3
        <5> QED
          BY <5>1, <4>1, <4>3 DEF TCB
      <4> QED
        BY <4>2, <4>3
    <3>3. tcb' \in [Tids -> TCB]
      BY <3>2, <2>6, <1>4
    <3> SUFFICES ASSUME NEW t \in Tids
                 PROVE  /\ tcb'[t].killed = tcb[t].killed
                        /\ tcb'[t].wq = tcb[t].wq
                        /\ tcb'[t].exit = IF t = me THEN code ELSE tcb[t].exit
                        /\ tcb'[t].stack = Cleaned[t].stack
                        /\ tcb'[t].sleeping = IF t \in first THEN FALSE ELSE tcb[t].sleeping
                        /\ tcb'[t].waiting_on = IF t \in first THEN None ELSE tcb[t].waiting_on
      BY <3>3
    <3> QED
      BY ZenonT(60), <3>2, <2>6
  <2>8. \A t : Alive(t)' <=> Alive(t) /\ t # me
    <3>1. \A t : t \in created_threads => t \in Tids
      BY DEF IInv, TypeOK
    <3> QED
      BY <3>1, <2>7, <1>4 DEF Alive
  <2>9. TypeOK'
    BY <2>2, <2>4, <2>7, <1>1, <1>4 DEF IInv, TypeOK, SwitchTo
  <2>10. OnePlace'
    <3>1. Ready' \cap Asleep' = {} /\ running_thread' \notin Ready' /\ running_thread' \notin Asleep'
      BY <2>1, <2>2, <2>5 DEF IInv, OnePlace
    <3>2. \A q \in WaitQueues : IsInjective(waitq'[q])
      BY <2>3, <2>4 DEF IInv, OnePlace
    <3>3. \A p, q \in WaitQueues : p # q => Range(waitq'[p]) \cap Range(waitq'[q]) = {}
      BY <2>3, <2>4 DEF IInv, OnePlace
    <3> QED
      BY <2>2, <3>1, <3>2, <3>3 DEF OnePlace
  <2>11. NoThreadLost'
    <3>1. first \subseteq Asleep
      BY <1>1, <2>1, AsleepIff
    <3>2. {running_thread'} \cup Ready' \cup Asleep' = {t \in Tids : Alive(t)'}
      BY <1>1, <2>1, <2>2, <2>5, <2>8, <3>1 DEF IInv, OnePlace, NoThreadLost, me
    <3>3. ASSUME NEW t \in created_threads'
          PROVE  tcb'[t].sleeping <=> t \in Asleep'
      <4>1. t \in Tids /\ (tcb[t].sleeping <=> t \in Asleep)
        BY <1>4 DEF IInv, NoThreadLost, TypeOK
      <4>2. CASE t \in first
        BY <2>5, <2>7, <4>1, <4>2
      <4>3. CASE t \notin first
        BY <2>5, <2>7, <4>1, <4>3
      <4> QED
        BY <4>2, <4>3
    <3> QED
      BY <3>2, <3>3 DEF NoThreadLost
  <2>12. TidPartition'
    BY <1>4 DEF IInv, TidPartition
  <2>13. StackSafe'
    <3>1. \A t \in Tids : Alive(t)' => tcb'[t].stack # "freed"
      <4> SUFFICES ASSUME NEW t \in Tids, Alive(t)' PROVE tcb'[t].stack # "freed"
        OBVIOUS
      <4>1. Alive(t)
        BY <2>8
      <4> QED
        BY <4>1, <2>7, CleanedFacts
    <3>2. created_threads' = created_threads /\ zombie_tid' = m /\ resuming' /\ m \in created_threads
      BY <1>0, <1>1, <1>4 DEF SwitchTo, Alive
    <3>3. ASSUME NEW t \in created_threads', ~Alive(t)'
          PROVE  tcb'[t].stack = "freed" <=> t # zombie_tid'
      <4>1. t \in Tids /\ t \in created_threads
        BY <3>2 DEF IInv, TypeOK
      <4>2. CASE t = m
        BY <4>1, <4>2, <3>2, <1>0, <1>1, <2>7, CleanedFacts
      <4>3. CASE t # m
        BY <4>1, <4>3, <3>2, <3>3, <1>0, <2>7, <2>8, CleanedFacts
      <4> QED
        BY <4>2, <4>3
    <3>4. ~Alive(zombie_tid)' /\ zombie_tid' \in created_threads'
      <4>1. ~Alive(m)'
        BY <2>8, <1>0
      <4> QED
        BY <4>1, <3>2 DEF Alive
    <3> QED
      BY <3>1, <3>2, <3>3, <3>4 DEF StackSafe
  <2>14. WaiterHasTarget'
    <3>1. \A u \in Tids : Len(waitq'[u]) <= 1 /\ (waitq'[u] # <<>> => Alive(u)' /\ tcb'[u].wq)
      <4> SUFFICES ASSUME NEW u \in Tids
                   PROVE  Len(waitq'[u]) <= 1 /\ (waitq'[u] # <<>> => Alive(u)' /\ tcb'[u].wq)
        OBVIOUS
      <4>1. CASE u = m
        BY <4>1, <1>0, <1>1, <2>3
      <4>2. CASE u # m
        <5>1. waitq'[u] = waitq[u]
          BY <4>2, <1>0, <2>3 DEF WaitQueues
        <5>2. Len(waitq[u]) <= 1 /\ (waitq[u] # <<>> => Alive(u) /\ tcb[u].wq)
          BY DEF IInv, WaiterHasTarget
        <5> QED
          BY <5>1, <5>2, <4>2, <1>0, <2>7, <2>8
      <4> QED
        BY <4>1, <4>2
    <3>2. \A t \in created_threads', u \in Tids : t \in Range(waitq'[u]) <=> tcb'[t].waiting_on = u
      <4>1. \A t \in created_threads', u \in Tids : t \in Range(waitq[u]) <=> tcb[t].waiting_on = u
        BY <1>4 DEF IInv, WaiterHasTarget
      <4>2. \A t \in created_threads' : t \in Tids
        BY <1>4 DEF IInv, TypeOK
      <4> SUFFICES ASSUME NEW t \in created_threads', NEW u \in Tids
                   PROVE  t \in Range(waitq'[u]) <=> tcb'[t].waiting_on = u
        OBVIOUS
      <4>3. t \in Range(waitq[u]) <=> tcb[t].waiting_on = u
        BY <4>1
      <4>4. t \in first <=> tcb[t].waiting_on = m
        BY <4>1, <1>0, <2>1
      <4>5. CASE u = m
        <5>1. t \notin Range(waitq'[u])
          BY <4>2, <4>5, <1>0, <1>1, <2>3, <2>4
        <5>2. tcb'[t].waiting_on = IF t \in first THEN None ELSE tcb[t].waiting_on
          BY <4>2, <2>7
        <5>3. tcb'[t].waiting_on # u
          BY <4>4, <4>5, <5>2, NoneIsNoTid
        <5> QED
          BY <5>1, <5>3
      <4>6. CASE u # m
        <5>1. waitq'[u] = waitq[u]
          BY <4>6, <1>0, <2>3 DEF WaitQueues
        <5> QED
          BY ZenonT(60), <5>1, <4>2, <4>3, <4>4, <4>6, <2>7, NoneIsNoTid
      <4> QED
        BY <4>5, <4>6
    <3> QED
      BY <3>1, <3>2 DEF WaiterHasTarget, Alive
  <2>15. KilledNeverRuns'
    BY <1>4 DEF KilledNeverRuns, SwitchTo
  <2> QED
    BY <2>9, <2>10, <2>11, <2>12, <2>13, <2>14, <2>15 DEF IInv
<1> QED
  BY <1>2, <1>3, <1>4 DEF thread_exit, rq, wqs, tc, first

\* The running thread collects an exited one: the last part of thread_wait.
LEMMA ReapStep ==
  ASSUME IInv, status = "run", ~tcb[me].killed, NEW t, Reap(Cleaned, t)
  PROVE  IInv'
<1>1. me \in Tids /\ Alive(me)
  BY RunningAlive DEF IInv, TypeOK, me
<1>2. CASE Stop(ReapOutcome(Cleaned, t)) /\ ReapOutcome(Cleaned, t) # "run"
  <2>1. ReapOutcome(Cleaned, t) \in {"exited"} \cup Faults
    BY <1>2 DEF ReapOutcome, Faults
  <2> QED
    BY <1>2, <2>1, StopStep
<1>3. CASE /\ ReapOutcome(Cleaned, t) = "run"
           /\ available_threads' = append_to_available(available_threads, t)
           /\ created_threads' = created_threads \ {t}
           /\ num_threads_created' = num_threads_created - 1
           /\ tcb' = [Cleaned EXCEPT ![t] = NewThread(0, "none")]
           /\ joining' = [joining EXCEPT ![me] = None]
           /\ zombie_tid' = None
           /\ resuming' = FALSE
           /\ UNCHANGED <<running_thread, ready_queue, queues, status>>
  <2>1. t \in created_threads /\ t \in Tids /\ Cleaned[t].exit # None
    BY <1>3 DEF ReapOutcome, IInv, TypeOK
  <2>2. ~Alive(t) /\ t # me
    BY <1>1, <2>1, CleanedFacts DEF Alive
  <2>3. NewThread(0, "none") \in TCB /\ 0 \in Tids
    BY MaxThreadsAssumption, NoneIsNoTid DEF NewThread, TCB, Tids
  <2>4. /\ tcb' \in [Tids -> TCB]
        /\ \A u \in Tids : u # t => tcb'[u] = Cleaned[u]
    BY <1>3, <2>1, <2>3, CleanedFacts
  <2>5. \A u : Alive(u)' <=> Alive(u)
    <3>1. \A u \in Tids : u # t => tcb'[u].exit = tcb[u].exit
      BY <2>4, CleanedFacts
    <3> QED
      BY <1>3, <2>2, <3>1 DEF Alive, IInv, TypeOK
  <2>6. /\ append_to_available(available_threads, t) \in Seq(Tids)
        /\ IsInjective(append_to_available(available_threads, t))
        /\ Range(append_to_available(available_threads, t)) = Range(available_threads) \cup {t}
    <3>1. /\ available_threads \in Seq(Tids) /\ IsInjective(available_threads)
          /\ t \notin Range(available_threads)
      BY <2>1 DEF IInv, TypeOK, TidPartition
    <3> QED
      BY <3>1, <2>1, AddToTail DEF append_to_available
  <2>7. TypeOK'
    <3>1. joining' \in [Tids -> Tids \cup {None}] /\ num_threads_created' \in Int
      BY <1>1, <1>3 DEF IInv, TypeOK
    <3>2. created_threads' \subseteq Tids /\ zombie_tid' \in Tids \cup {None} /\ resuming' \in BOOLEAN
      BY <1>3 DEF IInv, TypeOK
    <3> QED
      BY <3>1, <3>2, <1>3, <2>4, <2>6 DEF IInv, TypeOK, queues
  <2>8. OnePlace' /\ Ready' = Ready /\ Asleep' = Asleep
    BY <1>3 DEF IInv, OnePlace, Ready, Asleep, queues
  <2>9. NoThreadLost'
    <3>1. {running_thread'} \cup Ready' \cup Asleep' = {u \in Tids : Alive(u)'}
      BY <1>3, <2>5, <2>8 DEF IInv, NoThreadLost
    <3>2. \A u \in created_threads' : tcb'[u].sleeping <=> u \in Asleep'
      BY <1>3, <2>4, <2>8, CleanedFacts DEF IInv, NoThreadLost, TypeOK
    <3> QED
      BY <3>1, <3>2 DEF NoThreadLost
  <2>10. TidPartition'
    BY <1>3, <2>1, <2>6 DEF IInv, TidPartition
  <2>11. StackSafe'
    <3>1. \A u \in Tids : Alive(u)' => tcb'[u].stack # "freed"
      BY <2>2, <2>4, <2>5, CleanedFacts
    <3>2. \A u \in created_threads' : ~Alive(u)' => (tcb'[u].stack = "freed" <=> u # zombie_tid')
      <4>1. \A u \in created_threads' : u \in Tids /\ u \in created_threads /\ u # t
        BY <1>3 DEF IInv, TypeOK
      <4> QED
        BY <4>1, <1>3, <2>4, <2>5, CleanedFacts, NoneIsNoTid
    <3> QED
      BY <3>1, <3>2, <1>3 DEF StackSafe
  <2>12. WaiterHasTarget'
    <3>1. waitq' = waitq
      BY <1>3 DEF queues
    <3>2. \A u \in Tids : /\ Len(waitq[u]) <= 1
                          /\ waitq[u] # <<>> => Alive(u)' /\ tcb'[u].wq
      BY <2>2, <2>4, <2>5, CleanedFacts DEF IInv, WaiterHasTarget
    <3>3. \A v \in created_threads', u \in Tids : v \in Range(waitq[u]) <=> tcb'[v].waiting_on = u
      <4>1. \A v \in created_threads' : v \in Tids /\ v \in created_threads /\ v # t
        BY <1>3 DEF IInv, TypeOK
      <4> QED
        BY <4>1, <2>4, CleanedFacts DEF IInv, WaiterHasTarget
    <3> QED
      BY <3>1, <3>2, <3>3 DEF WaiterHasTarget
  <2>13. KilledNeverRuns'
    <3>1. ~tcb'[me].killed
      BY <1>1, <2>2, <2>4, CleanedFacts
    <3> QED
      BY <3>1, <1>3 DEF KilledNeverRuns, me
  <2> QED
    BY <2>7, <2>8, <2>9, <2>10, <2>11, <2>12, <2>13 DEF IInv
<1> QED
  BY <1>2, <1>3 DEF Reap

\* The switched-to thread ends its switch and goes on with nothing else changed:
\* back in client code, or with a lock it found free.
LEMMA CleanedStep ==
  ASSUME IInv, ~tcb[me].killed, resuming' \in BOOLEAN, tcb' = Cleaned, zombie_tid' = None,
         UNCHANGED <<running_thread, ready_queue, queues, tids, joining, status>>
  PROVE  IInv'
<1>1. me \in Tids /\ Alive(me)
  BY RunningAlive DEF IInv, TypeOK, me
<1>2. \A u : Alive(u)' <=> Alive(u)
  BY CleanedFacts DEF Alive, IInv, TypeOK, tids
<1>3. TypeOK'
  BY CleanedFacts DEF IInv, TypeOK, queues, tids
<1>4. OnePlace' /\ Ready' = Ready /\ Asleep' = Asleep
  BY DEF IInv, OnePlace, Ready, Asleep, queues
<1>5. NoThreadLost'
  <2>1. \A u \in created_threads' : tcb'[u].sleeping <=> u \in Asleep'
    BY <1>4, CleanedFacts DEF IInv, NoThreadLost, TypeOK, tids
  <2> QED
    BY <2>1, <1>2, <1>4 DEF IInv, NoThreadLost, tids
<1>6. TidPartition'
  BY DEF IInv, TidPartition, tids
<1>7. StackSafe'
  <2>1. \A u \in Tids : Alive(u)' => tcb'[u].stack # "freed"
    BY <1>2, CleanedFacts
  <2>2. \A u \in created_threads' : ~Alive(u)' => (tcb'[u].stack = "freed" <=> u # zombie_tid')
    <3>1. \A u \in created_threads' : u \in Tids /\ u \in created_threads
      BY DEF IInv, TypeOK, tids
    <3> QED
      BY <3>1, <1>2, CleanedFacts, NoneIsNoTid
  <2> QED
    BY <2>1, <2>2 DEF StackSafe
<1>8. WaiterHasTarget'
  <2>1. waitq' = waitq
    BY DEF queues
  <2>2. \A u \in Tids : /\ Len(waitq[u]) <= 1
                        /\ waitq[u] # <<>> => Alive(u)' /\ tcb'[u].wq
    BY <1>2, CleanedFacts DEF IInv, WaiterHasTarget
  <2>3. \A v \in created_threads', u \in Tids : v \in Range(waitq[u]) <=> tcb'[v].waiting_on = u
    <3>1. created_threads' = created_threads /\ created_threads \subseteq Tids /\ tcb' = Cleaned
      BY DEF IInv, TypeOK, tids
    <3>2. \A v \in created_threads, u \in Tids : v \in Range(waitq[u]) <=> tcb[v].waiting_on = u
      BY DEF IInv, WaiterHasTarget
    <3> QED
      BY <3>1, <3>2, CleanedFacts
  <2> QED
    BY <2>1, <2>2, <2>3 DEF WaiterHasTarget
<1>9. KilledNeverRuns'
  BY <1>1, CleanedFacts DEF KilledNeverRuns, me
<1> QED
  BY <1>3, <1>4, <1>5, <1>6, <1>7, <1>8, <1>9 DEF IInv

\* A switch to a ready thread by a caller that stays ready (thread_yield).
LEMMA YieldStep ==
  ASSUME IInv, ~resuming, NEW i \in 1 .. Len(ready_queue), thread_yield(tcb, i),
         UNCHANGED <<queues, tids, tcb, joining, zombie_tid, status>>
  PROVE  IInv'
<1> DEFINE rest == remove_from_queue(ready_queue, i)
<1>1. me \in Tids /\ Alive(me) /\ ~tcb[me].sleeping
  BY RunningAlive DEF IInv, TypeOK, me
<1>2. /\ rest \in Seq(Tids) /\ IsInjective(rest)
      /\ Range(rest) = Ready \ {running_thread'}
      /\ running_thread' \in Ready /\ running_thread' \in Tids
      /\ resuming' = TRUE
  BY RemoveFrom DEF IInv, TypeOK, OnePlace, thread_yield, SwitchTo, Ready
<1>3. ready_queue' = add_to_queue_tail(rest, me)
  BY <1>1 DEF thread_yield
<1> HIDE DEF rest
<1>4. me \notin Ready /\ me \notin Asleep
  BY DEF IInv, OnePlace, me
<1>5. /\ ready_queue' \in Seq(Tids) /\ IsInjective(ready_queue')
      /\ Ready' = (Ready \ {running_thread'}) \cup {me}
  BY <1>1, <1>2, <1>3, <1>4, AddToTail DEF Ready
<1>6. /\ waitq' = waitq /\ tcb' = tcb /\ created_threads' = created_threads
      /\ Asleep' = Asleep /\ \A u : Alive(u)' <=> Alive(u)
  BY DEF queues, tids, Asleep, Alive
<1>7. TypeOK'
  BY <1>2, <1>5, <1>6 DEF IInv, TypeOK, queues, tids
<1>8. OnePlace'
  BY <1>2, <1>4, <1>5, <1>6 DEF IInv, OnePlace
<1>9. NoThreadLost'
  BY <1>2, <1>4, <1>5, <1>6 DEF IInv, NoThreadLost, me
<1>10. TidPartition'
  BY DEF IInv, TidPartition, tids
<1>11. StackSafe' /\ WaiterHasTarget'
  BY <1>2, <1>6 DEF IInv, StackSafe, WaiterHasTarget
<1>12. KilledNeverRuns'
  BY <1>2 DEF KilledNeverRuns
<1> QED
  BY <1>7, <1>8, <1>9, <1>10, <1>11, <1>12 DEF IInv

\* A switch to the first ready thread by a caller that goes to sleep in q:
\* thread_sleep of a client's queue, of thread q's own queue in thread_wait, or of
\* a lock's by a thread that was switched to and found it taken.
LEMMA SleepStep ==
  ASSUME IInv, ready_queue # <<>>,
         NEW q \in WaitQueues, NEW tc \in [Tids -> TCB],
         \A t \in Tids : /\ tc[t].killed = tcb[t].killed
                         /\ tc[t].sleeping = tcb[t].sleeping
                         /\ tc[t].exit = tcb[t].exit
                         /\ tc[t].stack = Cleaned[t].stack
                         /\ tcb[t].wq => tc[t].wq
                         /\ tc[t].waiting_on = IF t = me /\ q \in Tids THEN q
                                               ELSE tcb[t].waiting_on,
         q \in Tids => Alive(q) /\ waitq[q] = <<>> /\ tc[q].wq,
         thread_sleep(tc, q),
         joining' \in [Tids -> Tids \cup {None}], zombie_tid' = None,
         UNCHANGED <<user_queues, tids, status>>
  PROVE  IInv'
<1> DEFINE asleep == [tc EXCEPT ![me].sleeping = TRUE]
<1>1. /\ me \in Tids /\ Alive(me) /\ ~tcb[me].sleeping /\ tcb[me].waiting_on = None
      /\ me \notin Ready /\ me \notin Asleep
  BY RunningAlive DEF IInv, TypeOK, OnePlace, me
<1>0. PICK m \in Tids : m = me
  BY <1>1
<1>2. /\ tcb' = asleep
      /\ waitq' = [waitq EXCEPT ![q] = Append(@, me)]
      /\ thread_yield(asleep, 1)
  BY Zenon DEF thread_sleep
<1>3. /\ tcb' \in [Tids -> TCB]
      /\ \A t \in Tids : /\ tcb'[t].killed = tcb[t].killed
                         /\ tcb'[t].exit = tcb[t].exit
                         /\ tcb'[t].stack = Cleaned[t].stack
                         /\ tcb[t].wq => tcb'[t].wq
                         /\ tcb'[t].wq = tc[t].wq
                         /\ tcb'[t].sleeping <=> t = m \/ tcb[t].sleeping
                         /\ tcb'[t].waiting_on = IF t = m /\ q \in Tids THEN q
                                                 ELSE tcb[t].waiting_on
  <2>1. \A t \in Tids : tcb'[t] = IF t = m THEN [tc[t] EXCEPT !.sleeping = TRUE] ELSE tc[t]
    BY <1>0, <1>2
  <2>2. ASSUME NEW t \in Tids
        PROVE  /\ tcb'[t] \in TCB
               /\ tcb'[t].killed = tc[t].killed
               /\ tcb'[t].exit = tc[t].exit
               /\ tcb'[t].stack = tc[t].stack
               /\ tcb'[t].wq = tc[t].wq
               /\ tcb'[t].sleeping <=> t = m \/ tc[t].sleeping
               /\ tcb'[t].waiting_on = tc[t].waiting_on
    <3>1. tc[t] \in TCB
      OBVIOUS
    <3>2. CASE t = m
      <4>1. tcb'[t] = [tc[t] EXCEPT !.sleeping = TRUE]
        BY <2>1, <3>2
      <4> QED
        BY <4>1, <3>1, <3>2 DEF TCB
    <3>3. CASE t # m
      BY <2>1, <3>1, <3>3 DEF TCB
    <3> QED
      BY <3>2, <3>3
  <2>3. tcb' \in [Tids -> TCB]
    BY <2>2, <1>2
  <2> QED
    BY <2>2, <2>3, <1>0
<1>4. asleep[me].sleeping
  BY <1>0, <1>2, <1>3
<1> HIDE DEF asleep
<1>5. /\ ready_queue' \in Seq(Tids) /\ IsInjective(ready_queue')
      /\ Ready' = Ready \ {running_thread'}
      /\ running_thread' \in Ready /\ running_thread' \in Tids
      /\ resuming' = TRUE
  <2>1. ready_queue' = remove_from_queue(ready_queue, 1) /\ running_thread' = ready_queue[1]
    BY <1>2, <1>4 DEF thread_yield, SwitchTo
  <2>2. 1 \in 1 .. Len(ready_queue)
    BY DEF IInv, TypeOK
  <2> QED
    BY <2>1, <2>2, <1>2, RemoveFrom DEF IInv, TypeOK, OnePlace, thread_yield, SwitchTo, Ready
<1>6. /\ waitq' \in [WaitQueues -> Seq(Tids)]
      /\ \A p \in WaitQueues : p # q => waitq'[p] = waitq[p]
      /\ waitq'[q] = Append(waitq[q], m)
  BY <1>0, <1>2 DEF IInv, TypeOK
<1>7. /\ IsInjective(waitq'[q])
      /\ Range(waitq'[q]) = Range(waitq[q]) \cup {m}
  <2>1. m \notin Range(waitq[q])
    BY <1>0, <1>1, AsleepIff
  <2>2. waitq[q] \in Seq(Tids) /\ IsInjective(waitq[q])
    BY DEF IInv, TypeOK, OnePlace
  <2>3. add_to_queue_tail(waitq[q], m) = waitq'[q]
    BY <1>6, <2>1, <2>2, AddToTail
  <2> QED
    BY <2>1, <2>2, <2>3, AddToTail
<1>8. \A p \in WaitQueues : Range(waitq'[p]) = IF p = q THEN Range(waitq[p]) \cup {m}
                                               ELSE Range(waitq[p])
  BY <1>6, <1>7
<1>9. Asleep' = Asleep \cup {m}
  <2>1. \A t : t \in Asleep' <=> \E p \in WaitQueues : t \in Range(waitq'[p])
    BY DEF Asleep
  <2> QED
    BY ZenonT(60), <2>1, <1>8, AsleepIff
<1>10. created_threads' = created_threads /\ \A u : Alive(u)' <=> Alive(u)
  BY <1>3 DEF IInv, TypeOK, Alive, tids
<1>11. TypeOK'
  BY <1>3, <1>5, <1>6 DEF IInv, TypeOK, tids
<1>12. OnePlace'
  <2>1. \A p \in WaitQueues : IsInjective(waitq'[p])
    BY <1>6, <1>7 DEF IInv, OnePlace
  <2>2. \A p, r \in WaitQueues : p # r => Range(waitq'[p]) \cap Range(waitq'[r]) = {}
    <3>1. \A p \in WaitQueues : m \notin Range(waitq[p])
      BY <1>0, <1>1, AsleepIff
    <3>2. \A p, r \in WaitQueues : p # r => Range(waitq[p]) \cap Range(waitq[r]) = {}
      BY DEF IInv, OnePlace
    <3> SUFFICES ASSUME NEW p \in WaitQueues, NEW r \in WaitQueues, p # r
                 PROVE  Range(waitq'[p]) \cap Range(waitq'[r]) = {}
      OBVIOUS
    <3>3. CASE p = q /\ r # q
      <4>1. Range(waitq'[p]) = Range(waitq[p]) \cup {m} /\ Range(waitq'[r]) = Range(waitq[r])
        BY <3>3, <1>8
      <4> QED
        BY <4>1, <3>1, <3>2
    <3>4. CASE p # q /\ r = q
      <4>1. Range(waitq'[r]) = Range(waitq[r]) \cup {m} /\ Range(waitq'[p]) = Range(waitq[p])
        BY <3>4, <1>8
      <4> QED
        BY <4>1, <3>1, <3>2
    <3>5. CASE p # q /\ r # q
      <4>1. Range(waitq'[p]) = Range(waitq[p]) /\ Range(waitq'[r]) = Range(waitq[r])
        BY <3>5, <1>8
      <4> QED
        BY <4>1, <3>2
    <3> QED
      BY <3>3, <3>4, <3>5
  <2> QED
    BY <2>1, <2>2, <1>0, <1>1, <1>5, <1>9 DEF IInv, OnePlace
<1>13. NoThreadLost'
  <2>1. {running_thread'} \cup Ready' \cup Asleep' = {u \in Tids : Alive(u)'}
    BY <1>0, <1>5, <1>9, <1>10 DEF IInv, NoThreadLost, me
  <2>2. \A u \in created_threads' : tcb'[u].sleeping <=> u \in Asleep'
    BY <1>3, <1>9, <1>10 DEF IInv, NoThreadLost, TypeOK
  <2> QED
    BY <2>1, <2>2 DEF NoThreadLost
<1>14. TidPartition'
  BY DEF IInv, TidPartition, tids
<1>15. StackSafe'
  <2>1. created_threads \subseteq Tids
    BY DEF IInv, TypeOK
  <2>2. /\ \A t \in Tids : Alive(t)' => tcb'[t].stack # "freed"
        /\ \A t \in created_threads' :
             ~Alive(t)' => (tcb'[t].stack = "freed" <=> t # zombie_tid')
    BY <2>1, <1>3, <1>10, CleanedFacts, NoneIsNoTid
  <2> QED
    BY <2>2 DEF StackSafe
<1>16. WaiterHasTarget'
  <2>1. ASSUME NEW u \in Tids
        PROVE  /\ Len(waitq'[u]) <= 1
               /\ waitq'[u] # <<>> => Alive(u)' /\ tcb'[u].wq
    <3>1. u \in WaitQueues /\ Len(waitq[u]) <= 1 /\ (waitq[u] # <<>> => Alive(u) /\ tcb[u].wq)
      BY DEF IInv, WaiterHasTarget, WaitQueues
    <3>2. CASE u = q
      <4>1. waitq[u] = <<>> /\ waitq'[u] = Append(<<>>, m)
        BY <3>2, <1>6
      <4>2. Len(waitq'[u]) <= 1
        BY <4>1
      <4> QED
        BY <4>2, <3>2, <1>3, <1>10
    <3>3. CASE u # q
      BY <3>1, <3>3, <1>3, <1>6, <1>10
    <3> QED
      BY <3>2, <3>3
  <2>2. ASSUME NEW t \in created_threads', NEW u \in Tids
        PROVE  t \in Range(waitq'[u]) <=> tcb'[t].waiting_on = u
    <3>1. t \in Tids /\ t \in created_threads /\ u \in WaitQueues
      BY <1>10 DEF IInv, TypeOK, WaitQueues
    <3>2. t \in Range(waitq[u]) <=> tcb[t].waiting_on = u
      BY <3>1 DEF IInv, WaiterHasTarget
    <3>3. m \notin Range(waitq[u])
      BY <1>0, <1>1, <3>1, AsleepIff
    <3>4. CASE t = m
      <4>1. tcb'[t].waiting_on = IF q \in Tids THEN q ELSE None
        BY <3>4, <1>0, <1>1, <1>3
      <4>2. t \in Range(waitq'[u]) <=> u = q
        BY <3>1, <3>3, <3>4, <1>8
      <4> QED
        BY <4>1, <4>2, NoneIsNoTid
    <3>5. CASE t # m
      <4>1. tcb'[t].waiting_on = tcb[t].waiting_on
        BY <3>1, <3>5, <1>3
      <4>2. t \in Range(waitq'[u]) <=> t \in Range(waitq[u])
        BY <3>1, <3>5, <1>8
      <4> QED
        BY <4>1, <4>2, <3>2
    <3> QED
      BY <3>4, <3>5
  <2> QED
    BY <2>1, <2>2 DEF WaiterHasTarget
<1>17. KilledNeverRuns'
  BY <1>5 DEF KilledNeverRuns
<1> QED
  BY <1>11, <1>12, <1>13, <1>14, <1>15, <1>16, <1>17 DEF IInv

LEMMA StatusKnown == IInv => status \in {"run", "exited"} \cup Faults
  BY DEF IInv, TypeOK

\* Waking a set of threads: they leave the wait queues for the ready queue, and
\* thread v, if any, is marked killed (wakeup, wakeup_all, thread_kill).
LEMMA WakeStep ==
  ASSUME IInv, ~resuming,
         NEW S, S \subseteq Asleep,
         ready_queue' \in Seq(Tids), IsInjective(ready_queue'), Ready' = Ready \cup S,
         waitq' \in [WaitQueues -> Seq(Tids)],
         \A q \in WaitQueues : /\ IsInjective(waitq'[q])
                               /\ Range(waitq'[q]) = Range(waitq[q]) \ S
                               /\ Len(waitq'[q]) <= Len(waitq[q]),
         tcb' \in [Tids -> TCB],
         \A t \in Tids : /\ tcb'[t].exit = tcb[t].exit
                         /\ tcb'[t].stack = tcb[t].stack
                         /\ tcb'[t].wq = tcb[t].wq
                         /\ tcb'[t].sleeping = IF t \in S THEN FALSE ELSE tcb[t].sleeping
                         /\ tcb'[t].waiting_on = IF t \in S THEN None ELSE tcb[t].waiting_on
                         /\ t = me => tcb'[t].killed = tcb[t].killed,
         status' \in {"run", "exited"} \cup Faults, status' = "run" => status = "run",
         UNCHANGED <<running_thread, resuming, user_queues, tids, joining, zombie_tid>>
  PROVE  IInv'
<1>1. me \in Tids /\ created_threads \subseteq Tids
  BY DEF IInv, TypeOK, me
<1>2. created_threads' = created_threads /\ \A u : Alive(u)' <=> Alive(u)
  BY <1>1 DEF Alive, tids
<1>3. Asleep' = Asleep \ S
  <2>1. \A t : t \in Asleep' <=> \E p \in WaitQueues : t \in Range(waitq'[p])
    BY DEF Asleep
  <2> QED
    BY <2>1, AsleepIff
<1>4. TypeOK'
  BY DEF IInv, TypeOK, tids
<1>5. OnePlace'
  BY <1>3 DEF IInv, OnePlace
<1>6. NoThreadLost'
  <2>1. {running_thread'} \cup Ready' \cup Asleep' = {u \in Tids : Alive(u)'}
    BY <1>2, <1>3 DEF IInv, NoThreadLost
  <2>2. \A u \in created_threads' : tcb'[u].sleeping <=> u \in Asleep'
    BY <1>1, <1>2, <1>3 DEF IInv, NoThreadLost
  <2> QED
    BY <2>1, <2>2 DEF NoThreadLost
<1>7. TidPartition'
  BY DEF IInv, TidPartition, tids
<1>8. StackSafe'
  <2>1. /\ \A t \in Tids : Alive(t)' => tcb'[t].stack # "freed"
        /\ \A t \in created_threads' :
             ~Alive(t)' => (tcb'[t].stack = "freed" <=> t # zombie_tid')
    BY <1>1, <1>2 DEF IInv, StackSafe
  <2>2. zombie_tid' = None
    BY DEF IInv, StackSafe
  <2> QED
    BY <2>1, <2>2 DEF StackSafe
<1>9. WaiterHasTarget'
  <2>1. ASSUME NEW u \in Tids
        PROVE  /\ Len(waitq'[u]) <= 1
               /\ waitq'[u] # <<>> => Alive(u)' /\ tcb'[u].wq
    <3>1. u \in WaitQueues /\ Len(waitq[u]) <= 1 /\ (waitq[u] # <<>> => Alive(u) /\ tcb[u].wq)
      BY DEF IInv, WaiterHasTarget, WaitQueues
    <3>2. waitq'[u] \in Seq(Tids) /\ waitq[u] \in Seq(Tids) /\ Len(waitq'[u]) <= Len(waitq[u])
      BY <3>1 DEF IInv, TypeOK
    <3>3. Len(waitq'[u]) <= 1 /\ (waitq'[u] # <<>> => waitq[u] # <<>>)
      BY <3>1, <3>2
    <3> QED
      BY <3>1, <3>3, <1>2
  <2>2. ASSUME NEW t \in created_threads', NEW u \in Tids
        PROVE  t \in Range(waitq'[u]) <=> tcb'[t].waiting_on = u
    <3>1. t \in Tids /\ t \in created_threads /\ u \in WaitQueues
      BY <1>1, <1>2 DEF WaitQueues
    <3>2. t \in Range(waitq[u]) <=> tcb[t].waiting_on = u
      BY <3>1 DEF IInv, WaiterHasTarget
    <3>3. t \in Range(waitq'[u]) <=> t \in Range(waitq[u]) /\ t \notin S
      BY <3>1
    <3>4. tcb'[t].waiting_on = IF t \in S THEN None ELSE tcb[t].waiting_on
      BY <3>1
    <3> QED
      BY <3>2, <3>3, <3>4, NoneIsNoTid
  <2> QED
    BY <2>1, <2>2 DEF WaiterHasTarget
<1>10. KilledNeverRuns'
  BY <1>1 DEF IInv, KilledNeverRuns, me
<1> QED
  BY <1>4, <1>5, <1>6, <1>7, <1>8, <1>9, <1>10 DEF IInv

\* The thread table after a wakeup, field by field.
LEMMA AwokenFacts ==
  ASSUME IInv, NEW S
  PROVE  /\ Awoken(tcb, S) \in [Tids -> TCB]
         /\ \A t \in Tids :
              /\ Awoken(tcb, S)[t].exit = tcb[t].exit
              /\ Awoken(tcb, S)[t].stack = tcb[t].stack
              /\ Awoken(tcb, S)[t].wq = tcb[t].wq
              /\ Awoken(tcb, S)[t].killed = tcb[t].killed
              /\ Awoken(tcb, S)[t].sleeping = IF t \in S THEN FALSE ELSE tcb[t].sleeping
              /\ Awoken(tcb, S)[t].waiting_on = IF t \in S THEN None ELSE tcb[t].waiting_on
<1> DEFINE tc == Awoken(tcb, S)
<1>1. tcb \in [Tids -> TCB]
  BY DEF IInv, TypeOK
<1>2. \A t \in Tids : tc[t] = IF t \in S
                              THEN [tcb[t] EXCEPT !.sleeping = FALSE, !.waiting_on = None]
                              ELSE tcb[t]
  BY DEF Awoken
<1>3. \A t \in Tids : /\ tc[t] \in TCB
                      /\ tc[t].exit = tcb[t].exit
                      /\ tc[t].stack = tcb[t].stack
                      /\ tc[t].wq = tcb[t].wq
                      /\ tc[t].killed = tcb[t].killed
                      /\ tc[t].sleeping = IF t \in S THEN FALSE ELSE tcb[t].sleeping
                      /\ tc[t].waiting_on = IF t \in S THEN None ELSE tcb[t].waiting_on
  <2> SUFFICES ASSUME NEW t \in Tids
               PROVE  /\ tc[t] \in TCB
                      /\ tc[t].exit = tcb[t].exit
                      /\ tc[t].stack = tcb[t].stack
                      /\ tc[t].wq = tcb[t].wq
                      /\ tc[t].killed = tcb[t].killed
                      /\ tc[t].sleeping = IF t \in S THEN FALSE ELSE tcb[t].sleeping
                      /\ tc[t].waiting_on = IF t \in S THEN None ELSE tcb[t].waiting_on
    OBVIOUS
  <2> HIDE DEF tc
  <2>1. tcb[t] \in TCB
    BY <1>1
  <2>2. CASE t \in S
    BY <1>2, <2>1, <2>2, WokenRecord
  <2>3. CASE t \notin S
    BY <1>2, <2>1, <2>3
  <2> QED
    BY <2>2, <2>3
<1>4. tc \in [Tids -> TCB]
  BY <1>3 DEF Awoken
<1> QED
  BY <1>3, <1>4

\* The wait queues after the first thread of one of them is woken.
LEMMA WaitQueueAfterWakeup ==
  ASSUME IInv, NEW q \in WaitQueues, waitq' = [waitq EXCEPT ![q] = Rest(@)]
  PROVE  /\ waitq' \in [WaitQueues -> Seq(Tids)]
         /\ \A p \in WaitQueues : /\ IsInjective(waitq'[p])
                                  /\ Range(waitq'[p]) = Range(waitq[p]) \ First(waitq[q])
                                  /\ Len(waitq'[p]) <= Len(waitq[p])
<1>1. waitq \in [WaitQueues -> Seq(Tids)]
  BY DEF IInv, TypeOK
<1>2. /\ Rest(waitq[q]) \in Seq(Tids) /\ IsInjective(Rest(waitq[q]))
      /\ Range(Rest(waitq[q])) = Range(waitq[q]) \ First(waitq[q])
      /\ First(waitq[q]) \subseteq Range(waitq[q])
  BY WakeFirst
<1>3. Len(Rest(waitq[q])) <= Len(waitq[q])
  BY <1>1 DEF Rest
<1>4. waitq' \in [WaitQueues -> Seq(Tids)] /\ waitq'[q] = Rest(waitq[q])
  BY <1>1, <1>2
<1>5. ASSUME NEW p \in WaitQueues, p # q
      PROVE  /\ waitq'[p] = waitq[p] /\ IsInjective(waitq[p]) /\ Len(waitq[p]) \in Nat
             /\ Range(waitq[p]) \cap First(waitq[q]) = {}
  BY <1>1, <1>2, <1>5 DEF IInv, OnePlace
<1> QED
  BY <1>2, <1>3, <1>4, <1>5

\* thread_wakeup(q, 0) keeps the invariant, whoever calls it.
LEMMA WakeupOneStep ==
  ASSUME IInv, ~resuming, NEW q \in WaitQueues,
         tcb' = Awoken(tcb, First(waitq[q])),
         ready_queue' = ReadyAfterWakeup(waitq[q]),
         waitq' = [waitq EXCEPT ![q] = Rest(@)],
         status' \in {status} \cup Faults,
         UNCHANGED <<running_thread, resuming, user_queues, tids, joining, zombie_tid>>
  PROVE  IInv'
<1> DEFINE S == First(waitq[q])
<1>3. /\ S \subseteq Asleep
      /\ ready_queue' \in Seq(Tids) /\ IsInjective(ready_queue') /\ Ready' = Ready \cup S
  BY WakeFirst, AsleepIff DEF Ready
<1>4. /\ waitq' \in [WaitQueues -> Seq(Tids)]
      /\ \A p \in WaitQueues : /\ IsInjective(waitq'[p])
                               /\ Range(waitq'[p]) = Range(waitq[p]) \ S
                               /\ Len(waitq'[p]) <= Len(waitq[p])
  BY WaitQueueAfterWakeup
<1> HIDE DEF S
<1>5. /\ tcb' \in [Tids -> TCB]
      /\ \A t \in Tids : /\ tcb'[t].exit = tcb[t].exit
                         /\ tcb'[t].stack = tcb[t].stack
                         /\ tcb'[t].wq = tcb[t].wq
                         /\ tcb'[t].sleeping = IF t \in S THEN FALSE ELSE tcb[t].sleeping
                         /\ tcb'[t].waiting_on = IF t \in S THEN None ELSE tcb[t].waiting_on
                         /\ t = me => tcb'[t].killed = tcb[t].killed
  <2>1. tcb' = Awoken(tcb, S)
    BY DEF S
  <2> DEFINE tc == Awoken(tcb, S)
  <2>2. /\ tc \in [Tids -> TCB]
        /\ \A t \in Tids : /\ tc[t].exit = tcb[t].exit
                           /\ tc[t].stack = tcb[t].stack
                           /\ tc[t].wq = tcb[t].wq
                           /\ tc[t].killed = tcb[t].killed
                           /\ tc[t].sleeping = IF t \in S THEN FALSE ELSE tcb[t].sleeping
                           /\ tc[t].waiting_on = IF t \in S THEN None ELSE tcb[t].waiting_on
    BY ZenonT(60), AwokenFacts
  <2> QED
    BY <2>1, <2>2
<1>6. status' \in {"run", "exited"} \cup Faults /\ (status' = "run" => status = "run")
  BY DEF IInv, TypeOK, Faults
<1> QED
  BY <1>3, <1>4, <1>5, <1>6, WakeStep

\* The ready queue has room for all the threads of a wait queue.
LEMMA RoomForAll ==
  ASSUME IInv, NEW q \in WaitQueues
  PROVE  /\ Len(ready_queue \o waitq[q]) <= MaxThreads
         /\ ready_queue \o waitq[q] \in Seq(Tids)
         /\ IsInjective(ready_queue \o waitq[q])
         /\ Range(ready_queue \o waitq[q]) = Ready \cup Range(waitq[q])
<1>1. /\ waitq[q] \in Seq(Tids) /\ IsInjective(waitq[q]) /\ Range(waitq[q]) \subseteq Asleep
      /\ ready_queue \in Seq(Tids) /\ IsInjective(ready_queue)
  BY AsleepIff DEF IInv, TypeOK, OnePlace
<1>2. /\ me \in Tids /\ me \notin Range(ready_queue) /\ me \notin Range(waitq[q])
      /\ Range(ready_queue) \cap Range(waitq[q]) = {}
  BY <1>1 DEF IInv, OnePlace, TypeOK, Ready, me
<1> QED
  BY <1>1, <1>2, Concatenate DEF Ready

\* thread_wakeup(q, 1) keeps the invariant, whoever calls it.
LEMMA WakeupAllStep ==
  ASSUME IInv, ~resuming, NEW q \in WaitQueues,
         tcb' = Awoken(tcb, Range(waitq[q])),
         ready_queue' = ready_queue \o waitq[q],
         waitq' = [waitq EXCEPT ![q] = <<>>],
         UNCHANGED <<running_thread, resuming, user_queues, tids, joining, zombie_tid, status>>
  PROVE  IInv'
<1> DEFINE S == Range(waitq[q])
<1>2. S \subseteq Asleep
  BY AsleepIff
<1>5. /\ waitq' \in [WaitQueues -> Seq(Tids)]
      /\ \A p \in WaitQueues : /\ IsInjective(waitq'[p])
                               /\ Range(waitq'[p]) = Range(waitq[p]) \ S
                               /\ Len(waitq'[p]) <= Len(waitq[p])
  <2>1. waitq \in [WaitQueues -> Seq(Tids)]
    BY DEF IInv, TypeOK
  <2>2. Range(<<>>) = {} /\ IsInjective(<<>>) /\ Len(<<>>) = 0
    BY DEF Range, IsInjective
  <2>3. waitq' \in [WaitQueues -> Seq(Tids)] /\ waitq'[q] = <<>>
    BY <2>1
  <2>4. ASSUME NEW p \in WaitQueues, p # q
        PROVE  waitq'[p] = waitq[p] /\ Range(waitq[p]) \cap S = {} /\ IsInjective(waitq[p])
    BY <2>1, <2>4 DEF IInv, OnePlace
  <2> HIDE DEF S
  <2>5. \A p \in WaitQueues : Len(waitq[p]) \in Nat
    BY <2>1
  <2>6. Range(waitq[q]) \ S = {}
    BY DEF S
  <2> QED
    BY <2>2, <2>3, <2>4, <2>5, <2>6
<1> HIDE DEF S
<1>6. /\ tcb' \in [Tids -> TCB]
      /\ \A t \in Tids : /\ tcb'[t].exit = tcb[t].exit
                         /\ tcb'[t].stack = tcb[t].stack
                         /\ tcb'[t].wq = tcb[t].wq
                         /\ tcb'[t].sleeping = IF t \in S THEN FALSE ELSE tcb[t].sleeping
                         /\ tcb'[t].waiting_on = IF t \in S THEN None ELSE tcb[t].waiting_on
                         /\ t = me => tcb'[t].killed = tcb[t].killed
  <2>1. tcb' = Awoken(tcb, S)
    BY DEF S
  <2> DEFINE tc == Awoken(tcb, S)
  <2>2. /\ tc \in [Tids -> TCB]
        /\ \A t \in Tids : /\ tc[t].exit = tcb[t].exit
                           /\ tc[t].stack = tcb[t].stack
                           /\ tc[t].wq = tcb[t].wq
                           /\ tc[t].killed = tcb[t].killed
                           /\ tc[t].sleeping = IF t \in S THEN FALSE ELSE tcb[t].sleeping
                           /\ tc[t].waiting_on = IF t \in S THEN None ELSE tcb[t].waiting_on
    BY AwokenFacts
  <2> QED
    BY <2>1, <2>2
<1>7. ready_queue' \in Seq(Tids) /\ IsInjective(ready_queue') /\ Ready' = Ready \cup S
  BY RoomForAll DEF Ready, S
<1> QED
  BY <1>2, <1>5, <1>6, <1>7, WakeStep, StatusKnown

\* thread_kill keeps the invariant: only the waiter moves.
LEMMA KillStep ==
  ASSUME IInv, Kill
  PROVE  IInv'
<1>1. PICK v \in created_threads \ {me} :
        /\ tcb' = [Awoken(tcb, First(waitq[v])) EXCEPT ![v].killed = TRUE]
        /\ waitq' = [waitq EXCEPT ![v] = Rest(@)]
        /\ ready_queue' = ReadyAfterWakeup(waitq[v])
  BY DEF Kill
<1> DEFINE S == First(waitq[v])
<1>2. v \in WaitQueues /\ v \in Tids /\ v # me /\ ~resuming
  BY DEF Kill, Client, IInv, TypeOK, WaitQueues
<1>3. /\ S \subseteq Asleep
      /\ ready_queue' \in Seq(Tids) /\ IsInjective(ready_queue') /\ Ready' = Ready \cup S
  BY <1>1, <1>2, WakeFirst, AsleepIff DEF Ready
<1>4. /\ waitq' \in [WaitQueues -> Seq(Tids)]
      /\ \A p \in WaitQueues : /\ IsInjective(waitq'[p])
                               /\ Range(waitq'[p]) = Range(waitq[p]) \ S
                               /\ Len(waitq'[p]) <= Len(waitq[p])
  BY <1>1, <1>2, WaitQueueAfterWakeup
<1> HIDE DEF S
<1>5. /\ tcb' \in [Tids -> TCB]
      /\ \A t \in Tids : /\ tcb'[t].exit = tcb[t].exit
                         /\ tcb'[t].stack = tcb[t].stack
                         /\ tcb'[t].wq = tcb[t].wq
                         /\ tcb'[t].sleeping = IF t \in S THEN FALSE ELSE tcb[t].sleeping
                         /\ tcb'[t].waiting_on = IF t \in S THEN None ELSE tcb[t].waiting_on
                         /\ t = me => tcb'[t].killed = tcb[t].killed
  <2> DEFINE tc == Awoken(tcb, S)
  <2>1. tcb' = [tc EXCEPT ![v].killed = TRUE]
    BY <1>1 DEF S
  <2>2. /\ tc \in [Tids -> TCB]
        /\ \A t \in Tids : /\ tc[t].exit = tcb[t].exit
                           /\ tc[t].stack = tcb[t].stack
                           /\ tc[t].wq = tcb[t].wq
                           /\ tc[t].killed = tcb[t].killed
                           /\ tc[t].sleeping = IF t \in S THEN FALSE ELSE tcb[t].sleeping
                           /\ tc[t].waiting_on = IF t \in S THEN None ELSE tcb[t].waiting_on
    BY ZenonT(60), AwokenFacts
  <2> HIDE DEF tc
  <2>3. \A t \in Tids : t # v => tcb'[t] = tc[t]
    <3>1. tc \in [Tids -> TCB]
      BY <2>2
    <3> QED
      BY <2>1, <3>1
  <2>4. tcb'[v] = [tc[v] EXCEPT !.killed = TRUE] /\ tc[v] \in TCB
    BY <1>2, <2>1, <2>2
  <2>5. /\ tcb'[v] \in TCB
        /\ tcb'[v].exit = tc[v].exit
        /\ tcb'[v].stack = tc[v].stack
        /\ tcb'[v].wq = tc[v].wq
        /\ tcb'[v].sleeping = tc[v].sleeping
        /\ tcb'[v].waiting_on = tc[v].waiting_on
    BY <2>4 DEF TCB
  <2>6. tcb' \in [Tids -> TCB]
    <3>1. tc \in [Tids -> TCB]
      BY <2>2
    <3> QED
      BY <2>1, <3>1, <2>5
  <2>7. ASSUME NEW t \in Tids
        PROVE  /\ tcb'[t].exit = tcb[t].exit
               /\ tcb'[t].stack = tcb[t].stack
               /\ tcb'[t].wq = tcb[t].wq
               /\ tcb'[t].sleeping = IF t \in S THEN FALSE ELSE tcb[t].sleeping
               /\ tcb'[t].waiting_on = IF t \in S THEN None ELSE tcb[t].waiting_on
    <3>1. /\ tcb'[t].exit = tc[t].exit
          /\ tcb'[t].stack = tc[t].stack
          /\ tcb'[t].wq = tc[t].wq
          /\ tcb'[t].sleeping = tc[t].sleeping
          /\ tcb'[t].waiting_on = tc[t].waiting_on
      BY <2>3, <2>5
    <3> QED
      BY <2>2, <3>1
  <2>8. ASSUME NEW t \in Tids, t = me
        PROVE  tcb'[t].killed = tcb[t].killed
    BY <1>2, <2>2, <2>3, <2>8
  <2> QED
    BY <2>6, <2>7, <2>8
<1> QED
  BY <1>2, <1>3, <1>4, <1>5, WakeStep, StatusKnown DEF Kill

\* thread_create keeps the invariant: an available tid becomes a ready thread.
LEMMA CreateStep ==
  ASSUME IInv, Create
  PROVE  IInv'
<1>1. CASE Stop("out_of_bounds")
  BY <1>1, StopStep DEF Faults
<1> DEFINE t == Head(available_threads)
<1>2. CASE /\ available_threads # <<>>
           /\ tcb' = [tcb EXCEPT ![t] = NewThread(me, "live")]
           /\ created_threads' = created_threads \cup {t}
           /\ ready_queue' = add_to_queue_tail(ready_queue, t)
           /\ available_threads' = Tail(available_threads)
           /\ num_threads_created' = num_threads_created + 1
           /\ UNCHANGED <<running_thread, resuming, queues, joining, zombie_tid, status>>
  <2>1. /\ available_threads' \in Seq(Tids) /\ IsInjective(available_threads')
        /\ Range(available_threads') = Range(available_threads) \ {t}
        /\ t \in Range(available_threads) /\ t \in Tids
    BY <1>2, HeadTaken DEF IInv, TypeOK, TidPartition
  <2>2. t \notin created_threads
    BY <2>1 DEF IInv, TidPartition
  <2>3. ~Alive(t) /\ t \notin Ready /\ t \notin Asleep /\ t # me
    BY <2>1, <2>2 DEF IInv, NoThreadLost, Alive, me
  <2> HIDE DEF t
  <2>4. /\ ready_queue' \in Seq(Tids) /\ IsInjective(ready_queue') /\ Ready' = Ready \cup {t}
    BY <1>2, <2>1, <2>3, AddToTail DEF IInv, TypeOK, OnePlace, Ready
  <2>5. me \in Tids /\ NewThread(me, "live") \in TCB
    BY NoneIsNoTid DEF IInv, TypeOK, me, NewThread, TCB
  <2>6. /\ tcb' \in [Tids -> TCB]
        /\ \A u \in Tids : u # t => tcb'[u] = tcb[u]
        /\ tcb'[t] = NewThread(me, "live")
    BY <1>2, <2>1, <2>5 DEF IInv, TypeOK
  <2>7. /\ \A u : Alive(u)' <=> Alive(u) \/ u = t
        /\ created_threads \subseteq Tids
    BY <1>2, <2>1, <2>2, <2>6 DEF Alive, IInv, TypeOK, NewThread
  <2>8. waitq' = waitq /\ Asleep' = Asleep
    BY <1>2 DEF queues, Asleep
  <2>9. TypeOK'
    BY <1>2, <2>1, <2>4, <2>6 DEF IInv, TypeOK, queues
  <2>10. OnePlace'
    BY <1>2, <2>3, <2>4, <2>8 DEF IInv, OnePlace, me
  <2>11. NoThreadLost'
    <3>1. {running_thread'} \cup Ready' \cup Asleep' = {u \in Tids : Alive(u)'}
      BY <1>2, <2>1, <2>4, <2>7, <2>8 DEF IInv, NoThreadLost
    <3>2. ~tcb'[t].sleeping
      BY <2>6 DEF NewThread
    <3>3. \A u \in created_threads' : tcb'[u].sleeping <=> u \in Asleep'
      BY <1>2, <2>2, <2>3, <2>6, <2>7, <2>8, <3>2 DEF IInv, NoThreadLost
    <3> QED
      BY <3>1, <3>3 DEF NoThreadLost
  <2>12. TidPartition'
    BY <1>2, <2>1 DEF IInv, TidPartition
  <2>13. StackSafe'
    <3>1. tcb'[t].stack # "freed"
      BY <2>6 DEF NewThread
    <3>2. \A u \in Tids : Alive(u)' => tcb'[u].stack # "freed"
      BY <2>6, <2>7, <3>1 DEF IInv, StackSafe
    <3>3. \A u \in created_threads' : ~Alive(u)' => (tcb'[u].stack = "freed" <=> u # zombie_tid')
      <4>1. \A u \in created_threads' : ~Alive(u)' => u \in created_threads /\ u \in Tids /\ u # t /\ ~Alive(u)
        BY <1>2, <2>7
      <4> QED
        BY <4>1, <1>2, <2>6 DEF IInv, StackSafe
    <3>4. zombie_tid' = None
      BY <1>2 DEF IInv, StackSafe, Create, Client
    <3> QED
      BY <3>2, <3>3, <3>4 DEF StackSafe
  <2>14. WaiterHasTarget'
    <3>1. \A u \in Tids : /\ Len(waitq[u]) <= 1
                          /\ waitq[u] # <<>> => Alive(u)' /\ tcb'[u].wq
      BY <2>3, <2>6, <2>7 DEF IInv, WaiterHasTarget
    <3>2. tcb'[t].waiting_on = None /\ \A u \in Tids : t \notin Range(waitq[u])
      BY <2>3, <2>6, AsleepIff DEF NewThread, WaitQueues
    <3>3. \A v \in created_threads', u \in Tids : v \in Range(waitq[u]) <=> tcb'[v].waiting_on = u
      <4> SUFFICES ASSUME NEW v \in created_threads', NEW u \in Tids
                   PROVE  v \in Range(waitq[u]) <=> tcb'[v].waiting_on = u
        OBVIOUS
      <4>1. CASE v = t
        BY <4>1, <3>2, NoneIsNoTid
      <4>2. CASE v # t
        <5>1. v \in created_threads /\ tcb'[v] = tcb[v]
          BY <4>2, <1>2, <2>6, <2>7
        <5> QED
          BY <5>1 DEF IInv, WaiterHasTarget
      <4> QED
        BY <4>1, <4>2
    <3> QED
      BY <3>1, <3>3, <2>8 DEF WaiterHasTarget
  <2>15. KilledNeverRuns'
    BY <1>2, <2>3, <2>5, <2>6 DEF IInv, KilledNeverRuns, me
  <2> QED
    BY <2>9, <2>10, <2>11, <2>12, <2>13, <2>14, <2>15 DEF IInv
<1> QED
  BY <1>1, <1>2 DEF Create

\* Creating or destroying a client's queue moves no thread.
LEMMA QueueStep ==
  ASSUME IInv, QueueCreate \/ QueueDestroy
  PROVE  IInv'
<1>1. CASE Stop("assert_wait_queue")
  BY <1>1, StopStep DEF Faults
<1>2. CASE /\ user_queues' \subseteq UserQueues
           /\ UNCHANGED <<sched, waitq, tids, tcb, joining, zombie_tid, status>>
  <2> USE <1>2 DEF IInv, sched, tids
  <2>1. TypeOK'
    BY DEF TypeOK
  <2>2. OnePlace' /\ NoThreadLost'
    BY DEF OnePlace, NoThreadLost, Ready, Asleep, Alive
  <2>3. TidPartition' /\ KilledNeverRuns'
    BY DEF TidPartition, KilledNeverRuns
  <2>4. StackSafe' /\ WaiterHasTarget'
    BY DEF StackSafe, WaiterHasTarget, Alive
  <2> QED
    BY <2>1, <2>2, <2>3, <2>4
<1>3. user_queues \subseteq UserQueues
  BY DEF IInv, TypeOK
<1> QED
  BY <1>1, <1>2, <1>3 DEF QueueCreate, QueueDestroy

\* thread_sleep in a client's queue.
LEMMA ClientSleepStep ==
  ASSUME IInv, Sleep
  PROVE  IInv'
<1>1. PICK q \in user_queues : thread_sleep(tcb, q)
  BY DEF Sleep
<1>2. q \in WaitQueues /\ q \notin Tids
  BY QueuesAssumption DEF IInv, TypeOK, WaitQueues
<1>3. ~resuming /\ ready_queue # <<>> /\ UNCHANGED <<user_queues, tids, zombie_tid, status>>
  BY DEF Sleep, Client
<1>4. /\ tcb \in [Tids -> TCB] /\ joining' \in [Tids -> Tids \cup {None}]
      /\ Cleaned = tcb /\ zombie_tid' = None
  BY <1>3, CleanedFacts DEF IInv, TypeOK, StackSafe, Sleep
<1> QED
  BY <1>1, <1>2, <1>3, <1>4, SleepStep

\* thread_wait of a thread that is alive.
LEMMA WaitAliveStep ==
  ASSUME IInv, WaitAlive
  PROVE  IInv'
<1>1. PICK t \in Tids :
        /\ MayWait(t)
        /\ tcb[t].exit = None
        /\ \/ /\ ready_queue = <<>>
              /\ Stop("assert_exit")
           \/ /\ ready_queue # <<>>
              /\ thread_sleep([tcb EXCEPT ![me].waiting_on = t, ![t].wq = TRUE], t)
              /\ joining' = [joining EXCEPT ![me] = t]
              /\ UNCHANGED <<user_queues, tids, zombie_tid, status>>
  BY DEF WaitAlive
<1>2. CASE Stop("assert_exit")
  BY <1>2, StopStep DEF Faults
<1> DEFINE tc == [tcb EXCEPT ![me].waiting_on = t, ![t].wq = TRUE]
<1>3. CASE /\ ready_queue # <<>>
           /\ thread_sleep(tc, t)
           /\ joining' = [joining EXCEPT ![me] = t]
           /\ UNCHANGED <<user_queues, tids, zombie_tid, status>>
  <2>1. /\ t # me /\ t \in created_threads /\ me \in Tids /\ Alive(t) /\ ~resuming
        /\ t \in WaitQueues
    BY <1>1 DEF MayWait, Alive, IInv, TypeOK, me, WaitQueues, WaitAlive, Client
  <2>2. waitq[t] = <<>>
    BY <1>1, <2>1 DEF MayWait, IInv, WaiterHasTarget
  <2>3. tcb \in [Tids -> TCB]
    BY DEF IInv, TypeOK
  <2>4. \A u \in Tids : tc[u] = IF u = t THEN [tcb[u] EXCEPT !.wq = TRUE]
                                ELSE IF u = me THEN [tcb[u] EXCEPT !.waiting_on = t]
                                ELSE tcb[u]
    BY <2>1, <2>3
  <2> HIDE DEF tc
  <2>5. ASSUME NEW u \in Tids
        PROVE  /\ tc[u] \in TCB
               /\ tc[u].killed = tcb[u].killed
               /\ tc[u].sleeping = tcb[u].sleeping
               /\ tc[u].exit = tcb[u].exit
               /\ tc[u].stack = tcb[u].stack
               /\ tcb[u].wq => tc[u].wq
               /\ u = t => tc[u].wq
               /\ tc[u].waiting_on = IF u = me /\ t \in Tids THEN t ELSE tcb[u].waiting_on
    <3>1. tcb[u] \in TCB
      BY <2>3
    <3>2. CASE u = t
      <4>1. tc[u] = [tcb[u] EXCEPT !.wq = TRUE]
        BY <3>2, <2>4
      <4> QED
        BY <4>1, <3>1, <3>2, <2>1 DEF TCB
    <3>3. CASE u = me
      <4>1. tc[u] = [tcb[u] EXCEPT !.waiting_on = t]
        BY <3>3, <2>1, <2>4
      <4> QED
        BY <4>1, <3>1, <3>3, <2>1 DEF TCB
    <3>4. CASE u # t /\ u # me
      BY <3>1, <3>4, <2>4
    <3> QED
      BY <3>2, <3>3, <3>4
  <2>6. tc \in [Tids -> TCB]
    BY <2>3, <2>5 DEF tc
  <2>7. joining' \in [Tids -> Tids \cup {None}]
    BY <1>3, <2>1 DEF IInv, TypeOK
  <2>8. Cleaned = tcb /\ zombie_tid' = None
    BY <1>3, <2>1, CleanedFacts DEF IInv, StackSafe
  <2> QED
    BY <1>3, <2>1, <2>2, <2>5, <2>6, <2>7, <2>8, SleepStep
<1> QED
  BY <1>1, <1>2, <1>3

-----------------------------------------------------------------------------
(***************************************************************************)
(* The invariant.  It holds after thread_init.                             *)
(***************************************************************************)
LEMMA InitInv == Init => IInv
<1> SUFFICES ASSUME Init PROVE IInv
  OBVIOUS
<1> USE DEF Init
<1> DEFINE av == [i \in 1 .. MaxThreads - 1 |-> i]
<1>1. 0 \in Tids /\ NewThread(0, "none") \in TCB
  BY MaxThreadsAssumption, NoneIsNoTid DEF Tids, NewThread, TCB
<1>2. av \in Seq(Tids) /\ Len(av) = MaxThreads - 1 /\ \A i \in 1 .. MaxThreads - 1 : av[i] = i
  BY MaxThreadsAssumption DEF Tids
<1>3. available_threads = av
  OBVIOUS
<1> HIDE DEF av
<1>4. Range(<<>>) = {} /\ IsInjective(<<>>) /\ <<>> \in Seq(Tids) /\ Len(<<>>) = 0
  BY DEF Range, IsInjective
<1>5. TypeOK
  BY <1>1, <1>2, <1>3 DEF TypeOK, Faults
<1>6. Ready = {} /\ Asleep = {} /\ \A q \in WaitQueues : waitq[q] = <<>> /\ Range(waitq[q]) = {}
  BY <1>4 DEF Ready, Asleep
<1>7. OnePlace
  BY <1>4, <1>6 DEF OnePlace
<1>8. \A t : Alive(t) <=> t = 0
  BY <1>1 DEF Alive, NewThread
<1>9. NoThreadLost
  BY <1>1, <1>6, <1>8 DEF NoThreadLost, NewThread
<1>10. TidPartition
  <2>1. Range(av) = {av[i] : i \in 1 .. MaxThreads - 1} /\ IsInjective(av)
    BY <1>2, RangeSeq
  <2>2. Range(av) = 1 .. MaxThreads - 1
    BY <2>1, <1>2
  <2>3. Tids \ {0} = 1 .. MaxThreads - 1
    BY MaxThreadsAssumption DEF Tids
  <2> QED
    BY <2>1, <2>2, <2>3, <1>3 DEF TidPartition
<1>11. StackSafe
  BY <1>1, <1>8 DEF StackSafe, NewThread
<1>12. WaiterHasTarget
  BY <1>1, <1>4, <1>6, NoneIsNoTid DEF WaiterHasTarget, NewThread, WaitQueues
<1>13. KilledNeverRuns
  BY <1>1 DEF KilledNeverRuns, NewThread
<1> QED
  BY <1>5, <1>7, <1>9, <1>10, <1>11, <1>12, <1>13 DEF IInv

\* Every step of the library, the client and the timer keeps the invariant.
LEMMA NextInv ==
  ASSUME None \notin ExitCodes, IInv, [Next]_vars
  PROVE  IInv'
<1>1. CASE ResumeKilled
  <2>1. -SIGKILL \in Int /\ -SIGKILL # None
    BY DEF SIGKILL, None
  <2> QED
    BY <1>1, <2>1, ExitStep DEF ResumeKilled
<1>2. CASE ResumeClient
  BY <1>2, CleanedStep DEF ResumeClient
<1>3. CASE ResumeJoin
  BY <1>3, ReapStep DEF ResumeJoin
<1>4. CASE Preempt
  <2>1. 1 \in 1 .. Len(ready_queue)
    BY <1>4 DEF Preempt, IInv, TypeOK
  <2> QED
    BY <1>4, <2>1, YieldStep DEF Preempt
<1>5. CASE Yield
  BY <1>5, YieldStep DEF Yield, Client
<1>6. CASE Create
  BY <1>6, CreateStep
<1>7. CASE Exit
  <2>1. PICK code \in ExitCodes : thread_exit(tcb, code)
    BY <1>7 DEF Exit
  <2>2. code \in Int /\ code # None
    BY <2>1, ClientAssumption
  <2>3. tcb = Cleaned /\ status = "run"
    BY <1>7, CleanedFacts DEF Exit, Client
  <2> QED
    BY <2>1, <2>2, <2>3, ExitStep
<1>8. CASE Kill
  BY <1>8, KillStep
<1>9. CASE QueueCreate \/ QueueDestroy
  BY <1>9, QueueStep
<1>10. CASE Sleep
  BY <1>10, ClientSleepStep
<1>11. CASE WakeupOne
  <2>1. PICK q \in user_queues :
          /\ tcb' = Awoken(tcb, First(waitq[q]))
          /\ ready_queue' = ReadyAfterWakeup(waitq[q])
          /\ waitq' = [waitq EXCEPT ![q] = Rest(@)]
    BY <1>11 DEF WakeupOne
  <2>2. q \in WaitQueues /\ ~resuming
    BY <1>11 DEF WakeupOne, Client, IInv, TypeOK, WaitQueues
  <2> QED
    BY <1>11, <2>1, <2>2, WakeupOneStep DEF WakeupOne
<1>12. CASE WakeupAll
  <2>1. PICK q \in user_queues :
          /\ tcb' = Awoken(tcb, Range(waitq[q]))
          /\ ready_queue' = LET all == ready_queue \o waitq[q]
                            IN SubSeq(all, 1, IF Len(all) <= MaxThreads THEN Len(all)
                                              ELSE MaxThreads)
          /\ waitq' = [waitq EXCEPT ![q] = <<>>]
    BY <1>12 DEF WakeupAll
  <2>2. q \in WaitQueues /\ ~resuming
    BY <1>12 DEF WakeupAll, Client, IInv, TypeOK, WaitQueues
  <2> DEFINE all == ready_queue \o waitq[q]
  <2>3. Len(all) <= MaxThreads /\ all \in Seq(Tids)
    BY <2>2, RoomForAll
  <2>4. ready_queue' = SubSeq(all, 1, Len(all))
    BY <2>1, <2>3
  <2>5. ready_queue' = all
    <3> HIDE DEF all
    <3> QED
      BY <2>3, <2>4, SubSeqFull
  <2> QED
    BY <1>12, <2>1, <2>2, <2>5, WakeupAllStep DEF WakeupAll
<1>13. CASE WaitExited
  <2>1. PICK t \in Tids : Reap(tcb, t)
    BY <1>13 DEF WaitExited
  <2>2. tcb = Cleaned /\ status = "run" /\ ~tcb[me].killed
    BY <1>13, CleanedFacts DEF WaitExited, Client, IInv, KilledNeverRuns, me
  <2> QED
    BY <2>1, <2>2, ReapStep
<1>14. CASE WaitAlive
  BY <1>14, WaitAliveStep
<1>15. CASE UNCHANGED vars
  <2> USE <1>15 DEF IInv, vars, sched, queues, tids
  <2>1. TypeOK' /\ TidPartition' /\ KilledNeverRuns'
    BY DEF TypeOK, TidPartition, KilledNeverRuns
  <2>2. OnePlace' /\ NoThreadLost'
    BY DEF OnePlace, NoThreadLost, Ready, Asleep, Alive
  <2>3. StackSafe' /\ WaiterHasTarget'
    BY DEF StackSafe, WaiterHasTarget, Alive
  <2> QED
    BY <2>1, <2>2, <2>3
<1> QED
  BY <1>1, <1>2, <1>3, <1>4, <1>5, <1>6, <1>7, <1>8, <1>9, <1>10, <1>11, <1>12, <1>13,
     <1>14, <1>15 DEF Next, Resume, Over

\* The invariant holds in every reachable state, for any client that does not
\* exit with the code the library keeps for "has not exited".
THEOREM Invariance == ASSUME None \notin ExitCodes PROVE Spec => []IInv
<1>1. IInv /\ [Next]_vars => IInv'
  BY NextInv
<1> QED
  BY <1>1, InitInv, PTL DEF Spec

(***************************************************************************)
(* Every variable has its type: in particular the queues hold tids only,   *)
(* never the filler of the arrays.                                         *)
(***************************************************************************)
THEOREM TypesCorrect == ASSUME None \notin ExitCodes PROVE Spec => []TypeOK
<1>1. IInv => TypeOK
  BY DEF IInv
<1> QED
  BY <1>1, Invariance, PTL

(***************************************************************************)
(* A thread is in one queue at most, and only once: thread_yield,          *)
(* thread_sleep and the wakeups never double it.                           *)
(***************************************************************************)
THEOREM ThreadInOnePlace == ASSUME None \notin ExitCodes PROVE Spec => []OnePlace
<1>1. IInv => OnePlace
  BY DEF IInv
<1> QED
  BY <1>1, Invariance, PTL

(***************************************************************************)
(* The threads that run, are ready or sleep are exactly those that have    *)
(* been created and have not exited: none is lost, none comes back.        *)
(***************************************************************************)
THEOREM NoThreadIsLost == ASSUME None \notin ExitCodes PROVE Spec => []NoThreadLost
<1>1. IInv => NoThreadLost
  BY DEF IInv
<1> QED
  BY <1>1, Invariance, PTL

(***************************************************************************)
(* A tid is free or names one thread, never both (thread_create,           *)
(* thread_wait and append_to_available).                                   *)
(***************************************************************************)
THEOREM TidsPartitioned == ASSUME None \notin ExitCodes PROVE Spec => []TidPartition
<1>1. IInv => TidPartition
  BY DEF IInv
<1> QED
  BY <1>1, Invariance, PTL

(***************************************************************************)
(* No thread runs, or is left to run, on a stack that thread_exit and      *)
(* thread_routine_cleanup freed.                                           *)
(***************************************************************************)
THEOREM NoFreedStackInUse == ASSUME None \notin ExitCodes PROVE Spec => []StackSafe
<1>1. IInv => StackSafe
  BY DEF IInv
<1> QED
  BY <1>1, Invariance, PTL

(***************************************************************************)
(* A thread in thread_wait sleeps for a thread that is alive, alone.       *)
(***************************************************************************)
THEOREM WaitersHaveTargets == ASSUME None \notin ExitCodes PROVE Spec => []WaiterHasTarget
<1>1. IInv => WaiterHasTarget
  BY DEF IInv
<1> QED
  BY <1>1, Invariance, PTL

(***************************************************************************)
(* A killed thread never gets back to client code.                         *)
(***************************************************************************)
THEOREM KilledStayOut == ASSUME None \notin ExitCodes PROVE Spec => []KilledNeverRuns
<1>1. IInv => KilledNeverRuns
  BY DEF IInv
<1> QED
  BY <1>1, Invariance, PTL

-----------------------------------------------------------------------------
(***************************************************************************)
(* PreemptiveThreads implements the life cycle of ThreadStates.  Under the *)
(* invariant the abstract state of a thread can be read off the place it   *)
(* is in, so a step is described by what it does to the queues: one lemma  *)
(* per kind of step, and one per action that it is of that kind.           *)
(***************************************************************************)
\* The abstract states; the refinement mapping of LifeSpec.
states == [t \in Tids |-> StateOf(t)]

\* The state that the place of a thread implies.
Place(t) == IF t = me THEN "running"
            ELSE IF t \in Ready THEN "ready"
            ELSE IF t \in Asleep THEN "blocked"
            ELSE IF t \in created_threads THEN "exited"
            ELSE "free"

StatesArePlaces == states = [t \in Tids |-> Place(t)]

LEMMA Placed == IInv => StatesArePlaces
<1> SUFFICES ASSUME IInv, NEW t \in Tids PROVE StateOf(t) = Place(t)
  BY DEF states, StatesArePlaces
<1>1. /\ Alive(t) <=> t = me \/ t \in Ready \/ t \in Asleep
      /\ t \in created_threads => (tcb[t].sleeping <=> t \in Asleep)
      /\ Ready \cap Asleep = {}
  BY DEF IInv, NoThreadLost, OnePlace, me
<1>2. Alive(t) => t \in created_threads
  BY DEF Alive
<1> QED
  BY <1>1, <1>2 DEF StateOf, Place, me

LEMMA PlacedAfter == IInv' => StatesArePlaces'
  BY Placed, PTL

\* The places exclude each other.
LEMMA PlacesDisjoint ==
  ASSUME IInv
  PROVE  /\ me \in Tids /\ me \notin Ready /\ me \notin Asleep /\ Ready \cap Asleep = {}
         /\ {me} \cup Ready \cup Asleep \subseteq created_threads
         /\ Ready \subseteq Tids /\ Asleep \subseteq Tids
  BY DEF IInv, TypeOK, OnePlace, NoThreadLost, Alive, me

-----------------------------------------------------------------------------
(***************************************************************************)
(* The kinds of steps.                                                     *)
(***************************************************************************)

\* The running thread leaves to a ready thread or to one of W, which it wakes.
LEMMA Leaves ==
  ASSUME IInv, IInv', NEW W \in SUBSET Asleep, NEW to \in {"ready", "blocked", "exited"},
         me' \in Ready \cup W,
         Ready' = ((Ready \cup W) \ {me'}) \cup (IF to = "ready" THEN {me} ELSE {}),
         Asleep' = (Asleep \ W) \cup (IF to = "blocked" THEN {me} ELSE {}),
         created_threads' = created_threads
  PROVE  Life!Switch
<1>1. states = [t \in Tids |-> Place(t)] /\ states' = [t \in Tids |-> Place(t)']
  BY Placed, PlacedAfter DEF StatesArePlaces
<1> DEFINE awake == [t \in Tids |-> IF t \in W THEN "ready" ELSE states[t]]
<1>2. W \in SUBSET Life!Blocked /\ Life!Awake(W) = awake
  BY <1>1, PlacesDisjoint DEF Life!Blocked, Life!Awake, Place, states
<1>3. me \in Tids /\ me' \in Tids /\ me' # me /\ states[me] = "running" /\ awake[me'] = "ready"
  BY <1>1, PlacesDisjoint DEF Place
<1>4. states' = [awake EXCEPT ![me] = to, ![me'] = "running"]
  <2>1. ASSUME NEW t \in Tids
        PROVE  Place(t)' = IF t = me' THEN "running" ELSE IF t = me THEN to ELSE awake[t]
    <3>1. CASE t = me'
      BY <3>1 DEF Place
    <3>2. CASE t = me
      BY <3>2, <1>3, PlacesDisjoint DEF Place
    <3>3. CASE t # me' /\ t # me
      BY <3>3, <1>1, PlacesDisjoint DEF Place
    <3> QED
      BY <3>1, <3>2, <3>3
  <2> QED
    BY <2>1, <1>1, <1>3
<1> HIDE DEF awake
<1> QED
  BY <1>2, <1>3, <1>4 DEF Life!Switch, states

\* The threads of W become ready.
LEMMA Wakes ==
  ASSUME IInv, IInv', NEW W \in SUBSET Asleep,
         me' = me, Ready' = Ready \cup W, Asleep' = Asleep \ W,
         created_threads' = created_threads
  PROVE  Life!Wake
<1>1. states = [t \in Tids |-> Place(t)] /\ states' = [t \in Tids |-> Place(t)']
  BY Placed, PlacedAfter DEF StatesArePlaces
<1>2. W \in SUBSET Life!Blocked
  BY <1>1, PlacesDisjoint DEF Life!Blocked, Place, states
<1>3. states' = Life!Awake(W)
  BY <1>1, PlacesDisjoint DEF Life!Awake, Place, states
<1> QED
  BY <1>2, <1>3 DEF Life!Wake, states

\* No thread moves.
LEMMA Stays ==
  ASSUME UNCHANGED <<running_thread, ready_queue, waitq, created_threads>>, IInv, IInv'
  PROVE  UNCHANGED states
<1>1. states = [t \in Tids |-> Place(t)] /\ states' = [t \in Tids |-> Place(t)']
  BY Placed, PlacedAfter DEF StatesArePlaces
<1> QED
  BY <1>1 DEF Place, me, Ready, Asleep

-----------------------------------------------------------------------------
(***************************************************************************)
(* What the actions do to the places.                                      *)
(***************************************************************************)

\* thread_yield of a caller that does not sleep.
LEMMA YieldLeaves ==
  ASSUME IInv, IInv', NEW i \in 1 .. Len(ready_queue), thread_yield(tcb, i),
         UNCHANGED <<queues, tids>>
  PROVE  Life!Switch
<1> DEFINE rest == remove_from_queue(ready_queue, i)
<1>1. /\ me \in Tids /\ ~tcb[me].sleeping /\ me \notin Ready
      /\ ready_queue \in Seq(Tids) /\ IsInjective(ready_queue)
  BY RunningAlive, PlacesDisjoint DEF IInv, TypeOK, OnePlace, me
<1>2. /\ rest \in Seq(Tids) /\ IsInjective(rest) /\ Range(rest) = Ready \ {me'}
      /\ me' \in Ready
  BY <1>1, RemoveFrom DEF thread_yield, SwitchTo, Ready, me
<1>3. ready_queue' = add_to_queue_tail(rest, me)
  BY <1>1 DEF thread_yield
<1> HIDE DEF rest
<1>4. Ready' = (Ready \ {me'}) \cup {me}
  BY <1>1, <1>2, <1>3, AddToTail DEF Ready
<1>5. Asleep' = Asleep /\ created_threads' = created_threads
  BY DEF queues, tids, Asleep
<1>6. Ready' = ((Ready \cup {}) \ {me'}) \cup {me} /\ Asleep' = (Asleep \ {}) \cup {}
  BY <1>4, <1>5
<1> QED
  BY <1>2, <1>5, <1>6, Leaves

\* thread_sleep, of a client or in thread_wait.
LEMMA SleepLeaves ==
  ASSUME IInv, IInv', ready_queue # <<>>, NEW tc \in [Tids -> TCB], NEW q \in WaitQueues,
         thread_sleep(tc, q), UNCHANGED <<user_queues, tids>>
  PROVE  Life!Switch
<1> DEFINE asleep == [tc EXCEPT ![me].sleeping = TRUE]
<1>1. /\ me \in Tids /\ me \notin Ready /\ me \notin Asleep
      /\ ready_queue \in Seq(Tids) /\ IsInjective(ready_queue)
      /\ waitq \in [WaitQueues -> Seq(Tids)]
  BY PlacesDisjoint DEF IInv, TypeOK, OnePlace
<1>2. waitq' = [waitq EXCEPT ![q] = Append(@, me)] /\ thread_yield(asleep, 1)
  BY Zenon DEF thread_sleep
<1>3. asleep[me].sleeping
  <2>1. PICK m \in Tids : m = me
    BY <1>1
  <2>2. tc[m] \in TCB
    BY <2>1
  <2>3. asleep[m] = [tc[m] EXCEPT !.sleeping = TRUE]
    BY <2>1
  <2>4. asleep[m].sleeping
    BY <2>2, <2>3 DEF TCB
  <2> QED
    BY <2>1, <2>4
<1> HIDE DEF asleep
<1>4. me' \in Ready /\ Ready' = Ready \ {me'}
  <2>1. ready_queue' = remove_from_queue(ready_queue, 1) /\ me' = ready_queue[1]
    BY <1>2, <1>3 DEF thread_yield, SwitchTo, me
  <2>2. 1 \in 1 .. Len(ready_queue)
    BY <1>1
  <2> QED
    BY <1>1, <2>1, <2>2, RemoveFrom DEF Ready
<1>5. Asleep' = Asleep \cup {me}
  <2>1. IsInjective(waitq[q]) /\ me \notin Range(waitq[q])
    BY <1>1, AsleepIff DEF IInv, OnePlace
  <2>2. Range(Append(waitq[q], me)) = Range(waitq[q]) \cup {me}
    BY <1>1, <2>1, AppendedNew
  <2>3. \A p \in WaitQueues : Range(waitq'[p]) = IF p = q THEN Range(waitq[p]) \cup {me}
                                                 ELSE Range(waitq[p])
    BY <1>1, <1>2, <2>2
  <2>4. \A t : t \in Asleep' <=> \E p \in WaitQueues : t \in Range(waitq'[p])
    BY DEF Asleep
  <2> QED
    BY ZenonT(60), <2>3, <2>4, AsleepIff
<1>6. Ready' = ((Ready \cup {}) \ {me'}) \cup {} /\ Asleep' = (Asleep \ {}) \cup {me}
  BY <1>4, <1>5
<1>7. created_threads' = created_threads
  BY DEF tids
<1> QED
  BY <1>4, <1>6, <1>7, Leaves

\* A wakeup of the first thread of queue q takes just it out of the wait queues.
LEMMA FirstWoken ==
  ASSUME IInv, NEW q \in WaitQueues, waitq' = [waitq EXCEPT ![q] = Rest(@)]
  PROVE  First(waitq[q]) \subseteq Asleep /\ Asleep' = Asleep \ First(waitq[q])
<1>1. First(waitq[q]) \subseteq Asleep
  BY WakeFirst, AsleepIff
<1>2. \A p \in WaitQueues : Range(waitq'[p]) = Range(waitq[p]) \ First(waitq[q])
  BY WaitQueueAfterWakeup
<1>3. \A t : t \in Asleep' <=> \E p \in WaitQueues : t \in Range(waitq'[p])
  BY DEF Asleep
<1> QED
  BY <1>1, <1>2, <1>3, AsleepIff

\* thread_exit, when somebody is left to run: the caller's waiter is woken.
LEMMA ExitLeaves ==
  ASSUME IInv, IInv', NEW code, thread_exit(Cleaned, code)
  PROVE  Life!Switch \/ UNCHANGED states
<1> DEFINE rq == ReadyAfterWakeup(waitq[me])
           W  == First(waitq[me])
<1>1. me \in Tids /\ me \in WaitQueues /\ Cleaned[me].waiting_on = None
  BY RunningAlive, CleanedFacts DEF IInv, TypeOK, me, WaitQueues
<1>2. ClearedQueues(Cleaned) = waitq
  BY <1>1 DEF ClearedQueues
<1>3. CASE \E s : Stop(s)
  BY <1>3, Stays DEF Stop, sched, queues, tids
<1>4. CASE /\ rq # <<>>
           /\ waitq' = [waitq EXCEPT ![me] = Rest(@)]
           /\ SwitchTo(rq, 1)
           /\ ready_queue' = remove_from_queue(rq, 1)
           /\ UNCHANGED created_threads
  <2>1. rq \in Seq(Tids) /\ IsInjective(rq) /\ Range(rq) = Ready \cup W
    BY <1>1, WakeFirst
  <2>2. W \subseteq Asleep /\ Asleep' = Asleep \ W
    BY <1>1, <1>4, FirstWoken
  <2> HIDE DEF rq, W
  <2>3. 1 \in 1 .. Len(rq)
    BY <1>4, <2>1
  <2>4. me' \in Ready \cup W /\ Ready' = (Ready \cup W) \ {me'}
    BY <1>4, <2>1, <2>3, RemoveFrom DEF SwitchTo, Ready, me
  <2>5. Ready' = ((Ready \cup W) \ {me'}) \cup {} /\ Asleep' = (Asleep \ W) \cup {}
    BY <2>2, <2>4
  <2> QED
    BY <1>4, <2>2, <2>4, <2>5, Leaves
<1> QED
  BY <1>2, <1>3, <1>4 DEF thread_exit

\* The end of thread_wait collects the target.
LEMMA ReapCollects ==
  ASSUME IInv, IInv', NEW t \in Tids, Reap(Cleaned, t)
  PROVE  Life!Collect \/ UNCHANGED states
<1>1. CASE \E s : Stop(s)
  BY <1>1, Stays DEF Stop, sched, queues, tids
<1>2. CASE /\ ReapOutcome(Cleaned, t) = "run"
           /\ created_threads' = created_threads \ {t}
           /\ UNCHANGED <<running_thread, ready_queue, queues>>
  <2>1. t \in created_threads /\ Cleaned[t].exit # None
    BY <1>2 DEF ReapOutcome
  <2>2. t # me /\ t \notin Ready /\ t \notin Asleep
    BY <2>1, CleanedFacts DEF Alive, IInv, NoThreadLost, me
  <2>3. me' = me /\ Ready' = Ready /\ Asleep' = Asleep
    BY <1>2 DEF me, Ready, Asleep, queues
  <2>4. states = [u \in Tids |-> Place(u)] /\ states' = [u \in Tids |-> Place(u)']
    BY Placed, PlacedAfter DEF StatesArePlaces
  <2>5. states[t] = "exited"
    BY <2>1, <2>2, <2>4 DEF Place
  <2>6. states' = [states EXCEPT ![t] = "free"]
    BY <1>2, <2>2, <2>3, <2>4 DEF Place
  <2> QED
    BY <2>5, <2>6 DEF Life!Collect, states
<1> QED
  BY <1>1, <1>2 DEF Reap

\* thread_create makes a free thread ready.
LEMMA CreateCreates ==
  ASSUME IInv, IInv', Create
  PROVE  Life!Create \/ UNCHANGED states
<1> DEFINE t == Head(available_threads)
<1>1. CASE \E s : Stop(s)
  BY <1>1, Stays DEF Stop, sched, queues, tids
<1>2. CASE /\ available_threads # <<>>
           /\ created_threads' = created_threads \cup {t}
           /\ ready_queue' = add_to_queue_tail(ready_queue, t)
           /\ UNCHANGED <<running_thread, queues>>
  <2>1. t \in Tids /\ t \notin created_threads
    BY <1>2, HeadTaken DEF IInv, TypeOK, TidPartition
  <2>2. t # me /\ t \notin Ready /\ t \notin Asleep
    BY <2>1, PlacesDisjoint
  <2> HIDE DEF t
  <2>3. Ready' = Ready \cup {t} /\ me' = me /\ Asleep' = Asleep
    BY <1>2, <2>1, <2>2, AddToTail DEF IInv, TypeOK, OnePlace, Ready, me, Asleep, queues
  <2>4. states = [u \in Tids |-> Place(u)] /\ states' = [u \in Tids |-> Place(u)']
    BY Placed, PlacedAfter DEF StatesArePlaces
  <2>5. states[t] = "free"
    BY <2>1, <2>2, <2>4 DEF Place
  <2>6. states' = [states EXCEPT ![t] = "ready"]
    BY <1>2, <2>1, <2>2, <2>3, <2>4 DEF Place
  <2> QED
    BY <2>1, <2>5, <2>6 DEF Life!Create, states
<1> QED
  BY <1>1, <1>2 DEF Create

\* thread_kill and thread_wakeup(q, 0) wake the first thread of a queue.
LEMMA FirstWakes ==
  ASSUME IInv, IInv', NEW q \in WaitQueues,
         waitq' = [waitq EXCEPT ![q] = Rest(@)],
         ready_queue' = ReadyAfterWakeup(waitq[q]),
         UNCHANGED <<running_thread, tids>>
  PROVE  Life!Wake
<1>1. Ready' = Ready \cup First(waitq[q])
  BY WakeFirst DEF Ready
<1>2. me' = me /\ created_threads' = created_threads
  BY DEF me, tids
<1> QED
  BY <1>1, <1>2, FirstWoken, Wakes

\* thread_wakeup(q, 1) wakes all of them.
LEMMA AllWake ==
  ASSUME IInv, IInv', WakeupAll
  PROVE  Life!Wake
<1>1. PICK q \in user_queues :
        /\ ready_queue' = LET all == ready_queue \o waitq[q]
                          IN SubSeq(all, 1, IF Len(all) <= MaxThreads THEN Len(all)
                                            ELSE MaxThreads)
        /\ waitq' = [waitq EXCEPT ![q] = <<>>]
  BY DEF WakeupAll
<1> DEFINE W == Range(waitq[q])
           all == ready_queue \o waitq[q]
<1>2. /\ q \in WaitQueues /\ W \subseteq Asleep
      /\ waitq[q] \in Seq(Tids) /\ IsInjective(waitq[q])
      /\ ready_queue \in Seq(Tids) /\ IsInjective(ready_queue)
      /\ waitq \in [WaitQueues -> Seq(Tids)]
  BY AsleepIff DEF IInv, TypeOK, OnePlace, WaitQueues
<1>3. Ready' = Ready \cup W
  <2>1. /\ me \in Tids /\ me \notin Range(ready_queue) /\ me \notin W
        /\ Range(ready_queue) \cap W = {}
    BY <1>2, PlacesDisjoint DEF Ready
  <2>2. Len(all) <= MaxThreads /\ all \in Seq(Tids) /\ Range(all) = Ready \cup W
    BY <1>2, <2>1, Concatenate DEF Ready
  <2>3. ready_queue' = SubSeq(all, 1, Len(all))
    BY <1>1, <2>2
  <2> HIDE DEF all
  <2>4. ready_queue' = all
    BY <2>2, <2>3, SubSeqFull
  <2> QED
    BY <2>2, <2>4 DEF Ready
<1>4. Asleep' = Asleep \ W
  <2>1. \A p \in WaitQueues : p # q => waitq'[p] = waitq[p] /\ Range(waitq[p]) \cap W = {}
    BY <1>1, <1>2 DEF IInv, OnePlace
  <2>2. Range(waitq'[q]) = {}
    <3>1. waitq'[q] = <<>> /\ Range(<<>>) = {}
      BY <1>1, <1>2 DEF Range
    <3> QED
      BY <3>1
  <2>3. \A t : t \in Asleep' <=> \E p \in WaitQueues : t \in Range(waitq'[p])
    BY DEF Asleep
  <2>4. \A p \in WaitQueues : Range(waitq'[p]) = Range(waitq[p]) \ W
    BY <2>1, <2>2
  <2> HIDE DEF W
  <2> QED
    BY <2>3, <2>4, AsleepIff
<1>5. me' = me /\ created_threads' = created_threads
  BY DEF WakeupAll, me, tids
<1> QED
  BY <1>2, <1>3, <1>4, <1>5, Wakes

-----------------------------------------------------------------------------
\* Each step of the library is a step of the life cycle, or none.
LEMMA LifeStep ==
  ASSUME IInv, IInv', [Next]_vars
  PROVE  [Life!Next]_states
<1> USE DEF Life!Next
<1>1. CASE ResumeKilled
  <2>1. thread_exit(Cleaned, -SIGKILL)
    BY <1>1 DEF ResumeKilled
  <2> QED
    BY <2>1, ExitLeaves
<1>2. CASE ResumeClient
  BY <1>2, Stays DEF ResumeClient, queues, tids
<1>3. CASE ResumeJoin
  <2>1. joining[me] \in Tids
    BY <1>3 DEF ResumeJoin, IInv, TypeOK, me
  <2> QED
    BY <1>3, <2>1, ReapCollects DEF ResumeJoin
<1>4. CASE Preempt
  <2>1. 1 \in 1 .. Len(ready_queue)
    BY <1>4 DEF Preempt, IInv, TypeOK
  <2> QED
    BY <1>4, <2>1, YieldLeaves DEF Preempt
<1>5. CASE Yield
  BY <1>5, YieldLeaves DEF Yield
<1>6. CASE Create
  BY <1>6, CreateCreates
<1>7. CASE Exit
  <2>1. PICK code \in ExitCodes : thread_exit(tcb, code)
    BY <1>7 DEF Exit
  <2>2. tcb = Cleaned
    BY <1>7, CleanedFacts DEF Exit, Client
  <2> QED
    BY <2>1, <2>2, ExitLeaves
<1>8. CASE Kill \/ WakeupOne
  <2>1. PICK q \in WaitQueues : /\ waitq' = [waitq EXCEPT ![q] = Rest(@)]
                                /\ ready_queue' = ReadyAfterWakeup(waitq[q])
    BY <1>8 DEF Kill, WakeupOne, IInv, TypeOK, WaitQueues
  <2>2. UNCHANGED <<running_thread, tids>>
    BY <1>8 DEF Kill, WakeupOne
  <2> QED
    BY <2>1, <2>2, FirstWakes
<1>9. CASE QueueCreate \/ QueueDestroy
  BY <1>9, Stays DEF QueueCreate, QueueDestroy, Stop, sched, queues, tids
<1>10. CASE Sleep
  <2>1. PICK q \in WaitQueues : thread_sleep(tcb, q)
    BY <1>10 DEF Sleep, IInv, TypeOK, WaitQueues
  <2> QED
    BY <1>10, <2>1, SleepLeaves DEF Sleep, IInv, TypeOK
<1>11. CASE WakeupAll
  BY <1>11, AllWake
<1>12. CASE WaitExited
  <2>1. PICK t \in Tids : Reap(tcb, t)
    BY <1>12 DEF WaitExited
  <2>2. tcb = Cleaned
    BY <1>12, CleanedFacts DEF WaitExited, Client
  <2> QED
    BY <2>1, <2>2, ReapCollects
<1>13. CASE WaitAlive
  <2>1. CASE Stop("assert_exit")
    BY <2>1, Stays DEF Stop, sched, queues, tids
  <2>2. ASSUME NEW t \in Tids, ready_queue # <<>>,
               thread_sleep([tcb EXCEPT ![me].waiting_on = t, ![t].wq = TRUE], t),
               UNCHANGED <<user_queues, tids>>
        PROVE  Life!Switch
    <3> DEFINE tc == [tcb EXCEPT ![me].waiting_on = t, ![t].wq = TRUE]
    <3>1. tc \in [Tids -> TCB]
      <4>1. tcb \in [Tids -> TCB] /\ me \in Tids
        BY PlacesDisjoint DEF IInv, TypeOK
      <4>2. /\ [tcb[me] EXCEPT !.waiting_on = t] \in TCB
            /\ [tcb[t] EXCEPT !.wq = TRUE] \in TCB
            /\ [[tcb[t] EXCEPT !.waiting_on = t] EXCEPT !.wq = TRUE] \in TCB
        <5>1. \A r \in TCB : [r EXCEPT !.waiting_on = t] \in TCB /\ [r EXCEPT !.wq = TRUE] \in TCB
          BY DEF TCB
        <5>2. tcb[me] \in TCB /\ tcb[t] \in TCB
          BY <4>1
        <5> QED
          BY <5>1, <5>2
      <4>3. [tcb EXCEPT ![me].waiting_on = t] \in [Tids -> TCB]
        BY <4>1, <4>2
      <4> QED
        BY <4>1, <4>2, <4>3
    <3>2. t \in WaitQueues
      BY DEF WaitQueues
    <3> HIDE DEF tc
    <3>3. thread_sleep(tc, t)
      BY <2>2 DEF tc
    <3> QED
      BY <2>2, <3>1, <3>2, <3>3, SleepLeaves
  <2> QED
    BY <1>13, <2>1, <2>2 DEF WaitAlive
<1>14. CASE UNCHANGED vars
  BY <1>14, Stays DEF vars, sched, queues, tids
<1> QED
  BY <1>1, <1>2, <1>3, <1>4, <1>5, <1>6, <1>7, <1>8, <1>9, <1>10, <1>11, <1>12, <1>13,
     <1>14 DEF Next, Resume, Over

(***************************************************************************)
(* The preemptive library implements ThreadStates, whatever the client     *)
(* does and whenever the timer strikes: one thread runs, a thread runs     *)
(* next only if it was ready or is woken in that step, and an exited one   *)
(* does nothing but wait to be collected.                                  *)
(***************************************************************************)
THEOREM ImplementsThreadStates == ASSUME None \notin ExitCodes PROVE Spec => LifeSpec
<1>1. Init => Life!Init
  BY MaxThreadsAssumption DEF Init, Life!Init, StateOf, Tids, Alive, NewThread
<1>2. ASSUME IInv, IInv', [Next]_vars PROVE [Life!Next]_([t \in Tids |-> StateOf(t)])
  BY <1>2, LifeStep DEF states
<1> QED
  BY <1>1, <1>2, Invariance, PTL DEF Spec, LifeSpec, Life!Spec

-----------------------------------------------------------------------------
(***************************************************************************)
(* A structured client: a thread waits only for threads it created, exits  *)
(* only when it has collected them all, and nobody kills or sleeps in a    *)
(* queue of the client's own.  Every thread that is not at work then waits *)
(* for a child of its own, which is what keeps thread_wait out of its      *)
(* assertion.  The inductive invariant is IInv and four facts more.        *)
(***************************************************************************)
WellStructured == /\ Structured /\ "kill" \notin Calls /\ "sleep" \notin Calls
                  /\ None \notin ExitCodes

\* The created threads form a tree under the initial one, and no parent has
\* exited.
Parented ==
  /\ Alive(0) /\ tcb[0].parent = 0
  /\ \A t \in created_threads \ {0} : Alive(tcb[t].parent)
  /\ \A S \in SUBSET (created_threads \ {0}) :
       S # {} => \E t \in S : tcb[t].parent \notin S

\* Who sleeps, sleeps in thread_wait.
SleepersWait ==
  /\ \A q \in UserQueues : waitq[q] = <<>>
  /\ \A u \in Tids : \A t \in Range(waitq[u]) : joining[t] = u

\* Who waits, waits for a child of its own, and sleeps until that one exits.
JoinsChild ==
  \A t, u \in Tids : joining[t] = u =>
    /\ Alive(t) /\ u \in created_threads /\ u # t /\ tcb[u].parent = t
    /\ Alive(u) => t \in Range(waitq[u])

\* Nobody calls thread_kill.
NoneKilled == \A t \in Tids : ~tcb[t].killed

\* The one fault left is thread_create's, when the count of threads is wrong.
EndsWell == status \in {"run", "exited", "out_of_bounds"}

TreeInv == IInv /\ Parented /\ SleepersWait /\ JoinsChild /\ NoneKilled /\ EndsWell

\* The thread that runs or is switched to is no sleeper, and in client code as
\* little as at the end of a switch.
LEMMA RunnerAwake ==
  ASSUME IInv
  PROVE  /\ me \in Tids /\ Alive(me) /\ me \in created_threads
         /\ \A q \in WaitQueues : me \notin Range(waitq[q])
<1>1. me \notin Asleep
  BY DEF IInv, OnePlace, me
<1> QED
  BY <1>1, RunningAlive, AsleepIff DEF IInv, TypeOK, me

\* A child is never the initial thread, which is its own parent.
LEMMA ChildNotInitial ==
  ASSUME Parented, NEW t, NEW u, t # u, tcb[t].parent = u
  PROVE  t # 0
BY DEF Parented

(***************************************************************************)
(* With nobody ready, somebody waits for each thread but the initial one:  *)
(* every thread that does not run sleeps for a child of its own, no two of *)
(* them for the same, none for the initial thread, and so there would be   *)
(* more sleepers than threads to sleep for.                                *)
(***************************************************************************)
LEMMA SomebodyWaits ==
  ASSUME TreeInv, ready_queue = <<>>, NEW t \in Tids, Alive(t), t # 0
  PROVE  waitq[t] # <<>>
<1> SUFFICES ASSUME waitq[t] = <<>> PROVE FALSE
  OBVIOUS
<1> DEFINE L == {x \in Tids : Alive(x)}
           A == L \ {me}
           B == (L \ {0}) \ {t}
           f == [x \in A |-> joining[x]]
<1>1. me \in L /\ 0 \in L /\ t \in L
  <2>1. 0 \in Tids
    BY MaxThreadsAssumption DEF Tids
  <2> QED
    BY <2>1, RunnerAwake DEF TreeInv, Parented
<1>2. Range(<<>>) = {}
  BY DEF Range
<1>3. ASSUME NEW x \in A PROVE joining[x] \in B /\ tcb[joining[x]].parent = x
  <2>1. x \in Asleep
    BY <1>2, <1>3 DEF TreeInv, IInv, NoThreadLost, Ready, me
  <2>2. PICK q \in WaitQueues : x \in Range(waitq[q])
    BY <2>1, AsleepIff
  <2>3. q \in Tids /\ waitq[q] # <<>> /\ joining[x] = q
    BY <1>2, <2>2 DEF TreeInv, SleepersWait, WaitQueues
  <2>4. Alive(q) /\ q # t
    BY <2>3 DEF TreeInv, IInv, WaiterHasTarget
  <2>5. q # x /\ tcb[q].parent = x
    BY <2>3 DEF TreeInv, JoinsChild
  <2>6. q # 0
    BY <2>5, ChildNotInitial DEF TreeInv
  <2> QED
    BY <2>3, <2>4, <2>5, <2>6
<1>4. IsFiniteSet(L)
  <2>1. IsFiniteSet(Tids) /\ L \subseteq Tids
    BY FS_Interval, MaxThreadsAssumption DEF Tids
  <2> QED
    BY <2>1, FS_Subset
<1>5. f \in [A -> B] /\ \A x \in A : f[x] = joining[x]
  BY <1>3
<1> HIDE DEF L, f
<1>6. IsFiniteSet(A) /\ Cardinality(A) = Cardinality(L) - 1
  BY <1>1, <1>4, FS_RemoveElement
<1>7. IsFiniteSet(L \ {0}) /\ Cardinality(L \ {0}) = Cardinality(L) - 1
  BY <1>1, <1>4, FS_RemoveElement
<1>8. IsFiniteSet(B) /\ Cardinality(B) = Cardinality(L) - 2
  <2>1. t \in L \ {0}
    BY <1>1
  <2>2. Cardinality(L) \in Nat
    BY <1>4, FS_CardinalityType
  <2>3. IsFiniteSet(B) /\ Cardinality(B) = Cardinality(L \ {0}) - 1
    BY <2>1, <1>7, FS_RemoveElement
  <2> QED
    BY <2>2, <2>3, <1>7
<1> HIDE DEF A, B
<1>9. \E x, y \in A : x # y /\ f[x] = f[y]
  <2>1. Cardinality(B) < Cardinality(A)
    BY <1>4, <1>6, <1>8, FS_CardinalityType
  <2> QED
    BY <2>1, <1>5, <1>6, <1>8, FS_PigeonHole
<1> QED
  BY <1>3, <1>5, <1>9

\* Steps that create, end and collect no thread keep the tree.
LEMMA TreeKept ==
  ASSUME TreeInv, IInv', created_threads' = created_threads, waitq' = waitq,
         joining' = joining, EndsWell',
         \A t \in Tids : /\ tcb'[t].exit = tcb[t].exit
                         /\ tcb'[t].parent = tcb[t].parent
                         /\ tcb'[t].killed = tcb[t].killed
  PROVE  TreeInv'
<1>1. created_threads \subseteq Tids
  BY DEF TreeInv, IInv, TypeOK
<1>2. \A u : Alive(u)' <=> Alive(u)
  BY <1>1 DEF Alive
<1>3. 0 \in Tids
  BY MaxThreadsAssumption DEF Tids
<1>4. Parented'
  <2>1. Alive(0)' /\ tcb'[0].parent = 0
    BY <1>2, <1>3 DEF TreeInv, Parented
  <2>2. \A t \in created_threads : tcb'[t].parent = tcb[t].parent
    BY <1>1
  <2>3. ASSUME NEW t \in created_threads \ {0} PROVE Alive(tcb[t].parent)'
    <3>1. PICK p : p = tcb[t].parent /\ Alive(p)
      BY DEF TreeInv, Parented
    <3>2. Alive(p)' /\ tcb'[t].parent = p
      BY <3>1, <1>2, <2>2
    <3> QED
      BY <3>2 DEF Alive
  <2>4. ASSUME NEW S \in SUBSET (created_threads \ {0}), S # {}
        PROVE  \E t \in S : tcb'[t].parent \notin S
    <3>1. PICK t \in S : tcb[t].parent \notin S
      BY <2>4 DEF TreeInv, Parented
    <3> QED
      BY <3>1, <2>2
  <2> QED
    BY <2>1, <2>3, <2>4 DEF Parented
<1>5. SleepersWait' /\ NoneKilled'
  BY DEF TreeInv, SleepersWait, NoneKilled
<1>6. JoinsChild'
  BY <1>2 DEF TreeInv, JoinsChild
<1> QED
  BY <1>4, <1>5, <1>6 DEF TreeInv

\* The parent of a thread outlives the stack of a thread that has exited.
LEMMA ParentCleaned ==
  ASSUME IInv, NEW t \in Tids
  PROVE  Cleaned[t].parent = tcb[t].parent
<1>1. tcb \in [Tids -> TCB] /\ tcb[t] \in TCB
  BY DEF IInv, TypeOK
<1>2. Cleaned[t] = tcb[t] \/ Cleaned[t] = [tcb[t] EXCEPT !.stack = "freed"]
  BY <1>1 DEF Cleaned
<1>3. \A r \in TCB : [r EXCEPT !.stack = "freed"].parent = r.parent
  BY DEF TCB
<1> QED
  BY <1>1, <1>2, <1>3

\* A created thread is a new leaf below the running one.
LEMMA TreeGrows ==
  ASSUME TreeInv, IInv', Create
  PROVE  TreeInv'
<1>1. CASE Stop("out_of_bounds")
  BY <1>1, TreeKept DEF Stop, queues, tids, EndsWell
<1> DEFINE n == Head(available_threads)
<1>2. CASE /\ available_threads # <<>>
           /\ tcb' = [tcb EXCEPT ![n] = NewThread(me, "live")]
           /\ created_threads' = created_threads \cup {n}
           /\ UNCHANGED <<running_thread, resuming, queues, joining, zombie_tid, status>>
  <2>1. n \in Tids /\ n \notin created_threads
    BY <1>2, HeadTaken DEF TreeInv, IInv, TypeOK, TidPartition
  <2> HIDE DEF n
  <2>2. created_threads \subseteq Tids /\ me \in Tids /\ Alive(me) /\ 0 \in created_threads
    BY RunnerAwake DEF TreeInv, IInv, TypeOK, Parented, Alive
  <2>3. /\ \A u \in Tids : u # n => tcb'[u] = tcb[u]
        /\ tcb'[n] = NewThread(me, "live")
    BY <1>2, <2>1 DEF TreeInv, IInv, TypeOK
  <2>4. tcb'[n].parent = me /\ tcb'[n].exit = None /\ ~tcb'[n].killed
    BY <2>3 DEF NewThread
  <2>5. \A u : Alive(u)' <=> Alive(u) \/ u = n
    BY <1>2, <2>1, <2>2, <2>3, <2>4 DEF Alive
  <2>6. n # 0 /\ n # me /\ \A u \in created_threads \ {0} : tcb[u].parent # n
    BY <2>1, <2>2 DEF TreeInv, Parented, Alive
  <2>7. \A u \in created_threads : tcb'[u].parent = tcb[u].parent
    BY <2>1, <2>2, <2>3
  <2>8. Parented'
    <3>1. Alive(0)' /\ tcb'[0].parent = 0
      BY <2>2, <2>5, <2>7 DEF TreeInv, Parented
    <3>2. ASSUME NEW t \in created_threads' \ {0} PROVE Alive(tcb[t].parent)'
      <4>1. CASE t = n
        <5>1. PICK m : m = me
          OBVIOUS
        <5>2. Alive(m)' /\ tcb'[t].parent = m
          BY <4>1, <5>1, <2>2, <2>4, <2>5
        <5> QED
          BY <5>2 DEF Alive
      <4>2. CASE t \in created_threads
        <5>1. PICK p : p = tcb[t].parent /\ Alive(p)
          BY <3>2, <4>2 DEF TreeInv, Parented
        <5>2. Alive(p)' /\ tcb'[t].parent = p
          BY <5>1, <4>2, <2>5, <2>7
        <5> QED
          BY <5>2 DEF Alive
      <4> QED
        BY <3>2, <4>1, <4>2, <1>2
    <3>3. ASSUME NEW S \in SUBSET (created_threads' \ {0}), S # {}
          PROVE  \E t \in S : tcb'[t].parent \notin S
      <4> DEFINE R == S \ {n}
      <4>1. R \subseteq created_threads \ {0}
        BY <1>2
      <4>2. CASE R = {}
        BY <4>2, <3>3, <2>4, <2>6
      <4>3. CASE R # {}
        <5>1. PICK t \in R : tcb[t].parent \notin R
          BY <4>1, <4>3 DEF TreeInv, Parented
        <5>2. tcb'[t].parent = tcb[t].parent /\ tcb[t].parent # n
          BY <4>1, <5>1, <2>6, <2>7
        <5> QED
          BY <5>1, <5>2
      <4> QED
        BY <4>2, <4>3
    <3> QED
      BY <3>1, <3>2, <3>3 DEF Parented
  <2>9. SleepersWait' /\ NoneKilled' /\ EndsWell'
    BY <1>2, <2>1, <2>3, <2>4 DEF TreeInv, SleepersWait, NoneKilled, EndsWell, queues
  <2>10. JoinsChild'
    <3> SUFFICES ASSUME NEW t \in Tids, NEW u \in Tids, joining[t] = u
                 PROVE  /\ Alive(t)' /\ u \in created_threads' /\ u # t /\ tcb'[u].parent = t
                        /\ Alive(u)' => t \in Range(waitq[u])
      BY <1>2 DEF JoinsChild, queues
    <3>1. /\ Alive(t) /\ u \in created_threads /\ u # t /\ tcb[u].parent = t
          /\ Alive(u) => t \in Range(waitq[u])
      BY DEF TreeInv, JoinsChild
    <3> QED
      BY <3>1, <1>2, <2>1, <2>5, <2>7
  <2> QED
    BY <2>8, <2>9, <2>10 DEF TreeInv
<1> QED
  BY <1>1, <1>2 DEF Create

(***************************************************************************)
(* thread_exit of a thread without children.  The initial one is alone     *)
(* then, and the process ends well.  Any other one is waited for or leaves *)
(* somebody ready, and it is a leaf of the tree.                           *)
(***************************************************************************)
LEMMA ExitOfLeaf ==
  ASSUME TreeInv, IInv', status = "run", NEW code \in Int, code # None,
         thread_exit(tcb, code),
         \A t \in created_threads \ {me} : tcb[t].parent # me
  PROVE  TreeInv'
<1> DEFINE rq  == ReadyAfterWakeup(waitq[me])
           wqs == [waitq EXCEPT ![me] = Rest(@)]
           tc  == Awoken(tcb, First(waitq[me]))
<1>1. /\ me \in Tids /\ Alive(me) /\ me \in created_threads /\ created_threads \subseteq Tids
      /\ \A q \in WaitQueues : me \notin Range(waitq[q])
      /\ me \in WaitQueues
  BY RunnerAwake DEF TreeInv, IInv, TypeOK, WaitQueues
<1>2. ClearedQueues(tcb) = waitq
  BY RunningAlive DEF ClearedQueues, TreeInv, me
<1>3. Range(rq) = Ready \cup First(waitq[me]) /\ First(waitq[me]) \subseteq Asleep
  BY <1>1, WakeFirst, AsleepIff DEF TreeInv
<1>4. Range(<<>>) = {}
  BY DEF Range
<1>5. CASE me = 0
  <2>1. created_threads = {0}
    <3> SUFFICES ASSUME created_threads \ {0} # {} PROVE FALSE
      BY <1>1, <1>5
    <3>1. PICK t \in created_threads \ {0} : tcb[t].parent \notin created_threads \ {0}
      BY DEF TreeInv, Parented
    <3>2. tcb[t].parent = 0
      BY <3>1 DEF TreeInv, Parented, Alive
    <3> QED
      BY <3>2, <1>5
  <2>2. Ready = {} /\ Asleep = {}
    <3>1. Ready \cup Asleep \subseteq {0}
      BY <2>1 DEF TreeInv, IInv, NoThreadLost, Alive
    <3>2. 0 \notin Ready /\ 0 \notin Asleep
      BY <1>5 DEF TreeInv, IInv, OnePlace, me
    <3> QED
      BY <3>1, <3>2
  <2>3. rq = <<>>
    <3>1. rq \in Seq(Tids) /\ Range(rq) = {}
      BY <1>1, <1>3, <2>2, WakeFirst DEF TreeInv
    <3> HIDE DEF rq
    <3> QED
      BY <3>1, RangeSeq
  <2>4. freeup_leftover_zombies(tc, wqs) = "exited"
    BY <1>5, <2>1 DEF freeup_leftover_zombies
  <2>5. Stop("exited")
    BY <2>3, <2>4, <1>2 DEF thread_exit
  <2> QED
    BY <2>5, TreeKept DEF Stop, queues, tids, EndsWell
<1>6. CASE me # 0
  <2>1. rq # <<>>
    <3>1. CASE ready_queue = <<>>
      <4>1. waitq[me] # <<>>
        BY <3>1, <1>1, <1>6, SomebodyWaits
      <4>2. First(waitq[me]) # {}
        BY <4>1 DEF First
      <4> QED
        BY <4>2, <1>3, <1>4
    <3>2. CASE ready_queue # <<>>
      <4>1. Ready # {}
        BY <3>2, RangeSeq DEF TreeInv, IInv, TypeOK, Ready
      <4> QED
        BY <4>1, <1>3, <1>4
    <3> QED
      BY <3>1, <3>2
  <2>2. /\ tcb' = [tc EXCEPT ![me].exit = code]
        /\ waitq' = wqs
        /\ joining' = [joining EXCEPT ![me] = None]
        /\ UNCHANGED <<user_queues, available_threads, created_threads, status>>
    BY <2>1, <1>2 DEF thread_exit
  <2>3. tc \in [Tids -> TCB]
    BY AwokenFacts DEF TreeInv
  <2>4. \A t \in Tids : /\ tc[t].exit = tcb[t].exit
                        /\ tc[t].parent = tcb[t].parent
                        /\ tc[t].killed = tcb[t].killed
    <3>1. tcb \in [Tids -> TCB]
      BY DEF TreeInv, IInv, TypeOK
    <3>2. ASSUME NEW r \in TCB, NEW s, s = [r EXCEPT !.sleeping = FALSE, !.waiting_on = None]
          PROVE  s.exit = r.exit /\ s.parent = r.parent /\ s.killed = r.killed
      BY <3>2 DEF TCB
    <3>3. \A t \in Tids : tc[t] = tcb[t] \/ tc[t] = [tcb[t] EXCEPT !.sleeping = FALSE, !.waiting_on = None]
      BY DEF Awoken
    <3> HIDE DEF tc
    <3> SUFFICES ASSUME NEW t \in Tids
                 PROVE  /\ tc[t].exit = tcb[t].exit
                        /\ tc[t].parent = tcb[t].parent
                        /\ tc[t].killed = tcb[t].killed
      OBVIOUS
    <3>4. CASE tc[t] = [tcb[t] EXCEPT !.sleeping = FALSE, !.waiting_on = None]
      <4>1. tcb[t] \in TCB
        BY <3>1
      <4> QED
        BY <3>2, <3>4, <4>1
    <3> QED
      BY <3>3, <3>4
  <2> HIDE DEF tc
  <2>5. \A t \in Tids : /\ tcb'[t].exit = IF t = me THEN code ELSE tcb[t].exit
                        /\ tcb'[t].parent = tcb[t].parent
                        /\ tcb'[t].killed = tcb[t].killed
    <3>1. ASSUME NEW t \in Tids
          PROVE  /\ tcb'[t].exit = IF t = me THEN code ELSE tc[t].exit
                 /\ tcb'[t].parent = tc[t].parent
                 /\ tcb'[t].killed = tc[t].killed
      <4>1. tc[t] \in TCB
        BY <2>3
      <4>2. tcb'[t] = IF t = me THEN [tc[t] EXCEPT !.exit = code] ELSE tc[t]
        BY <2>2, <2>3, <1>1
      <4> QED
        BY <4>1, <4>2 DEF TCB
    <3> QED
      BY <3>1, <2>4
  <2>6. \A u : Alive(u)' <=> Alive(u) /\ u # me
    BY <1>1, <2>2, <2>5 DEF Alive
  <2>7. \A q \in WaitQueues : q # me => waitq'[q] = waitq[q]
    BY <2>2 DEF TreeInv, IInv, TypeOK
  <2>8. Range(waitq'[me]) \subseteq Range(waitq[me])
    <3>1. waitq'[me] = Rest(waitq[me])
      BY <1>1, <2>2 DEF TreeInv, IInv, TypeOK
    <3> QED
      BY <3>1, <1>1, WakeFirst DEF TreeInv
  <2>9. \A t \in Tids : joining'[t] = IF t = me THEN None ELSE joining[t]
    BY <1>1, <2>2 DEF TreeInv, IInv, TypeOK
  <2>10. Parented'
    <3>1. Alive(0)' /\ tcb'[0].parent = 0
      <4>1. 0 \in Tids
        BY MaxThreadsAssumption DEF Tids
      <4> QED
        BY <4>1, <1>6, <2>5, <2>6 DEF TreeInv, Parented
    <3>2. ASSUME NEW t \in created_threads \ {0} PROVE Alive(tcb[t].parent)'
      <4>1. PICK p : p = tcb[t].parent /\ Alive(p)
        BY DEF TreeInv, Parented
      <4>2. p # me
        <5>1. CASE t # me
          BY <4>1, <5>1
        <5>2. CASE t = me
          <6>1. \E x \in {me} : tcb[x].parent \notin {me}
            BY <1>1, <1>6 DEF TreeInv, Parented
          <6> QED
            BY <6>1, <5>2, <4>1
        <5> QED
          BY <5>1, <5>2
      <4>3. Alive(p)' /\ tcb'[t].parent = p
        BY <4>1, <4>2, <1>1, <2>5, <2>6
      <4> QED
        BY <4>3 DEF Alive
    <3>3. ASSUME NEW S \in SUBSET (created_threads \ {0}), S # {}
          PROVE  \E t \in S : tcb'[t].parent \notin S
      <4>1. PICK t \in S : tcb[t].parent \notin S
        BY <3>3 DEF TreeInv, Parented
      <4> QED
        BY <4>1, <1>1, <2>5
    <3> QED
      BY <3>1, <3>2, <3>3, <2>2 DEF Parented
  <2>11. SleepersWait'
    <3>1. \A q \in UserQueues : waitq'[q] = <<>>
      <4>1. \A q \in UserQueues : q \in WaitQueues /\ q # me
        BY <1>1, QueuesAssumption DEF WaitQueues
      <4> QED
        BY <4>1, <2>7 DEF TreeInv, SleepersWait
    <3>2. ASSUME NEW u \in Tids, NEW t \in Range(waitq'[u]) PROVE joining'[t] = u
      <4>1. u \in WaitQueues
        BY DEF WaitQueues
      <4>2. t \in Range(waitq[u])
        BY <4>1, <2>7, <2>8
      <4>3. t \in Tids
        BY <4>1, <4>2, RangeSeq DEF TreeInv, IInv, TypeOK
      <4>4. t # me
        BY <4>1, <4>2, <1>1
      <4> QED
        BY <4>2, <4>3, <4>4, <2>9 DEF TreeInv, SleepersWait
    <3> QED
      BY <3>1, <3>2 DEF SleepersWait
  <2>12. JoinsChild'
    <3> SUFFICES ASSUME NEW t \in Tids, NEW u \in Tids, joining'[t] = u
                 PROVE  /\ Alive(t)' /\ u \in created_threads' /\ u # t /\ tcb'[u].parent = t
                        /\ Alive(u)' => t \in Range(waitq'[u])
      BY DEF JoinsChild
    <3>1. t # me /\ joining[t] = u
      BY <2>9, NoneIsNoTid
    <3>2. /\ Alive(t) /\ u \in created_threads /\ u # t /\ tcb[u].parent = t
          /\ Alive(u) => t \in Range(waitq[u])
      BY <3>1 DEF TreeInv, JoinsChild
    <3>3. u # me => waitq'[u] = waitq[u]
      BY <2>7 DEF WaitQueues
    <3> QED
      BY <3>1, <3>2, <3>3, <2>2, <2>5, <2>6
  <2>13. NoneKilled' /\ EndsWell'
    BY <2>2, <2>5 DEF TreeInv, NoneKilled, EndsWell
  <2> QED
    BY <2>10, <2>11, <2>12, <2>13 DEF TreeInv
<1> QED
  BY <1>5, <1>6

(***************************************************************************)
(* The last part of thread_wait, for a child that has exited: the thread   *)
(* is there, it has a code, nobody sleeps in its queue and its stack is    *)
(* freed, so none of the ends of ReapOutcome is met.                       *)
(***************************************************************************)
LEMMA ReapOfChild ==
  ASSUME TreeInv, IInv', status = "run", NEW t \in created_threads, ~Alive(t), t # me,
         tcb[t].parent = me, Reap(Cleaned, t)
  PROVE  TreeInv'
<1>1. /\ me \in Tids /\ Alive(me) /\ created_threads \subseteq Tids /\ t \in Tids
      /\ \A q \in WaitQueues : me \notin Range(waitq[q])
  BY RunnerAwake DEF TreeInv, IInv, TypeOK
<1>2. PICK m \in Tids : m = me
  BY <1>1
<1>3. t # 0 /\ 0 \in Tids
  BY ChildNotInitial, MaxThreadsAssumption DEF TreeInv, Tids
<1>4. ReapOutcome(Cleaned, t) = "run"
  <2>1. tcb[t].exit # None
    BY DEF Alive
  <2>2. Cleaned[t].exit # None /\ Cleaned[t].stack = "freed"
    BY <1>1, <2>1, CleanedFacts DEF TreeInv
  <2>3. waitq[t] = <<>>
    BY <1>1 DEF TreeInv, IInv, WaiterHasTarget
  <2> QED
    BY <2>2, <2>3 DEF ReapOutcome
<1>5. /\ created_threads' = created_threads \ {t}
      /\ tcb' = [Cleaned EXCEPT ![t] = NewThread(0, "none")]
      /\ joining' = [joining EXCEPT ![me] = None]
      /\ UNCHANGED <<running_thread, ready_queue, queues, status>>
  BY <1>4 DEF Reap
<1>6. \A u \in Tids : IF u = t THEN ~tcb'[u].killed
                      ELSE /\ tcb'[u].exit = tcb[u].exit
                           /\ tcb'[u].parent = tcb[u].parent
                           /\ tcb'[u].killed = tcb[u].killed
  <2>1. \A u \in Tids : tcb'[u] = IF u = t THEN NewThread(0, "none") ELSE Cleaned[u]
    BY <1>5, CleanedFacts DEF TreeInv
  <2>2. ~NewThread(0, "none").killed
    BY DEF NewThread
  <2> QED
    BY <2>1, <2>2, CleanedFacts, ParentCleaned DEF TreeInv
<1>7. \A u : Alive(u)' <=> Alive(u)
  BY <1>1, <1>5, <1>6 DEF Alive
<1>8. \A x \in Tids : joining'[x] = IF x = m THEN None ELSE joining[x]
  BY <1>1, <1>2, <1>5 DEF TreeInv, IInv, TypeOK
<1>9. Parented'
  <2>1. Alive(0)' /\ tcb'[0].parent = 0
    BY <1>3, <1>6, <1>7 DEF TreeInv, Parented
  <2>2. ASSUME NEW u \in created_threads' \ {0} PROVE Alive(tcb[u].parent)'
    <3>1. u \in created_threads \ {0} /\ u # t
      BY <1>5
    <3>2. PICK p : p = tcb[u].parent /\ Alive(p)
      BY <3>1 DEF TreeInv, Parented
    <3>3. Alive(p)' /\ tcb'[u].parent = p
      BY <3>1, <3>2, <1>1, <1>6, <1>7
    <3> QED
      BY <3>3 DEF Alive
  <2>3. ASSUME NEW S \in SUBSET (created_threads' \ {0}), S # {}
        PROVE  \E u \in S : tcb'[u].parent \notin S
    <3>1. S \subseteq created_threads \ {0} /\ t \notin S
      BY <1>5
    <3>2. PICK u \in S : tcb[u].parent \notin S
      BY <2>3, <3>1 DEF TreeInv, Parented
    <3> QED
      BY <3>1, <3>2, <1>1, <1>6
  <2> QED
    BY <2>1, <2>2, <2>3 DEF Parented
<1>10. SleepersWait'
  <2>1. \A q \in UserQueues : waitq'[q] = <<>>
    BY <1>5 DEF TreeInv, SleepersWait, queues
  <2>2. ASSUME NEW u \in Tids, NEW x \in Range(waitq[u]) PROVE joining'[x] = u
    <3>1. u \in WaitQueues
      BY DEF WaitQueues
    <3>2. x \in Tids /\ x # m
      BY <3>1, <1>1, <1>2, RangeSeq DEF TreeInv, IInv, TypeOK
    <3> QED
      BY <3>2, <1>8 DEF TreeInv, SleepersWait
  <2> QED
    BY <2>1, <2>2, <1>5 DEF SleepersWait, queues
<1>11. JoinsChild'
  <2> SUFFICES ASSUME NEW x \in Tids, NEW u \in Tids, joining'[x] = u
               PROVE  /\ Alive(x)' /\ u \in created_threads' /\ u # x /\ tcb'[u].parent = x
                      /\ Alive(u)' => x \in Range(waitq[u])
    BY <1>5 DEF JoinsChild, queues
  <2>1. x # m /\ joining[x] = u
    BY <1>8, NoneIsNoTid
  <2>2. /\ Alive(x) /\ u \in created_threads /\ u # x /\ tcb[u].parent = x
        /\ Alive(u) => x \in Range(waitq[u])
    BY <2>1 DEF TreeInv, JoinsChild
  <2>3. u # t
    BY <2>1, <2>2, <1>2
  <2> QED
    BY <2>2, <2>3, <1>5, <1>6, <1>7
<1>12. NoneKilled' /\ EndsWell'
  BY <1>5, <1>6 DEF TreeInv, NoneKilled, EndsWell
<1> QED
  BY <1>9, <1>10, <1>11, <1>12 DEF TreeInv

(***************************************************************************)
(* thread_wait for a child that is alive.  Somebody is ready then, for     *)
(* nobody but its parent could sleep for the child; so the caller sleeps.  *)
(***************************************************************************)
LEMMA WaitForChild ==
  ASSUME Structured, TreeInv, IInv', WaitAlive
  PROVE  TreeInv'
<1>1. PICK t \in Tids :
        /\ MayWait(t)
        /\ tcb[t].exit = None
        /\ \/ /\ ready_queue = <<>>
              /\ Stop("assert_exit")
           \/ /\ ready_queue # <<>>
              /\ thread_sleep([tcb EXCEPT ![me].waiting_on = t, ![t].wq = TRUE], t)
              /\ joining' = [joining EXCEPT ![me] = t]
              /\ UNCHANGED <<user_queues, tids, zombie_tid, status>>
  BY DEF WaitAlive
<1>2. t # me /\ t \in created_threads /\ Alive(t) /\ tcb[t].parent = me
  BY <1>1 DEF MayWait, Alive
<1>3. /\ me \in Tids /\ Alive(me) /\ created_threads \subseteq Tids
      /\ \A q \in WaitQueues : me \notin Range(waitq[q])
      /\ t \in WaitQueues
  BY RunnerAwake DEF TreeInv, IInv, TypeOK, WaitQueues
<1>4. ready_queue # <<>>
  <2> SUFFICES ASSUME ready_queue = <<>> PROVE FALSE
    OBVIOUS
  <2>1. t # 0
    BY <1>2, ChildNotInitial DEF TreeInv
  <2>2. waitq[t] # <<>> /\ waitq[t] \in Seq(Tids)
    BY <1>2, <1>3, <2>1, SomebodyWaits DEF TreeInv, IInv, TypeOK
  <2>3. PICK x \in Range(waitq[t]) : x \in Tids
    BY <2>2, RangeSeq
  <2>4. joining[x] = t
    BY DEF TreeInv, SleepersWait
  <2>5. tcb[t].parent = x
    BY <2>3, <2>4 DEF TreeInv, JoinsChild
  <2> QED
    BY <2>3, <2>5, <1>2, <1>3
<1> DEFINE tc == [tcb EXCEPT ![me].waiting_on = t, ![t].wq = TRUE]
<1>5. PICK m \in Tids : m = me
  BY <1>3
<1>6. /\ tcb' = [tc EXCEPT ![me].sleeping = TRUE]
      /\ waitq' = [waitq EXCEPT ![t] = Append(@, me)]
      /\ joining' = [joining EXCEPT ![me] = t]
      /\ created_threads' = created_threads /\ status' = status
  BY <1>1, <1>4 DEF thread_sleep, tids
<1>7. \A u \in Tids : /\ tcb'[u].exit = tcb[u].exit
                      /\ tcb'[u].parent = tcb[u].parent
                      /\ tcb'[u].killed = tcb[u].killed
  <2>1. tcb \in [Tids -> TCB]
    BY DEF TreeInv, IInv, TypeOK
  <2>2. \A u \in Tids : tc[u] = IF u = t THEN [tcb[u] EXCEPT !.wq = TRUE]
                                ELSE IF u = me THEN [tcb[u] EXCEPT !.waiting_on = t]
                                ELSE tcb[u]
    BY <2>1, <1>2, <1>3
  <2>3. tc = [u \in Tids |-> tc[u]]
    BY <2>1
  <2> HIDE DEF tc
  <2>4. \A u \in Tids : tcb'[u] = IF u = me THEN [tc[u] EXCEPT !.sleeping = TRUE] ELSE tc[u]
    BY <2>3, <1>3, <1>6
  <2>5. ASSUME NEW u \in Tids
        PROVE  /\ tc[u] \in TCB
               /\ tc[u].exit = tcb[u].exit
               /\ tc[u].parent = tcb[u].parent
               /\ tc[u].killed = tcb[u].killed
    <3>1. tcb[u] \in TCB
      BY <2>1
    <3>2. \A r \in TCB :
            /\ [r EXCEPT !.wq = TRUE] \in TCB /\ [r EXCEPT !.waiting_on = t] \in TCB
            /\ [r EXCEPT !.wq = TRUE].exit = r.exit
            /\ [r EXCEPT !.wq = TRUE].parent = r.parent
            /\ [r EXCEPT !.wq = TRUE].killed = r.killed
            /\ [r EXCEPT !.waiting_on = t].exit = r.exit
            /\ [r EXCEPT !.waiting_on = t].parent = r.parent
            /\ [r EXCEPT !.waiting_on = t].killed = r.killed
      BY DEF TCB
    <3> QED
      BY <3>1, <3>2, <2>2
  <2>6. ASSUME NEW u \in Tids
        PROVE  /\ tcb'[u].exit = tc[u].exit
               /\ tcb'[u].parent = tc[u].parent
               /\ tcb'[u].killed = tc[u].killed
    <3>1. tc[u] \in TCB
      BY <2>5
    <3> QED
      BY <3>1, <2>4 DEF TCB
  <2> QED
    BY <2>5, <2>6
<1>8. \A u : Alive(u)' <=> Alive(u)
  BY <1>3, <1>6, <1>7 DEF Alive
<1>9. /\ \A q \in WaitQueues : q # t => waitq'[q] = waitq[q]
      /\ Range(waitq'[t]) = Range(waitq[t]) \cup {m}
  <2>1. waitq[t] \in Seq(Tids) /\ IsInjective(waitq[t]) /\ m \notin Range(waitq[t])
    BY <1>3, <1>5 DEF TreeInv, IInv, TypeOK, OnePlace
  <2>2. waitq'[t] = Append(waitq[t], m) /\ \A q \in WaitQueues : q # t => waitq'[q] = waitq[q]
    BY <1>3, <1>5, <1>6 DEF TreeInv, IInv, TypeOK
  <2> QED
    BY <2>1, <2>2, AppendedNew
<1>10. \A x \in Tids : joining'[x] = IF x = m THEN t ELSE joining[x]
  BY <1>3, <1>5, <1>6 DEF TreeInv, IInv, TypeOK
<1>11. Parented'
  <2>1. Alive(0)' /\ tcb'[0].parent = 0
    <3>1. 0 \in Tids
      BY MaxThreadsAssumption DEF Tids
    <3> QED
      BY <3>1, <1>7, <1>8 DEF TreeInv, Parented
  <2>2. ASSUME NEW u \in created_threads \ {0} PROVE Alive(tcb[u].parent)'
    <3>1. PICK p : p = tcb[u].parent /\ Alive(p)
      BY DEF TreeInv, Parented
    <3>2. Alive(p)' /\ tcb'[u].parent = p
      BY <3>1, <1>3, <1>7, <1>8
    <3> QED
      BY <3>2 DEF Alive
  <2>3. ASSUME NEW S \in SUBSET (created_threads \ {0}), S # {}
        PROVE  \E u \in S : tcb'[u].parent \notin S
    <3>1. PICK u \in S : tcb[u].parent \notin S
      BY <2>3 DEF TreeInv, Parented
    <3> QED
      BY <3>1, <1>3, <1>7
  <2> QED
    BY <2>1, <2>2, <2>3, <1>6 DEF Parented
<1>12. SleepersWait'
  <2>1. \A q \in UserQueues : waitq'[q] = <<>>
    <3>1. \A q \in UserQueues : q \in WaitQueues /\ q # t
      BY QueuesAssumption DEF WaitQueues
    <3> QED
      BY <3>1, <1>9 DEF TreeInv, SleepersWait
  <2>2. ASSUME NEW u \in Tids, NEW x \in Range(waitq'[u]) PROVE joining'[x] = u
    <3>1. u \in WaitQueues
      BY DEF WaitQueues
    <3>2. CASE x = m
      <4>1. u = t
        BY <3>1, <3>2, <1>3, <1>5, <1>9
      <4> QED
        BY <3>2, <4>1, <1>10
    <3>3. CASE x # m
      <4>1. x \in Range(waitq[u])
        BY <3>1, <3>3, <1>9
      <4>2. x \in Tids
        BY <3>1, <4>1, RangeSeq DEF TreeInv, IInv, TypeOK
      <4> QED
        BY <3>3, <4>1, <4>2, <1>10 DEF TreeInv, SleepersWait
    <3> QED
      BY <3>2, <3>3
  <2> QED
    BY <2>1, <2>2 DEF SleepersWait
<1>13. JoinsChild'
  <2> SUFFICES ASSUME NEW x \in Tids, NEW u \in Tids, joining'[x] = u
               PROVE  /\ Alive(x)' /\ u \in created_threads' /\ u # x /\ tcb'[u].parent = x
                      /\ Alive(u)' => x \in Range(waitq'[u])
    BY DEF JoinsChild
  <2>1. CASE x = m
    <3>1. u = t
      BY <2>1, <1>10
    <3>2. Alive(m)' /\ m \in Range(waitq'[t])
      BY <1>3, <1>5, <1>8, <1>9
    <3>3. t \in created_threads' /\ t # m /\ tcb'[t].parent = m
      BY <1>2, <1>5, <1>6, <1>7
    <3>4. Alive(x)'
      BY <3>2, <2>1 DEF Alive
    <3> QED
      BY <3>1, <3>2, <3>3, <3>4, <2>1
  <2>2. CASE x # m
    <3>1. joining[x] = u
      BY <2>2, <1>10
    <3>2. /\ Alive(x) /\ u \in created_threads /\ u # x /\ tcb[u].parent = x
          /\ Alive(u) => x \in Range(waitq[u])
      BY <3>1 DEF TreeInv, JoinsChild
    <3>3. Range(waitq[u]) \subseteq Range(waitq'[u])
      BY <1>9 DEF WaitQueues
    <3> QED
      BY <3>2, <3>3, <1>6, <1>7, <1>8
  <2> QED
    BY <2>1, <2>2
<1>14. NoneKilled' /\ EndsWell'
  BY <1>6, <1>7 DEF TreeInv, NoneKilled, EndsWell
<1> QED
  BY <1>11, <1>12, <1>13, <1>14 DEF TreeInv

\* A wakeup of a client's queue wakes nobody, for nobody sleeps there.
LEMMA NobodyToWake ==
  ASSUME TreeInv, IInv', WakeupOne \/ WakeupAll
  PROVE  TreeInv'
<1>1. PICK q \in user_queues : \/ /\ tcb' = Awoken(tcb, First(waitq[q]))
                                  /\ waitq' = [waitq EXCEPT ![q] = Rest(@)]
                               \/ /\ tcb' = Awoken(tcb, Range(waitq[q]))
                                  /\ waitq' = [waitq EXCEPT ![q] = <<>>]
  BY DEF WakeupOne, WakeupAll
<1>2. q \in WaitQueues /\ waitq[q] = <<>>
  BY DEF TreeInv, IInv, TypeOK, SleepersWait, WaitQueues
<1>3. First(<<>>) = {} /\ Range(<<>>) = {} /\ Rest(<<>>) = <<>>
  BY DEF First, Range, Rest
<1>4. tcb' = Awoken(tcb, {}) /\ waitq' = [waitq EXCEPT ![q] = <<>>]
  BY <1>1, <1>2, <1>3
<1>5. \A t \in Tids : tcb'[t] = tcb[t]
  BY <1>4 DEF Awoken
<1>6. waitq' = waitq
  BY <1>2, <1>4 DEF TreeInv, IInv, TypeOK
<1>7. created_threads' = created_threads /\ joining' = joining /\ status' = status
  BY DEF WakeupOne, WakeupAll, tids
<1> QED
  BY <1>5, <1>6, <1>7, TreeKept DEF EndsWell, TreeInv

\* After thread_init the initial thread is the whole tree.
LEMMA InitTree == Init => TreeInv
<1> SUFFICES ASSUME Init PROVE TreeInv
  OBVIOUS
<1>1. 0 \in Tids /\ created_threads = {0} /\ tcb[0] = NewThread(0, "none")
  BY MaxThreadsAssumption DEF Init, Tids
<1>2. Parented
  <2>1. created_threads \ {0} = {} /\ Alive(0) /\ tcb[0].parent = 0
    BY <1>1 DEF Alive, NewThread
  <2> QED
    BY <2>1 DEF Parented
<1>3. SleepersWait
  <2>1. \A q \in WaitQueues : waitq[q] = <<>>
    BY DEF Init
  <2>2. Range(<<>>) = {}
    BY DEF Range
  <2> QED
    BY <2>1, <2>2 DEF SleepersWait, WaitQueues
<1>4. JoinsChild
  BY NoneIsNoTid DEF Init, JoinsChild
<1>5. NoneKilled /\ EndsWell
  BY DEF Init, NoneKilled, EndsWell, NewThread
<1> QED
  BY <1>2, <1>3, <1>4, <1>5, InitInv DEF TreeInv

\* Every step a structured client can cause keeps the tree.
LEMMA NextTree ==
  ASSUME WellStructured, TreeInv, [Next]_vars
  PROVE  TreeInv'
<1>1. IInv'
  BY NextInv DEF WellStructured, TreeInv
<1>2. me \in Tids /\ created_threads \subseteq Tids
  BY RunnerAwake DEF TreeInv, IInv, TypeOK
<1>3. CASE ResumeKilled
  BY <1>2, <1>3 DEF ResumeKilled, TreeInv, NoneKilled
<1>4. CASE ResumeClient
  BY <1>1, <1>4, CleanedFacts, ParentCleaned, TreeKept
     DEF ResumeClient, queues, tids, TreeInv, EndsWell
<1>5. CASE ResumeJoin
  <2>1. joining[me] \in Tids /\ status = "run"
    BY <1>2, <1>5 DEF ResumeJoin, TreeInv, IInv, TypeOK
  <2>2. PICK t \in Tids : t = joining[me]
    BY <2>1
  <2>3. /\ t \in created_threads /\ t # me /\ tcb[t].parent = me
        /\ Alive(t) => me \in Range(waitq[t])
    BY <1>2, <2>2 DEF TreeInv, JoinsChild
  <2>4. ~Alive(t)
    BY <2>3, RunnerAwake DEF TreeInv, WaitQueues
  <2>5. Reap(Cleaned, t)
    BY <1>5, <2>2 DEF ResumeJoin
  <2> QED
    BY <1>1, <2>1, <2>3, <2>4, <2>5, ReapOfChild
<1>6. CASE Preempt \/ Yield
  BY <1>1, <1>6, TreeKept DEF Preempt, Yield, queues, tids, TreeInv, EndsWell
<1>7. CASE Create
  BY <1>1, <1>7, TreeGrows
<1>8. CASE Exit
  <2>1. PICK code \in ExitCodes : thread_exit(tcb, code)
    BY <1>8 DEF Exit
  <2>2. code \in Int /\ code # None /\ status = "run"
    BY <1>8, ClientAssumption DEF WellStructured, Exit, Client
  <2>3. \A t \in created_threads \ {me} : tcb[t].parent # me
    BY <1>8 DEF Exit, WellStructured
  <2> QED
    BY <1>1, <2>1, <2>2, <2>3, ExitOfLeaf
<1>9. CASE Kill \/ Sleep
  BY <1>9 DEF Kill, Sleep, Client, WellStructured
<1>10. CASE QueueCreate \/ QueueDestroy
  <2>1. /\ waitq' = waitq /\ created_threads' = created_threads /\ tcb' = tcb
        /\ joining' = joining /\ status' = status
    BY <1>10 DEF QueueCreate, QueueDestroy, tids, TreeInv, IInv, TypeOK, SleepersWait
  <2> QED
    BY <1>1, <2>1, TreeKept DEF TreeInv, EndsWell
<1>11. CASE WakeupOne \/ WakeupAll
  BY <1>1, <1>11, NobodyToWake
<1>12. CASE WaitExited
  <2>1. PICK t \in Tids : MayWait(t) /\ tcb[t].exit # None /\ Reap(tcb, t)
    BY <1>12 DEF WaitExited
  <2>2. t \in created_threads /\ t # me /\ tcb[t].parent = me /\ ~Alive(t)
    BY <2>1 DEF MayWait, Alive, WellStructured
  <2>3. tcb = Cleaned /\ status = "run"
    BY <1>12, CleanedFacts DEF WaitExited, Client, TreeInv
  <2>4. Reap(Cleaned, t)
    BY <2>1, <2>3
  <2> QED
    BY <1>1, <2>2, <2>3, <2>4, ReapOfChild
<1>13. CASE WaitAlive
  BY <1>1, <1>13, WaitForChild DEF WellStructured
<1>14. CASE UNCHANGED vars
  BY <1>1, <1>14, TreeKept DEF vars, sched, queues, tids, TreeInv, EndsWell
<1> QED
  BY <1>3, <1>4, <1>5, <1>6, <1>7, <1>8, <1>9, <1>10, <1>11, <1>12, <1>13, <1>14
     DEF Next, Resume, Over

(***************************************************************************)
(* Under a structured client the only fault that can end the process is    *)
(* thread_create's write outside created_threads: no assertion of          *)
(* thread_wait or wait_queue_destroy fails, no NULL entry is read, and no  *)
(* stack is freed twice, not when the last thread leaves either.           *)
(***************************************************************************)
THEOREM StructuredEndsWell == ASSUME WellStructured PROVE Spec => []EndsWell
<1>1. TreeInv /\ [Next]_vars => TreeInv'
  BY NextTree
<1>2. TreeInv => EndsWell
  BY DEF TreeInv
<1> QED
  BY <1>1, <1>2, InitTree, PTL DEF Spec

(***************************************************************************)
(* thread_wait of a structured client finds its target: when it gets to    *)
(* its assertion the target has exited and nobody else has collected it.   *)
(***************************************************************************)
THEOREM WaitsFindTargets == ASSUME WellStructured PROVE Spec => []WaitFindsTarget
<1>1. EndsWell => WaitFindsTarget
  BY DEF EndsWell, WaitFindsTarget
<1> QED
  BY <1>1, StructuredEndsWell, PTL

-----------------------------------------------------------------------------
(***************************************************************************)
(* What the liveness properties rest on, for any client: a ready thread is *)
(* not overtaken by one behind it, a thread whose target has exited is not *)
(* asleep, and a kill is not forgotten.  With the fairness of FairSpec the *)
(* first gives ReadyRuns, the others WaitReturns and KilledExits.          *)
(***************************************************************************)

\* Each ready thread is as near to the head after the step, or it runs.
MovesUp ==
  \A i \in 1 .. Len(ready_queue) :
    \/ running_thread' = ready_queue[i]
    \/ \E j \in 1 .. i : j \in 1 .. Len(ready_queue') /\ ready_queue'[j] = ready_queue[i]

NeverOvertaken == [][MovesUp]_vars

\* The timer takes the head: the others all come one nearer to it.
TimerAdvances ==
  [][Preempt => /\ running_thread' = ready_queue[1]
                /\ \A i \in 2 .. Len(ready_queue) : ready_queue'[i - 1] = ready_queue[i]]_vars

\* A thread that sleeps in thread_wait sleeps in the queue of the thread it
\* joins; one that sleeps in a client's queue joins nobody.
SleepsWhereItJoins ==
  /\ \A u \in Tids : \A t \in Range(waitq[u]) : joining[t] = u
  /\ \A q \in UserQueues : \A t \in Range(waitq[q]) : joining[t] = None

\* A thread in client code is in no thread_wait.
ClientJoinsNobody == ~resuming => joining[running_thread] = None

\* Whoever waits for a thread that has exited is awake.
NoLostWakeup == \A t, u \in Tids : joining[t] = u /\ ~Alive(u) => t \notin Asleep

JoinInv == IInv /\ SleepsWhereItJoins /\ ClientJoinsNobody

\* No live thread's killed flag is cleared.
KeepsKills == \A t \in Tids : Alive(t) /\ tcb[t].killed => tcb'[t].killed

StaysKilled == [][KeepsKills]_vars

\* Queue r has the threads of s where s has them, and perhaps more behind.
ExtendsQueue(r, s) == Len(s) <= Len(r) /\ \A i \in 1 .. Len(s) : r[i] = s[i]

\* The queue operations that add leave the others where they are.
LEMMA TailExtends ==
  ASSUME NEW q \in Seq(Tids), NEW t \in Tids
  PROVE  /\ add_to_queue_tail(q, t) \in Seq(Tids)
         /\ ExtendsQueue(add_to_queue_tail(q, t), q)
         /\ ExtendsQueue(q, q)
BY DEF add_to_queue_tail, ExtendsQueue

LEMMA WakeupExtends ==
  ASSUME IInv, NEW q \in WaitQueues
  PROVE  /\ ReadyAfterWakeup(waitq[q]) \in Seq(Tids)
         /\ ExtendsQueue(ReadyAfterWakeup(waitq[q]), ready_queue)
<1>1. waitq[q] \in Seq(Tids) /\ ready_queue \in Seq(Tids)
  BY DEF IInv, TypeOK
<1>2. CASE waitq[q] = <<>>
  BY <1>1, <1>2, TailExtends DEF ReadyAfterWakeup, ExtendsQueue
<1>3. CASE waitq[q] # <<>>
  <2>1. Head(waitq[q]) \in Tids
    BY <1>1, <1>3
  <2>2. ReadyAfterWakeup(waitq[q]) = add_to_queue_tail(ready_queue, Head(waitq[q]))
    BY <1>3 DEF ReadyAfterWakeup
  <2> QED
    BY <1>1, <2>1, <2>2, TailExtends
<1> QED
  BY <1>2, <1>3

\* A step that only puts threads at the tail.
LEMMA OnlyAdds ==
  ASSUME IInv, IInv', ExtendsQueue(ready_queue', ready_queue)
  PROVE  MovesUp
<1>1. ready_queue \in Seq(Tids) /\ ready_queue' \in Seq(Tids)
  BY DEF IInv, TypeOK
<1>2. ASSUME NEW i \in 1 .. Len(ready_queue)
      PROVE  i \in 1 .. i /\ i \in 1 .. Len(ready_queue') /\ ready_queue'[i] = ready_queue[i]
  BY <1>1 DEF ExtendsQueue
<1> QED
  BY <1>2 DEF MovesUp

\* A step that takes one thread of the queue as it is after a wakeup, and puts
\* the caller, if any, at the tail.
LEMMA TakesOne ==
  ASSUME IInv, IInv', NEW r \in Seq(Tids), ExtendsQueue(r, ready_queue),
         NEW k \in 1 .. Len(r), running_thread' = r[k],
         ExtendsQueue(ready_queue', remove_from_queue(r, k))
  PROVE  MovesUp
<1> DEFINE rest == remove_from_queue(r, k)
<1>1. ready_queue \in Seq(Tids) /\ ready_queue' \in Seq(Tids)
  BY DEF IInv, TypeOK
<1>2. Len(rest) = Len(r) - 1 /\ \A j \in 1 .. Len(r) - 1 : rest[j] = IF j < k THEN r[j] ELSE r[j + 1]
  BY DEF remove_from_queue
<1> HIDE DEF rest
<1>3. Len(r) - 1 <= Len(ready_queue') /\ \A j \in 1 .. Len(r) - 1 : ready_queue'[j] = rest[j]
  BY <1>2 DEF ExtendsQueue, rest
<1>4. Len(ready_queue) <= Len(r) /\ \A i \in 1 .. Len(ready_queue) : r[i] = ready_queue[i]
  BY DEF ExtendsQueue
<1> SUFFICES ASSUME NEW i \in 1 .. Len(ready_queue)
             PROVE  \/ running_thread' = ready_queue[i]
                    \/ \E j \in 1 .. i : j \in 1 .. Len(ready_queue') /\ ready_queue'[j] = ready_queue[i]
  BY DEF MovesUp
<1>5. CASE i = k
  BY <1>4, <1>5
<1>6. CASE i < k
  <2>1. i \in 1 .. Len(r) - 1 /\ i \in 1 .. Len(ready_queue') /\ i \in 1 .. i
    BY <1>1, <1>3, <1>4, <1>6
  <2>2. ready_queue'[i] = ready_queue[i]
    BY <2>1, <1>2, <1>3, <1>4, <1>6
  <2> QED
    BY <2>1, <2>2
<1>7. CASE i > k
  <2>1. i - 1 \in 1 .. Len(r) - 1 /\ i - 1 \in 1 .. Len(ready_queue') /\ i - 1 \in 1 .. i
    BY <1>1, <1>3, <1>4, <1>7
  <2>2. ready_queue'[i - 1] = ready_queue[i]
    <3>1. ready_queue'[i - 1] = rest[i - 1]
      BY <2>1, <1>3
    <3>2. rest[i - 1] = r[(i - 1) + 1]
      BY <2>1, <1>2, <1>7
    <3> QED
      BY <3>1, <3>2, <1>4
  <2> QED
    BY <2>1, <2>2
<1> QED
  BY <1>5, <1>6, <1>7

\* A yield takes the thread at index i and puts a caller that is awake behind.
LEMMA YieldTakes ==
  ASSUME IInv, IInv', NEW tc, NEW i \in 1 .. Len(ready_queue), thread_yield(tc, i)
  PROVE  /\ MovesUp
         /\ running_thread' = ready_queue[i]
         /\ ExtendsQueue(ready_queue', remove_from_queue(ready_queue, i))
<1>1. ready_queue \in Seq(Tids) /\ me \in Tids /\ IsInjective(ready_queue)
  BY DEF IInv, TypeOK, OnePlace, me
<1> DEFINE rest == remove_from_queue(ready_queue, i)
<1>2. rest \in Seq(Tids)
  BY <1>1, RemoveFrom
<1>3. /\ ready_queue' = IF tc[me].sleeping THEN rest ELSE add_to_queue_tail(rest, me)
      /\ running_thread' = ready_queue[i]
  BY DEF thread_yield, SwitchTo
<1> HIDE DEF rest
<1>4. ExtendsQueue(ready_queue', rest)
  BY <1>1, <1>2, <1>3, TailExtends
<1>5. ExtendsQueue(ready_queue, ready_queue)
  BY <1>1 DEF ExtendsQueue
<1> QED
  BY <1>1, <1>3, <1>4, <1>5, TakesOne DEF rest

\* A thread goes to sleep and the head of the queue runs.
LEMMA SleepMovesUp ==
  ASSUME IInv, IInv', ready_queue # <<>>, NEW tc, NEW q, thread_sleep(tc, q)
  PROVE  MovesUp
<1>1. 1 \in 1 .. Len(ready_queue)
  BY DEF IInv, TypeOK
<1>2. PICK asleep : thread_yield(asleep, 1)
  BY DEF thread_sleep
<1> QED
  BY <1>1, <1>2, YieldTakes

\* An exit makes the waiter ready and takes the head.
LEMMA ExitTakes ==
  ASSUME IInv, IInv', NEW code, thread_exit(Cleaned, code)
  PROVE  MovesUp
<1> DEFINE rq == ReadyAfterWakeup(waitq[me])
<1>1. /\ me \in WaitQueues /\ ClearedQueues(Cleaned) = waitq
  <2>1. me \in Tids /\ tcb[me].waiting_on = None
    BY RunningAlive DEF IInv, TypeOK, me
  <2>2. Cleaned[me].waiting_on = None
    BY <2>1, CleanedFacts
  <2> QED
    BY <2>1, <2>2 DEF ClearedQueues, WaitQueues
<1>2. rq \in Seq(Tids) /\ ExtendsQueue(rq, ready_queue)
  BY <1>1, WakeupExtends
<1>3. \/ ready_queue' = ready_queue
      \/ /\ rq # <<>> /\ running_thread' = rq[1]
         /\ ready_queue' = remove_from_queue(rq, 1)
  BY <1>1 DEF thread_exit, Stop, sched, SwitchTo
<1> HIDE DEF rq
<1>4. CASE ready_queue' = ready_queue
  <2>1. ExtendsQueue(ready_queue', ready_queue)
    BY <1>4 DEF ExtendsQueue, IInv, TypeOK
  <2> QED
    BY <2>1, OnlyAdds
<1>5. CASE rq # <<>> /\ running_thread' = rq[1] /\ ready_queue' = remove_from_queue(rq, 1)
  <2>1. 1 \in 1 .. Len(rq)
    BY <1>2, <1>5
  <2>2. ExtendsQueue(ready_queue', remove_from_queue(rq, 1))
    BY <1>5, <2>1 DEF ExtendsQueue, remove_from_queue
  <2> QED
    BY <1>2, <1>5, <2>1, <2>2, TakesOne
<1> QED
  BY <1>3, <1>4, <1>5

\* No step moves a ready thread back.
LEMMA NextMovesUp ==
  ASSUME IInv, IInv', [Next]_vars
  PROVE  MovesUp
<1>1. ready_queue \in Seq(Tids) /\ created_threads \subseteq Tids /\ me \in Tids
      /\ user_queues \subseteq WaitQueues /\ Tids \subseteq WaitQueues
  BY DEF IInv, TypeOK, me, WaitQueues
<1>2. CASE ResumeKilled
  BY <1>2, ExitTakes DEF ResumeKilled
<1>3. CASE Exit
  <2>1. tcb = Cleaned
    BY <1>3, CleanedFacts DEF Exit, Client
  <2> QED
    BY <1>3, <2>1, ExitTakes DEF Exit
<1>4. CASE Preempt
  <2>1. 1 \in 1 .. Len(ready_queue)
    BY <1>1, <1>4 DEF Preempt
  <2> QED
    BY <1>4, <2>1, YieldTakes DEF Preempt
<1>5. CASE Yield
  BY <1>5, YieldTakes DEF Yield
<1>7. CASE Sleep
  BY <1>7, SleepMovesUp DEF Sleep
<1>8. CASE WaitAlive /\ ready_queue # <<>>
  BY <1>8, SleepMovesUp DEF WaitAlive
<1>9. CASE UNCHANGED ready_queue
  <2>1. ExtendsQueue(ready_queue', ready_queue)
    BY <1>1, <1>9 DEF ExtendsQueue
  <2> QED
    BY <2>1, OnlyAdds
<1>10. CASE Create
  <2>1. CASE Stop("out_of_bounds")
    BY <2>1, <1>9 DEF Stop, sched
  <2>2. CASE available_threads # <<>> /\ ready_queue' = add_to_queue_tail(ready_queue, Head(available_threads))
    <3>1. Head(available_threads) \in Tids
      BY <2>2 DEF IInv, TypeOK
    <3> QED
      BY <1>1, <2>2, <3>1, TailExtends, OnlyAdds
  <2> QED
    BY <1>10, <2>1, <2>2 DEF Create
<1>11. CASE Kill \/ WakeupOne
  <2>1. PICK q \in WaitQueues : ready_queue' = ReadyAfterWakeup(waitq[q])
    BY <1>1, <1>11 DEF Kill, WakeupOne
  <2> QED
    BY <2>1, WakeupExtends, OnlyAdds
<1>12. CASE WakeupAll
  <2>1. PICK q \in WaitQueues :
          ready_queue' = LET all == ready_queue \o waitq[q]
                         IN SubSeq(all, 1, IF Len(all) <= MaxThreads THEN Len(all)
                                           ELSE MaxThreads)
    BY <1>1, <1>12 DEF WakeupAll
  <2> DEFINE all == ready_queue \o waitq[q]
  <2>2. Len(all) <= MaxThreads /\ all \in Seq(Tids)
    BY RoomForAll
  <2>3. waitq[q] \in Seq(Tids)
    BY DEF IInv, TypeOK
  <2>4. ExtendsQueue(all, ready_queue)
    BY <1>1, <2>3 DEF ExtendsQueue
  <2>5. ready_queue' = SubSeq(all, 1, Len(all))
    BY <2>1, <2>2
  <2> HIDE DEF all
  <2>6. ready_queue' = all
    BY <2>2, <2>5, SubSeqFull
  <2> QED
    BY <2>4, <2>6, OnlyAdds
<1>13. CASE ResumeClient \/ ResumeJoin \/ QueueCreate \/ QueueDestroy \/ WaitExited
            \/ Over \/ UNCHANGED vars \/ (WaitAlive /\ ready_queue = <<>>)
  BY <1>9, <1>13 DEF ResumeClient, ResumeJoin, QueueCreate, QueueDestroy, WaitExited, WaitAlive,
                     Reap, Stop, Over, vars, sched
<1> QED
  BY <1>2, <1>3, <1>4, <1>5, <1>7, <1>8, <1>10, <1>11, <1>12, <1>13 DEF Next, Resume

(***************************************************************************)
(* No call and no signal lets a thread overtake one that is ready before   *)
(* it, but for thread_yield(tid) of that very thread.                      *)
(***************************************************************************)
THEOREM ReadyNeverOvertaken == ASSUME None \notin ExitCodes PROVE Spec => NeverOvertaken
<1>1. IInv /\ IInv' /\ [Next]_vars => [MovesUp]_vars
  BY NextMovesUp
<1> QED
  BY <1>1, Invariance, PTL DEF Spec, NeverOvertaken

(***************************************************************************)
(* Each signal brings every ready thread one place nearer to the processor *)
(* (interrupt_handler yields to the head).                                 *)
(***************************************************************************)
THEOREM TimerBringsNearer == ASSUME None \notin ExitCodes PROVE Spec => TimerAdvances
<1> DEFINE P == Preempt => /\ running_thread' = ready_queue[1]
                           /\ \A i \in 2 .. Len(ready_queue) : ready_queue'[i - 1] = ready_queue[i]
<1>1. ASSUME IInv, IInv', Preempt
      PROVE  /\ running_thread' = ready_queue[1]
             /\ \A i \in 2 .. Len(ready_queue) : ready_queue'[i - 1] = ready_queue[i]
  <2>1. ready_queue \in Seq(Tids) /\ 1 \in 1 .. Len(ready_queue)
    BY <1>1 DEF Preempt, IInv, TypeOK
  <2>2. /\ running_thread' = ready_queue[1]
        /\ ExtendsQueue(ready_queue', remove_from_queue(ready_queue, 1))
    BY <1>1, <2>1, YieldTakes DEF Preempt
  <2>3. \A j \in 1 .. Len(ready_queue) - 1 : ready_queue'[j] = ready_queue[j + 1]
    BY <2>1, <2>2 DEF ExtendsQueue, remove_from_queue
  <2>4. ASSUME NEW i \in 2 .. Len(ready_queue) PROVE ready_queue'[i - 1] = ready_queue[i]
    <3>1. i - 1 \in 1 .. Len(ready_queue) - 1 /\ (i - 1) + 1 = i
      BY <2>1
    <3> QED
      BY <3>1, <2>3
  <2> QED
    BY <2>2, <2>4
<1>2. IInv /\ IInv' => [P]_vars
  BY <1>1
<1> HIDE DEF P
<1>3. Spec => [][P]_vars
  BY <1>2, Invariance, PTL DEF Spec
<1> QED
  BY <1>3 DEF P, TimerAdvances

-----------------------------------------------------------------------------
\* A step in which nobody goes to sleep and nobody's thread_wait begins or ends.
LEMMA JoinKept ==
  ASSUME JoinInv, IInv', joining' = joining,
         \A q \in WaitQueues : Range(waitq'[q]) \subseteq Range(waitq[q]),
         resuming' = TRUE \/ UNCHANGED <<running_thread, resuming>>
  PROVE  JoinInv'
<1>1. SleepsWhereItJoins'
  BY DEF JoinInv, SleepsWhereItJoins, WaitQueues
<1>2. ClientJoinsNobody'
  BY DEF JoinInv, ClientJoinsNobody
<1> QED
  BY <1>1, <1>2 DEF JoinInv

\* A step with which the running thread's thread_wait, if any, is over.
LEMMA JoinOver ==
  ASSUME JoinInv, IInv', joining' = [joining EXCEPT ![me] = None],
         \A q \in WaitQueues : Range(waitq'[q]) \subseteq Range(waitq[q]),
         resuming' = TRUE \/ running_thread' = running_thread
  PROVE  JoinInv'
<1>1. /\ me \in Tids
      /\ \A q \in WaitQueues : me \notin Range(waitq[q])
      /\ joining \in [Tids -> Tids \cup {None}]
  BY RunnerAwake DEF JoinInv, IInv, TypeOK
<1>2. PICK m \in Tids : m = me
  BY <1>1
<1>3. \A t \in Tids : joining'[t] = IF t = m THEN None ELSE joining[t]
  BY <1>1, <1>2
<1>4. ASSUME NEW q \in WaitQueues, NEW t \in Range(waitq'[q])
      PROVE  t \in Range(waitq[q]) /\ joining'[t] = joining[t]
  <2>1. t \in Range(waitq[q]) /\ waitq[q] \in Seq(Tids)
    BY DEF JoinInv, IInv, TypeOK
  <2>2. t \in Tids /\ t # m
    BY <2>1, <1>1, <1>2, RangeSeq
  <2> QED
    BY <2>1, <2>2, <1>3
<1>5. SleepsWhereItJoins'
  BY <1>4 DEF JoinInv, SleepsWhereItJoins, WaitQueues
<1>6. ClientJoinsNobody'
  BY <1>2, <1>3 DEF ClientJoinsNobody, me
<1> QED
  BY <1>5, <1>6 DEF JoinInv

\* A step in which the running thread goes to sleep in q.
LEMMA JoinSleeps ==
  ASSUME JoinInv, IInv', NEW q \in WaitQueues,
         waitq' = [waitq EXCEPT ![q] = Append(@, me)],
         joining' = [joining EXCEPT ![me] = IF q \in Tids THEN q ELSE None],
         resuming' = TRUE
  PROVE  JoinInv'
<1>1. /\ me \in Tids
      /\ \A p \in WaitQueues : me \notin Range(waitq[p])
      /\ joining \in [Tids -> Tids \cup {None}]
      /\ waitq \in [WaitQueues -> Seq(Tids)]
  BY RunnerAwake DEF JoinInv, IInv, TypeOK
<1>2. PICK m \in Tids : m = me
  BY <1>1
<1>3. \A t \in Tids : joining'[t] = IF t # m THEN joining[t] ELSE IF q \in Tids THEN q ELSE None
  BY <1>1, <1>2
<1>4. /\ Range(waitq'[q]) = Range(waitq[q]) \cup {m}
      /\ \A p \in WaitQueues : p # q => waitq'[p] = waitq[p]
  <2>1. waitq[q] \in Seq(Tids) /\ IsInjective(waitq[q]) /\ m \notin Range(waitq[q])
    BY <1>1, <1>2 DEF JoinInv, IInv, OnePlace
  <2>2. /\ waitq'[q] = Append(waitq[q], m)
        /\ \A p \in WaitQueues : p # q => waitq'[p] = waitq[p]
    BY <1>1, <1>2
  <2>3. Range(Append(waitq[q], m)) = Range(waitq[q]) \cup {m}
    BY <2>1, AppendedNew
  <2> QED
    BY <2>2, <2>3
<1>5. ASSUME NEW p \in WaitQueues, NEW t \in Range(waitq'[p])
      PROVE  \/ t \in Range(waitq[p]) /\ joining'[t] = joining[t]
             \/ p = q /\ joining'[t] = IF q \in Tids THEN q ELSE None
  <2>1. CASE t = m /\ p = q
    <3>1. joining'[m] = IF q \in Tids THEN q ELSE None
      BY <1>3
    <3> QED
      BY <2>1, <3>1
  <2>2. CASE t \in Range(waitq[p])
    <3>1. t \in Tids /\ t # m
      BY <2>2, <1>1, <1>2, RangeSeq
    <3> QED
      BY <2>2, <3>1, <1>3
  <2>3. t \in Range(waitq[p]) \/ (t = m /\ p = q)
    BY <1>4
  <2> QED
    BY <2>1, <2>2, <2>3
<1>6. SleepsWhereItJoins'
  <2>1. ASSUME NEW u \in Tids, NEW t \in Range(waitq'[u]) PROVE joining'[t] = u
    <3>1. u \in WaitQueues
      BY DEF WaitQueues
    <3> QED
      BY <3>1, <1>5 DEF JoinInv, SleepsWhereItJoins
  <2>2. ASSUME NEW p \in UserQueues, NEW t \in Range(waitq'[p]) PROVE joining'[t] = None
    <3>1. p \in WaitQueues /\ p \notin Tids
      BY QueuesAssumption DEF WaitQueues
    <3> QED
      BY <3>1, <1>5 DEF JoinInv, SleepsWhereItJoins
  <2> QED
    BY <2>1, <2>2 DEF SleepsWhereItJoins
<1>7. ClientJoinsNobody'
  BY DEF ClientJoinsNobody
<1> QED
  BY <1>6, <1>7 DEF JoinInv

\* After thread_exit, which takes the waiter out of the caller's queue, or ends
\* the process.
LEMMA JoinAfterExit ==
  ASSUME JoinInv, IInv', NEW code, thread_exit(Cleaned, code)
  PROVE  JoinInv'
<1>1. me \in WaitQueues /\ ClearedQueues(Cleaned) = waitq /\ waitq \in [WaitQueues -> Seq(Tids)]
  <2>1. me \in Tids /\ tcb[me].waiting_on = None
    BY RunningAlive DEF JoinInv, IInv, TypeOK, me
  <2>2. Cleaned[me].waiting_on = None
    BY <2>1, CleanedFacts DEF JoinInv
  <2> QED
    BY <2>1, <2>2 DEF ClearedQueues, WaitQueues, JoinInv, IInv, TypeOK
<1>2. CASE waitq' = waitq /\ joining' = joining /\ UNCHANGED <<running_thread, resuming>>
  BY <1>2, JoinKept
<1>3. CASE /\ waitq' = [waitq EXCEPT ![me] = Rest(@)]
           /\ joining' = [joining EXCEPT ![me] = None]
           /\ resuming' = TRUE
  <2>1. Range(Rest(waitq[me])) \subseteq Range(waitq[me])
    BY <1>1, WakeFirst DEF JoinInv
  <2>2. \A q \in WaitQueues : Range(waitq'[q]) \subseteq Range(waitq[q])
    BY <2>1, <1>1, <1>3
  <2> QED
    BY <2>2, <1>3, JoinOver
<1> QED
  BY <1>1, <1>2, <1>3 DEF thread_exit, Stop, sched, queues, SwitchTo

\* After the last part of thread_wait.
LEMMA JoinAfterReap ==
  ASSUME JoinInv, IInv', NEW tc, NEW t, Reap(tc, t)
  PROVE  JoinInv'
<1>1. waitq' = waitq
  BY DEF Reap, Stop, queues
<1>2. CASE joining' = joining /\ UNCHANGED <<running_thread, resuming>>
  BY <1>1, <1>2, JoinKept
<1>3. CASE joining' = [joining EXCEPT ![me] = None] /\ running_thread' = running_thread
  BY <1>1, <1>3, JoinOver
<1> QED
  BY <1>2, <1>3 DEF Reap, Stop, sched

\* Every step keeps JoinInv, which holds after thread_init.
LEMMA NextJoin ==
  ASSUME None \notin ExitCodes, JoinInv, [Next]_vars
  PROVE  JoinInv'
<1>1. IInv /\ IInv'
  BY NextInv DEF JoinInv
<1>2. /\ me \in Tids /\ waitq \in [WaitQueues -> Seq(Tids)]
      /\ joining \in [Tids -> Tids \cup {None}]
      /\ created_threads \subseteq WaitQueues /\ user_queues \subseteq UserQueues
      /\ Tids \subseteq WaitQueues /\ UserQueues \subseteq WaitQueues
  BY <1>1 DEF IInv, TypeOK, me, WaitQueues
<1>3. CASE ResumeKilled
  BY <1>1, <1>3, JoinAfterExit DEF ResumeKilled
<1>4. CASE ResumeClient
  <2>1. joining' = joining /\ joining = [joining EXCEPT ![me] = None] /\ waitq' = waitq
    BY <1>2, <1>4 DEF ResumeClient, queues
  <2>2. running_thread' = running_thread
    BY <1>4 DEF ResumeClient
  <2> QED
    BY <1>1, <2>1, <2>2, JoinOver
<1>5. CASE ResumeJoin
  BY <1>1, <1>5, JoinAfterReap DEF ResumeJoin
<1>6. CASE Preempt \/ Yield
  BY <1>1, <1>6, JoinKept DEF Preempt, Yield, thread_yield, SwitchTo, queues
<1>7. CASE Create \/ QueueCreate \/ QueueDestroy \/ UNCHANGED vars
  <2>1. waitq' = waitq /\ joining' = joining /\ UNCHANGED <<running_thread, resuming>>
    BY <1>7 DEF Create, QueueCreate, QueueDestroy, Stop, vars, sched, queues
  <2> QED
    BY <1>1, <2>1, JoinKept
<1>8. CASE Exit
  <2>1. tcb = Cleaned
    BY <1>1, <1>8, CleanedFacts DEF Exit, Client
  <2> QED
    BY <1>1, <1>8, <2>1, JoinAfterExit DEF Exit
<1>9. CASE Kill \/ WakeupOne
  <2>1. PICK q \in WaitQueues : waitq' = [waitq EXCEPT ![q] = Rest(@)]
    BY <1>2, <1>9 DEF Kill, WakeupOne
  <2>2. Range(Rest(waitq[q])) \subseteq Range(waitq[q])
    BY <1>1, WakeFirst
  <2>3. \A p \in WaitQueues : Range(waitq'[p]) \subseteq Range(waitq[p])
    BY <1>2, <2>1, <2>2
  <2>4. joining' = joining /\ UNCHANGED <<running_thread, resuming>>
    BY <1>9 DEF Kill, WakeupOne
  <2> QED
    BY <1>1, <2>3, <2>4, JoinKept
<1>10. CASE WakeupAll
  <2>1. PICK q \in WaitQueues : waitq' = [waitq EXCEPT ![q] = <<>>]
    BY <1>2, <1>10 DEF WakeupAll
  <2>2. Range(<<>>) = {}
    BY DEF Range
  <2>3. \A p \in WaitQueues : Range(waitq'[p]) \subseteq Range(waitq[p])
    BY <1>2, <2>1, <2>2
  <2>4. joining' = joining /\ UNCHANGED <<running_thread, resuming>>
    BY <1>10 DEF WakeupAll
  <2> QED
    BY <1>1, <2>3, <2>4, JoinKept
<1>11. CASE Sleep
  <2>1. PICK q \in UserQueues : thread_sleep(tcb, q)
    BY <1>2, <1>11 DEF Sleep
  <2>2. q \in WaitQueues /\ q \notin Tids
    BY <1>2, QueuesAssumption
  <2>3. joining[me] = None
    BY <1>11 DEF Sleep, Client, JoinInv, ClientJoinsNobody, me
  <2>4. joining' = [joining EXCEPT ![me] = IF q \in Tids THEN q ELSE None]
    BY <1>2, <1>11, <2>2, <2>3 DEF Sleep
  <2>5. waitq' = [waitq EXCEPT ![q] = Append(@, me)] /\ resuming' = TRUE
    BY <2>1 DEF thread_sleep, thread_yield, SwitchTo
  <2> QED
    BY <1>1, <2>2, <2>4, <2>5, JoinSleeps
<1>12. CASE WaitExited
  BY <1>1, <1>12, JoinAfterReap DEF WaitExited
<1>13. CASE WaitAlive
  <2>1. CASE Stop("assert_exit")
    <3>1. waitq' = waitq /\ joining' = joining /\ UNCHANGED <<running_thread, resuming>>
      BY <2>1 DEF Stop, sched, queues
    <3> QED
      BY <1>1, <3>1, JoinKept
  <2>2. ASSUME NEW t \in Tids, NEW tc, thread_sleep(tc, t),
               joining' = [joining EXCEPT ![me] = t]
        PROVE  JoinInv'
    <3>1. t \in WaitQueues /\ joining' = [joining EXCEPT ![me] = IF t \in Tids THEN t ELSE None]
      BY <1>2, <2>2
    <3>2. waitq' = [waitq EXCEPT ![t] = Append(@, me)] /\ resuming' = TRUE
      BY <2>2 DEF thread_sleep, thread_yield, SwitchTo
    <3> QED
      BY <1>1, <3>1, <3>2, JoinSleeps
  <2> QED
    BY <1>13, <2>1, <2>2 DEF WaitAlive
<1> QED
  BY <1>3, <1>4, <1>5, <1>6, <1>7, <1>8, <1>9, <1>10, <1>11, <1>12, <1>13 DEF Next, Resume, Over

LEMMA InitJoin == Init => JoinInv
<1> SUFFICES ASSUME Init PROVE JoinInv
  OBVIOUS
<1>1. \A q \in WaitQueues : Range(waitq[q]) = {}
  BY DEF Init, Range
<1>2. SleepsWhereItJoins
  BY <1>1 DEF SleepsWhereItJoins, WaitQueues
<1>3. ClientJoinsNobody
  BY MaxThreadsAssumption DEF ClientJoinsNobody, Init, Tids
<1> QED
  BY <1>2, <1>3, InitInv DEF JoinInv

(***************************************************************************)
(* No wakeup is lost: a thread in thread_wait whose target has exited does *)
(* not sleep any more, in whatever order the exits, kills and wakeups came *)
(* (cleanup_before_zombifying).                                            *)
(***************************************************************************)
THEOREM WakeupsNotLost == ASSUME None \notin ExitCodes PROVE Spec => []NoLostWakeup
<1>1. JoinInv /\ [Next]_vars => JoinInv'
  BY NextJoin
<1>2. ASSUME JoinInv PROVE NoLostWakeup
  <2> SUFFICES ASSUME NEW t \in Tids, NEW u \in Tids, joining[t] = u, t \in Asleep
               PROVE  Alive(u)
    BY DEF NoLostWakeup
  <2>1. PICK q \in WaitQueues : t \in Range(waitq[q])
    BY AsleepIff
  <2>2. q = u
    BY <1>2, <2>1, NoneIsNoTid DEF JoinInv, SleepsWhereItJoins, WaitQueues
  <2>3. waitq[u] # <<>>
    BY <2>1, <2>2 DEF Range
  <2> QED
    BY <1>2, <2>3 DEF JoinInv, IInv, WaiterHasTarget
<1>3. JoinInv => NoLostWakeup
  BY <1>2
<1> QED
  BY <1>1, <1>3, InitJoin, PTL DEF Spec

-----------------------------------------------------------------------------
\* Wakeups, exits, the disposal of another thread and sleeping keep the flag.
LEMMA AwokenKilled ==
  ASSUME NEW tc \in [Tids -> TCB], NEW S, NEW t \in Tids
  PROVE  Awoken(tc, S)[t] \in TCB /\ Awoken(tc, S)[t].killed = tc[t].killed
<1>1. tc[t] \in TCB
  OBVIOUS
<1>2. \/ Awoken(tc, S)[t] = tc[t]
      \/ Awoken(tc, S)[t] = [tc[t] EXCEPT !.sleeping = FALSE, !.waiting_on = None]
  BY DEF Awoken
<1>3. CASE Awoken(tc, S)[t] = [tc[t] EXCEPT !.sleeping = FALSE, !.waiting_on = None]
  BY <1>1, <1>3, WokenRecord
<1> QED
  BY <1>1, <1>2, <1>3

LEMMA ExitKeepsKills ==
  ASSUME IInv, NEW code \in Int, thread_exit(Cleaned, code)
  PROVE  KeepsKills
<1> SUFFICES ASSUME NEW t \in Tids, tcb[t].killed PROVE tcb'[t].killed
  BY DEF KeepsKills
<1>1. CASE tcb' = tcb
  BY <1>1
<1>2. ASSUME NEW S, tcb' = [Awoken(Cleaned, S) EXCEPT ![me].exit = code]
      PROVE  tcb'[t].killed
  <2> DEFINE tc == Awoken(Cleaned, S)
  <2>1. Cleaned \in [Tids -> TCB] /\ Cleaned[t].killed
    BY CleanedFacts
  <2>2. tc[t] \in TCB /\ tc[t].killed
    BY <2>1, AwokenKilled
  <2>3. tc = [u \in Tids |-> tc[u]]
    BY DEF Awoken
  <2> HIDE DEF tc
  <2>4. tcb' = [tc EXCEPT ![me].exit = code]
    BY <1>2 DEF tc
  <2>5. tcb'[t] = tc[t] \/ tcb'[t] = [tc[t] EXCEPT !.exit = code]
    BY <2>3, <2>4
  <2> QED
    BY <2>2, <2>5 DEF TCB
<1> QED
  BY <1>1, <1>2 DEF thread_exit, Stop

LEMMA ReapKeepsKills ==
  ASSUME IInv, NEW t, Reap(Cleaned, t)
  PROVE  KeepsKills
<1>1. CASE tcb' = tcb
  BY <1>1 DEF KeepsKills
<1>2. CASE ReapOutcome(Cleaned, t) = "run" /\ tcb' = [Cleaned EXCEPT ![t] = NewThread(0, "none")]
  <2>1. t \in Tids /\ Cleaned[t].exit # None
    BY <1>2 DEF ReapOutcome, IInv, TypeOK
  <2>2. ~Alive(t)
    BY <2>1, CleanedFacts DEF Alive
  <2> QED
    BY <1>2, <2>2, CleanedFacts DEF KeepsKills
<1> QED
  BY <1>1, <1>2 DEF Reap, Stop

LEMMA SleepKeepsKills ==
  ASSUME IInv, NEW tc \in [Tids -> TCB], NEW q, thread_sleep(tc, q),
         \A t \in Tids : tc[t].killed = tcb[t].killed
  PROVE  KeepsKills
<1> SUFFICES ASSUME NEW t \in Tids, tcb[t].killed PROVE tcb'[t].killed
  BY DEF KeepsKills
<1>1. tcb' = [tc EXCEPT ![me].sleeping = TRUE]
  BY DEF thread_sleep
<1>2. tcb'[t] = tc[t] \/ tcb'[t] = [tc[t] EXCEPT !.sleeping = TRUE]
  BY <1>1
<1>3. tc[t] \in TCB /\ tc[t].killed
  OBVIOUS
<1> QED
  BY <1>2, <1>3 DEF TCB

\* So does every other step.
LEMMA NextKeepsKills ==
  ASSUME IInv, None \notin ExitCodes, [Next]_vars
  PROVE  KeepsKills
<1>1. tcb \in [Tids -> TCB] /\ me \in Tids
  BY DEF IInv, TypeOK, me
<1>2. CASE ResumeKilled
  <2>1. -SIGKILL \in Int
    BY DEF SIGKILL
  <2> QED
    BY <1>2, <2>1, ExitKeepsKills DEF ResumeKilled
<1>3. CASE ResumeClient
  BY <1>3, CleanedFacts DEF ResumeClient, KeepsKills
<1>4. CASE ResumeJoin
  BY <1>4, ReapKeepsKills DEF ResumeJoin
<1>5. CASE UNCHANGED tcb
  BY <1>5 DEF KeepsKills
<1>6. CASE Create
  <2>1. CASE available_threads # <<>>
              /\ tcb' = [tcb EXCEPT ![Head(available_threads)] = NewThread(me, "live")]
    <3> DEFINE n == Head(available_threads)
    <3>1. n \notin created_threads
      BY <2>1, HeadTaken DEF IInv, TypeOK, TidPartition
    <3> HIDE DEF n
    <3>2. \A t \in Tids : t # n => tcb'[t] = tcb[t]
      BY <1>1, <2>1 DEF n
    <3> QED
      BY <3>1, <3>2 DEF KeepsKills, Alive
  <2> QED
    BY <1>5, <1>6, <2>1 DEF Create, Stop
<1>7. CASE Exit
  <2>1. tcb = Cleaned
    BY <1>7, CleanedFacts DEF Exit, Client
  <2> QED
    BY <1>7, <2>1, ExitKeepsKills, ClientAssumption DEF Exit
<1>8. CASE Kill
  <2>1. PICK S, v : tcb' = [Awoken(tcb, S) EXCEPT ![v].killed = TRUE]
    BY <1>8 DEF Kill
  <2> DEFINE tc == Awoken(tcb, S)
  <2>2. \A t \in Tids : tc[t] \in TCB /\ tc[t].killed = tcb[t].killed
    BY <1>1, AwokenKilled
  <2>3. tc = [u \in Tids |-> tc[u]]
    BY DEF Awoken
  <2> HIDE DEF tc
  <2>4. \A t \in Tids : tcb'[t] = tc[t] \/ tcb'[t] = [tc[t] EXCEPT !.killed = TRUE]
    BY <2>1, <2>3 DEF tc
  <2>5. \A r \in TCB : [r EXCEPT !.killed = TRUE].killed
    BY DEF TCB
  <2> QED
    BY <2>2, <2>4, <2>5 DEF KeepsKills
<1>9. CASE Sleep
  BY <1>1, <1>9, SleepKeepsKills DEF Sleep
<1>10. CASE WakeupOne \/ WakeupAll
  <2>1. PICK S : tcb' = Awoken(tcb, S)
    BY <1>10 DEF WakeupOne, WakeupAll
  <2>2. \A t \in Tids : Awoken(tcb, S)[t].killed = tcb[t].killed
    BY <1>1, AwokenKilled
  <2> QED
    BY <2>1, <2>2 DEF KeepsKills
<1>11. CASE WaitExited
  <2>1. tcb = Cleaned
    BY <1>11, CleanedFacts DEF WaitExited, Client
  <2> QED
    BY <1>11, <2>1, ReapKeepsKills DEF WaitExited
<1>12. CASE WaitAlive
  <2>1. CASE Stop("assert_exit")
    BY <2>1, <1>5 DEF Stop
  <2>2. ASSUME NEW t \in Tids,
               thread_sleep([tcb EXCEPT ![me].waiting_on = t, ![t].wq = TRUE], t)
        PROVE  KeepsKills
    <3> DEFINE tw == [tcb EXCEPT ![me].waiting_on = t]
               tc == [tw EXCEPT ![t].wq = TRUE]
    <3>1. \A r \in TCB : /\ [r EXCEPT !.waiting_on = t] \in TCB
                         /\ [r EXCEPT !.waiting_on = t].killed = r.killed
      BY DEF TCB
    <3>2. \A r \in TCB : [r EXCEPT !.wq = TRUE] \in TCB /\ [r EXCEPT !.wq = TRUE].killed = r.killed
      BY DEF TCB
    <3>3. tw \in [Tids -> TCB] /\ \A u \in Tids : tw[u].killed = tcb[u].killed
      BY <1>1, <3>1
    <3> HIDE DEF tw
    <3>4. tc \in [Tids -> TCB] /\ \A u \in Tids : tc[u].killed = tw[u].killed
      BY <3>2, <3>3
    <3> HIDE DEF tc
    <3>5. thread_sleep(tc, t)
      BY <2>2 DEF tc, tw
    <3> QED
      BY <3>3, <3>4, <3>5, SleepKeepsKills
  <2> QED
    BY <1>12, <2>1, <2>2 DEF WaitAlive
<1>13. CASE Preempt \/ Yield \/ QueueCreate \/ QueueDestroy \/ Over \/ UNCHANGED vars
  BY <1>5, <1>13 DEF Preempt, Yield, QueueCreate, QueueDestroy, Over, vars, Stop
<1> QED
  BY <1>2, <1>3, <1>4, <1>6, <1>7, <1>8, <1>9, <1>10, <1>11, <1>12, <1>13 DEF Next, Resume

(***************************************************************************)
(* A kill is not forgotten: no wakeup, wait or switch clears the killed    *)
(* flag of a thread that has not exited.  With KilledNeverRuns it leaves   *)
(* the thread nothing but to exit.                                         *)
(***************************************************************************)
THEOREM KillsRemembered == ASSUME None \notin ExitCodes PROVE Spec => StaysKilled
<1>1. IInv /\ [Next]_vars => [KeepsKills]_vars
  BY NextKeepsKills
<1> QED
  BY <1>1, Invariance, PTL DEF Spec, StaysKilled
=============================================================================
