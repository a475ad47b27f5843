----------------------- MODULE CooperativeThreadsProofs -----------------------
(***************************************************************************)
(* The safety invariants of CooperativeThreads, for any number of threads  *)
(* and stacks and any client, and the life cycle it implements.            *)
(***************************************************************************)
EXTENDS CooperativeThreads, DataLemmas, SequenceTheorems, TLAPS

(***************************************************************************)
(* The inductive invariant: the invariants of the run coop, which need     *)
(* each other, and that the thread that is inside thread_yield has a       *)
(* context that was saved there.                                           *)
(***************************************************************************)
InsideYield == pc \in {"landed", "check"} => context[code] # Start

CoopInv == /\ CoopTypeOK /\ TidsAccounted /\ ReadyOnce /\ StacksSafe
           /\ KilledRunsOnlyAfterExit /\ InsideYield

\* None and THREAD_ANY are no tids; Start is a context.
LEMMA Constants ==
  /\ None \notin Tids /\ ANY \notin Tids /\ None # ANY
  /\ Start \in Contexts
  BY DEF None, ANY, Tids, Start, Contexts

-----------------------------------------------------------------------------
(***************************************************************************)
(* The queues after a switch and after an exit.                            *)
(***************************************************************************)

\* Swap exchanges the running thread and a ready one.
LEMMA SwapStep ==
  ASSUME CoopTypeOK, ReadyOnce, NEW i \in 1 .. Len(ready_queue), Swap(i)
  PROVE  /\ running_thread' \in Ready
         /\ ready_queue' \in Seq(Tids)
         /\ IsInjective(ready_queue')
         /\ Ready' = (Ready \ {running_thread'}) \cup {me}
<1> DEFINE r == RemovedAt(ready_queue, i)
<1>1. r = remove_from_queue(ready_queue, i)
  BY DEF RemovedAt, remove_from_queue
<1>2. ready_queue \in Seq(Tids) /\ IsInjective(ready_queue) /\ me \in Tids /\ me \notin Ready
  BY DEF CoopTypeOK, ReadyOnce, me
<1>3. /\ r \in Seq(Tids) /\ IsInjective(r)
      /\ Range(r) = Ready \ {ready_queue[i]} /\ ready_queue[i] \in Ready
  BY <1>2, RemovedEntry DEF Ready
<1>4. ready_queue' = Append(r, me) /\ running_thread' = ready_queue[i]
  BY <1>1 DEF Swap
<1> HIDE DEF r
<1> QED
  BY <1>2, <1>3, <1>4, AppendedNew DEF Ready

\* The last ready thread runs; of the others at most the first one is lost.
LEMMA LeaveStep ==
  ASSUME CoopTypeOK, ReadyOnce, ready_queue # <<>>, LeaveQueue,
         running_thread' = ready_queue[Len(ready_queue)]
  PROVE  /\ running_thread' \in Ready
         /\ ready_queue' \in Seq(Tids)
         /\ IsInjective(ready_queue')
         /\ Ready' \subseteq Ready \ {running_thread'}
         /\ Len(ready_queue) = 1 => Ready = {running_thread'}
         /\ Len(ready_queue) >= 2 => Ready' = Ready \ {running_thread', Head(ready_queue)}
<1> DEFINE n == Len(ready_queue)
           r == RemovedAt(ready_queue, n)
           s == remove_from_queue(r, 0)
<1>1. ready_queue \in Seq(Tids) /\ IsInjective(ready_queue) /\ n \in Nat /\ n # 0 /\ n \in 1 .. n
  BY DEF CoopTypeOK, ReadyOnce
<1>2. /\ r \in Seq(Tids) /\ IsInjective(r) /\ Len(r) = n - 1
      /\ Range(r) = Ready \ {ready_queue[n]} /\ ready_queue[n] \in Ready
  <2>1. r = [j \in 1 .. n - 1 |-> IF j < n THEN ready_queue[j] ELSE ready_queue[j + 1]]
    BY DEF RemovedAt
  <2>2. Len(r) = n - 1
    BY <2>1, <1>1
  <2> QED
    BY <1>1, <2>2, RemovedEntry DEF Ready
<1>3. n # 1 => r # <<>> /\ Head(r) = Head(ready_queue)
  BY <1>1, <1>2 DEF RemovedAt
<1>4. ready_queue' = s /\ running_thread' = ready_queue[n]
  BY DEF LeaveQueue, RemovedAt, remove_from_queue
<1>5. s = [j \in 1 .. Len(r) - 1 |-> IF j < 0 THEN r[j] ELSE r[j + 1]]
  BY DEF remove_from_queue
<1> HIDE DEF n, r, s
<1>6. CASE n = 1
  <2>1. s = <<>>
    BY <1>2, <1>5, <1>6
  <2>2. Range(s) = {} /\ IsInjective(s) /\ s \in Seq(Tids)
    BY <2>1 DEF Range, IsInjective
  <2>3. Ready = {running_thread'}
    <3>1. r = <<>>
      BY <1>2, <1>6, EmptySeq
    <3>2. Range(r) = {}
      BY <3>1 DEF Range
    <3> QED
      BY <3>2, <1>2, <1>4
  <2> QED
    BY <1>2, <1>4, <1>6, <2>2, <2>3 DEF Ready, n
<1>7. CASE n # 1
  <2>1. s = Tail(r)
    <3>1. /\ s \in Seq(Tids) /\ Len(s) = Len(r) - 1 /\ Len(r) \in Nat \ {0}
          /\ \A j \in 1 .. Len(s) : s[j] = r[j + 1]
      BY <1>1, <1>2, <1>5, <1>7
    <3>2. Tail(r) \in Seq(Tids) /\ Len(Tail(r)) = Len(r) - 1
          /\ \A j \in 1 .. Len(r) - 1 : Tail(r)[j] = r[j + 1]
      BY <1>2, <1>3, <1>7
    <3> QED
      BY <3>1, <3>2, SeqEqual
  <2>2. /\ s \in Seq(Tids) /\ IsInjective(s)
        /\ Range(s) = Range(r) \ {Head(ready_queue)}
    BY <1>2, <1>3, <1>7, <2>1, HeadTaken
  <2> QED
    BY <1>1, <1>2, <1>4, <1>7, <2>2 DEF Ready, n
<1> QED
  BY <1>6, <1>7

-----------------------------------------------------------------------------
(***************************************************************************)
(* One lemma per action.                                                   *)
(***************************************************************************)

\* What taking the first available tid leaves.
LEMMA TakeTidStep ==
  ASSUME CoopTypeOK, TidsAccounted, available_threads # <<>>, TakeTid
  PROVE  /\ available_threads' \in Seq(Tids)
         /\ IsInjective(available_threads')
         /\ Range(available_threads') = Range(available_threads) \ {Head(available_threads)}
         /\ Head(available_threads) \in Tids \ created_threads
         /\ num_threads_created' = MaxThreads - Len(available_threads')
         /\ num_threads_created' \in Int
<1>1. available_threads \in Seq(Tids) /\ IsInjective(available_threads)
  BY DEF CoopTypeOK, TidsAccounted
<1>2. available_threads' = Tail(available_threads)
  BY DEF TakeTid
<1>3. num_threads_created' = (MaxThreads - Len(available_threads)) + 1
  BY DEF TakeTid, TidsAccounted
<1>4. /\ available_threads' \in Seq(Tids) /\ IsInjective(available_threads')
      /\ Range(available_threads') = Range(available_threads) \ {Head(available_threads)}
      /\ Head(available_threads) \in Range(available_threads)
      /\ Head(available_threads) \in Tids
      /\ Len(available_threads') = Len(available_threads) - 1
  BY <1>1, <1>2, HeadTaken
<1>5. Len(available_threads) \in Nat
  BY <1>1
<1> QED
  BY <1>3, <1>4, <1>5, CoopMaxThreads DEF TidsAccounted

LEMMA CreateStep ==
  ASSUME CoopInv, Create
  PROVE  CoopInv'
<1> USE DEF CoopInv
<1> DEFINE t == Head(available_threads)
<1>1. /\ Client /\ available_threads # <<>> /\ TakeTid
      /\ UNCHANGED <<running_thread, zombie_stack_addr, zombie_tid, returning_from_exit, code, pc>>
  BY DEF Create, zombie
<1>2. PICK s \in Stacks \ heap :
        /\ heap' = heap \cup {s}
        /\ stack_addr' = [stack_addr EXCEPT ![t] = s]
        /\ killed' = [killed EXCEPT ![t] = FALSE]
        /\ context' = [context EXCEPT ![t] = Start]
        /\ created_threads' = created_threads \cup {t}
        /\ ready_queue' = Append(ready_queue, t)
  BY DEF Create
<1>3. /\ available_threads' \in Seq(Tids)
      /\ IsInjective(available_threads')
      /\ Range(available_threads') = Range(available_threads) \ {t}
      /\ t \in Tids \ created_threads
      /\ num_threads_created' = MaxThreads - Len(available_threads')
      /\ num_threads_created' \in Int
  BY <1>1, TakeTidStep
<1> HIDE DEF t
<1>4. /\ ready_queue' \in Seq(Tids) /\ IsInjective(ready_queue')
      /\ Ready' = Ready \cup {t}
  <2>1. ready_queue \in Seq(Tids) /\ IsInjective(ready_queue) /\ t \in Tids /\ t \notin Ready
    BY <1>3 DEF CoopTypeOK, ReadyOnce
  <2> QED
    BY <2>1, <1>2, AppendedNew DEF Ready
<1>5. CoopTypeOK'
  BY <1>1, <1>2, <1>3, <1>4, Constants DEF CoopTypeOK
<1>6. TidsAccounted'
  BY <1>2, <1>3 DEF TidsAccounted
<1>7. ReadyOnce'
  BY <1>1, <1>2, <1>3, <1>4 DEF ReadyOnce, me
<1>8. StacksSafe'
  <2>1. code' \in created_threads'
    BY <1>1, <1>2 DEF StacksSafe
  <2>2. zombie_stack_addr' \in heap' \cup {NoStack, Wild}
    BY <1>1, <1>2 DEF StacksSafe
  <2>3. stack_addr'[t] = s /\ \A u \in created_threads : stack_addr'[u] = stack_addr[u]
    BY <1>2, <1>3 DEF CoopTypeOK
  <2>4. s \in Stacks /\ s \notin heap /\ s # NoStack /\ s # Wild
    BY <1>2, CoopStacks
  <2>5. \A u \in created_threads : stack_addr[u] # s
    BY <2>4 DEF StacksSafe
  <2>6. s # zombie_stack_addr
    BY <2>4 DEF StacksSafe
  <2>7. ASSUME NEW u \in created_threads'
        PROVE  /\ stack_addr'[u] \in heap' \cup {NoStack, Wild}
               /\ stack_addr'[u] # NoStack =>
                    /\ stack_addr'[u] # zombie_stack_addr'
                    /\ \A v \in created_threads' : stack_addr'[v] = stack_addr'[u] => v = u
    <3>1. CASE u = t
      BY <3>1, <2>3, <2>5, <2>6, <1>1, <1>2
    <3>2. CASE u # t
      <4>1. u \in created_threads /\ stack_addr'[u] = stack_addr[u]
        BY <3>2, <2>3, <1>2
      <4> QED
        BY <4>1, <2>3, <2>5, <1>1, <1>2 DEF StacksSafe
    <3> QED
      BY <3>1, <3>2
  <2> QED
    BY <2>1, <2>2, <2>7 DEF StacksSafe
<1>9. KilledRunsOnlyAfterExit'
  <2>1. me' = me /\ me # t /\ me \in Tids
    BY <1>1, <1>3 DEF me, ReadyOnce, CoopTypeOK
  <2>2. killed'[me] = killed[me]
    BY <2>1, <1>2, <1>3 DEF CoopTypeOK
  <2> QED
    BY <2>1, <2>2, <1>1 DEF KilledRunsOnlyAfterExit
<1>10. InsideYield'
  BY <1>1 DEF InsideYield, Client
<1> QED
  BY <1>5, <1>6, <1>7, <1>8, <1>9, <1>10

LEMMA CreateNoMemoryStep ==
  ASSUME CoopInv, CreateNoMemory
  PROVE  CoopInv'
<1> USE DEF CoopInv
<1>1. /\ available_threads # <<>> /\ TakeTid
      /\ UNCHANGED <<running_thread, ready_queue, created_threads, killed, stack_addr, context,
                     zombie_stack_addr, zombie_tid, returning_from_exit, heap, code, pc>>
  BY DEF CreateNoMemory, queues, threads, zombie
<1>2. /\ available_threads' \in Seq(Tids)
      /\ IsInjective(available_threads')
      /\ Range(available_threads') \subseteq Range(available_threads)
      /\ num_threads_created' = MaxThreads - Len(available_threads')
      /\ num_threads_created' \in Int
  BY <1>1, TakeTidStep
<1>3. CoopTypeOK' /\ TidsAccounted'
  BY <1>1, <1>2 DEF CoopTypeOK, TidsAccounted
<1>4. ReadyOnce' /\ StacksSafe' /\ KilledRunsOnlyAfterExit' /\ InsideYield'
  BY <1>1 DEF ReadyOnce, StacksSafe, KilledRunsOnlyAfterExit, InsideYield, Ready, me
<1> QED
  BY <1>3, <1>4

LEMMA KillStep ==
  ASSUME CoopInv, Kill
  PROVE  CoopInv'
<1> USE DEF CoopInv
<1>1. PICK t \in created_threads \ {0, me} : killed' = [killed EXCEPT ![t] = TRUE]
  BY DEF Kill
<1>2. UNCHANGED <<running_thread, ready_queue, available_threads, created_threads,
                  num_threads_created, stack_addr, context, zombie_stack_addr, zombie_tid,
                  returning_from_exit, heap, code, pc>>
  BY DEF Kill, queues, tids, zombie
<1>3. CoopTypeOK' /\ killed'[me] = killed[me]
  BY <1>1, <1>2 DEF CoopTypeOK, me
<1>4. TidsAccounted' /\ ReadyOnce' /\ StacksSafe' /\ InsideYield'
  BY <1>2 DEF TidsAccounted, ReadyOnce, StacksSafe, InsideYield, Ready, me
<1>5. KilledRunsOnlyAfterExit'
  BY <1>2, <1>3 DEF KilledRunsOnlyAfterExit, me
<1> QED
  BY <1>3, <1>4, <1>5

LEMMA YieldStep ==
  ASSUME CoopInv, Yield
  PROVE  CoopInv'
<1> USE DEF CoopInv
<1>1. PICK i \in 1 .. Len(ready_queue) :
        /\ Swap(i)
        /\ \E want \in {ready_queue[i]} \cup (IF i = 1 THEN {ANY} ELSE {}) :
             context' = [context EXCEPT ![code] = [want |-> want, flag |-> FALSE, freed |-> FALSE]]
  BY DEF Yield
<1>2. /\ pc' = "landed"
      /\ UNCHANGED <<available_threads, created_threads, num_threads_created, killed, stack_addr,
                     zombie_stack_addr, zombie_tid, returning_from_exit, heap, code>>
  BY DEF Yield, tids, threads, zombie
<1>3. /\ running_thread' \in Ready /\ ready_queue' \in Seq(Tids) /\ IsInjective(ready_queue')
      /\ Ready' = (Ready \ {running_thread'}) \cup {me}
  BY <1>1, SwapStep
<1>4. context' \in [Tids -> Contexts] /\ context'[code] # Start
  <2>1. PICK want \in {ready_queue[i]} \cup (IF i = 1 THEN {ANY} ELSE {}) :
          context' = [context EXCEPT ![code] = [want |-> want, flag |-> FALSE, freed |-> FALSE]]
    BY <1>1
  <2>2. want \in Tids \cup {ANY}
    BY <2>1 DEF CoopTypeOK
  <2>3. [want |-> want, flag |-> FALSE, freed |-> FALSE] \in Contexts
    BY <2>2 DEF Contexts
  <2> QED
    BY <2>1, <2>2, <2>3, Constants DEF CoopTypeOK, Start
<1>5. CoopTypeOK'
  <2>1. Ready \subseteq Tids
    BY DEF ReadyOnce, CoopTypeOK
  <2> QED
    BY <2>1, <1>2, <1>3, <1>4 DEF CoopTypeOK
<1>6. ReadyOnce'
  BY <1>2, <1>3 DEF ReadyOnce, me
<1>7. TidsAccounted' /\ StacksSafe' /\ KilledRunsOnlyAfterExit' /\ InsideYield'
  BY <1>2, <1>4 DEF TidsAccounted, StacksSafe, KilledRunsOnlyAfterExit, InsideYield
<1> QED
  BY <1>5, <1>6, <1>7

\* The stack that is freed belongs to nobody, so the invariants on stacks stay.
LEMMA FreeStep ==
  ASSUME CoopTypeOK, StacksSafe, NEW next, FreeZombieStack(next),
         UNCHANGED <<created_threads, stack_addr, code>>
  PROVE  /\ StacksSafe'
         /\ zombie_stack_addr' \in Stacks \cup {NoStack, Wild}
         /\ heap' \subseteq Stacks
<1>1. zombie_stack_addr' = NoStack /\ heap' = heap \ {zombie_stack_addr}
  BY DEF FreeZombieStack
<1>2. ASSUME NEW t \in created_threads
      PROVE  /\ stack_addr[t] \in heap' \cup {NoStack, Wild}
             /\ stack_addr[t] # NoStack => stack_addr[t] # zombie_stack_addr'
  BY <1>1, CoopStacks DEF StacksSafe, CoopTypeOK
<1> QED
  BY <1>1, <1>2 DEF StacksSafe, CoopTypeOK

\* The steps after getcontext that leave the queues alone.
LEMMA LandStep ==
  ASSUME CoopInv, Land \/ LandAlone \/ LandInvalid
  PROVE  CoopInv'
<1> USE DEF CoopInv
<1>1. UNCHANGED <<running_thread, ready_queue, available_threads, created_threads,
                  num_threads_created, killed, stack_addr, context, returning_from_exit, code>>
  BY DEF Land, LandAlone, LandInvalid, queues, tids, threads
<1>2. zombie_tid' \in {zombie_tid, None}
  BY DEF Land, LandAlone, LandInvalid
<1>3. PICK next \in {"check", "client"} :
        FreeZombieStack(next) /\ (next = "client" => returning_from_exit)
  BY DEF Land, LandAlone, LandInvalid
<1>4. /\ StacksSafe' /\ heap' \subseteq Stacks
      /\ zombie_stack_addr' \in Stacks \cup {NoStack, Wild}
  BY <1>1, <1>3, FreeStep
<1>5. pc' \in {"check", "client", "wild"} /\ (pc' = "client" => returning_from_exit)
  BY <1>3 DEF FreeZombieStack
<1>6. CoopTypeOK'
  BY <1>1, <1>2, <1>4, <1>5 DEF CoopTypeOK
<1>7. TidsAccounted' /\ ReadyOnce'
  BY <1>1 DEF TidsAccounted, ReadyOnce, Ready, me
<1>8. KilledRunsOnlyAfterExit'
  BY <1>1, <1>5 DEF KilledRunsOnlyAfterExit
<1>9. InsideYield'
  BY <1>1, <1>5 DEF InsideYield, Land, LandAlone, LandInvalid
<1> QED
  BY <1>4, <1>6, <1>7, <1>8, <1>9

LEMMA LandAgainStep ==
  ASSUME CoopInv, LandAgain
  PROVE  CoopInv'
<1> USE DEF CoopInv
<1>1. UNCHANGED <<available_threads, created_threads, num_threads_created, killed, stack_addr,
                  zombie_tid, code>>
  BY DEF LandAgain, tids, threads
<1>2. /\ FreeZombieStack("check") /\ Swap(1) /\ returning_from_exit' = FALSE
      /\ ready_queue # <<>> /\ pc = "landed"
      /\ context' = [context EXCEPT ![code].freed = FALSE]
  BY DEF LandAgain
<1>3. 1 \in 1 .. Len(ready_queue)
  BY <1>2 DEF CoopTypeOK
<1>4. /\ running_thread' \in Ready /\ ready_queue' \in Seq(Tids) /\ IsInjective(ready_queue')
      /\ Ready' = (Ready \ {running_thread'}) \cup {me}
  BY <1>2, <1>3, SwapStep
<1>5. /\ StacksSafe' /\ heap' \subseteq Stacks
      /\ zombie_stack_addr' \in Stacks \cup {NoStack, Wild}
  BY <1>1, <1>2, FreeStep
<1>6. pc' \in {"check", "wild"}
  BY <1>2 DEF FreeZombieStack
<1>7. running_thread' \in Tids
  BY <1>4 DEF ReadyOnce, CoopTypeOK
<1>12. context' \in [Tids -> Contexts] /\ context'[code] # Start
  <2>1. /\ context \in [Tids -> Contexts] /\ code \in Tids
        /\ context[code] \in [want : Tids \cup {ANY}, flag : BOOLEAN, freed : BOOLEAN]
    BY <1>2 DEF InsideYield, CoopTypeOK, Contexts
  <2>2. [context[code] EXCEPT !.freed = FALSE] \in [want : Tids \cup {ANY}, flag : BOOLEAN, freed : BOOLEAN]
    BY <2>1
  <2> QED
    BY <1>2, <2>1, <2>2, Constants DEF Contexts, Start
<1>8. CoopTypeOK'
  BY <1>1, <1>2, <1>4, <1>5, <1>6, <1>7, <1>12 DEF CoopTypeOK
<1>9. TidsAccounted'
  BY <1>1 DEF TidsAccounted
<1>10. ReadyOnce'
  BY <1>1, <1>4 DEF ReadyOnce, me
<1>11. KilledRunsOnlyAfterExit' /\ InsideYield'
  BY <1>1, <1>6, <1>12 DEF KilledRunsOnlyAfterExit, InsideYield
<1> QED
  BY <1>5, <1>8, <1>9, <1>10, <1>11

LEMMA SwitchAwayStep ==
  ASSUME CoopInv, SwitchAway
  PROVE  CoopInv'
<1> USE DEF CoopInv
<1>1. /\ ~killed[me] /\ code' = me /\ pc' \in {"client", "landed"}
      /\ context' = [context EXCEPT ![code].flag = TRUE]
      /\ pc' = "landed" => context'[me] # Start
      /\ pc = "check"
  BY DEF SwitchAway, SetContext
<1>2. UNCHANGED <<running_thread, ready_queue, available_threads, created_threads,
                  num_threads_created, killed, stack_addr, zombie_stack_addr, zombie_tid,
                  returning_from_exit, heap>>
  BY DEF SwitchAway, queues, tids, threads, zombie
<1>3. context' \in [Tids -> Contexts]
  BY <1>1 DEF CoopTypeOK, Contexts, InsideYield
<1>4. CoopTypeOK'
  BY <1>1, <1>2, <1>3 DEF CoopTypeOK, me
<1>5. TidsAccounted' /\ ReadyOnce'
  BY <1>2 DEF TidsAccounted, ReadyOnce, Ready, me
<1>6. StacksSafe'
  BY <1>1, <1>2 DEF StacksSafe, ReadyOnce, me
<1>7. KilledRunsOnlyAfterExit' /\ InsideYield'
  BY <1>1, <1>2 DEF KilledRunsOnlyAfterExit, InsideYield, me
<1> QED
  BY <1>4, <1>5, <1>6, <1>7

\* The steps that only move on: the return of a call, and the end of the process.
LEMMA ReturnStep ==
  ASSUME CoopInv, Return \/ SwitchToFreed \/ exit_process
  PROVE  CoopInv'
<1> USE DEF CoopInv
<1>1. UNCHANGED <<running_thread, ready_queue, available_threads, created_threads,
                  num_threads_created, killed, stack_addr, context, zombie_stack_addr,
                  zombie_tid, returning_from_exit, heap, code>>
  BY DEF Return, SwitchToFreed, exit_process, queues, tids, threads, zombie
<1>2. pc' \in {"client", "exited", "wild"} /\ (pc' = "client" => ~killed[me])
  BY DEF Return, SwitchToFreed, exit_process
<1>3. CoopTypeOK' /\ TidsAccounted' /\ ReadyOnce' /\ StacksSafe'
  BY <1>1, <1>2 DEF CoopTypeOK, TidsAccounted, ReadyOnce, StacksSafe, Ready, me
<1>4. KilledRunsOnlyAfterExit' /\ InsideYield'
  BY <1>1, <1>2 DEF KilledRunsOnlyAfterExit, InsideYield, me
<1> QED
  BY <1>3, <1>4

LEMMA ExitStep ==
  ASSUME CoopInv, thread_exit, code = me \/ pc = "check"
  PROVE  CoopInv'
<1> USE DEF CoopInv
<1>1. /\ ready_queue # <<>> /\ zombie_tid' = me /\ GiveBack /\ LeaveQueue /\ KeepStack
      /\ created_threads' = created_threads \ {me}
      /\ running_thread' = ready_queue[Len(ready_queue)]
      /\ returning_from_exit' = TRUE
      /\ code' = running_thread' /\ pc' \in {"client", "landed"}
      /\ pc' = "landed" => context[running_thread'] # Start
      /\ killed' = [killed EXCEPT ![me] = FALSE]
      /\ stack_addr' = [stack_addr EXCEPT ![me] = NoStack]
      /\ context' = [context EXCEPT ![code].freed = TRUE, ![me] = Start]
      /\ heap' = heap
  BY DEF thread_exit, SetContext
<1>11. context' \in [Tids -> Contexts] /\ \A t \in Tids \ {me} : context[t] # Start => context'[t] # Start
  <2>1. context \in [Tids -> Contexts] /\ code \in Tids /\ me \in Tids
    BY DEF CoopTypeOK, me
  <2>2. CASE code = me
    BY <1>1, <2>1, <2>2, Constants
  <2>3. CASE code # me
    <3>1. context[code] \in [want : Tids \cup {ANY}, flag : BOOLEAN, freed : BOOLEAN]
      BY <2>1, <2>3 DEF InsideYield, Contexts
    <3>2. [context[code] EXCEPT !.freed = TRUE] \in [want : Tids \cup {ANY}, flag : BOOLEAN, freed : BOOLEAN]
      BY <3>1
    <3>3. [context[code] EXCEPT !.freed = TRUE] \in Contexts \ {Start}
      BY <3>1, <3>2, Constants DEF Contexts, Start
    <3> QED
      BY <1>1, <2>1, <2>3, <3>3, Constants
  <2> QED
    BY <2>2, <2>3
<1>2. /\ running_thread' \in Ready /\ ready_queue' \in Seq(Tids) /\ IsInjective(ready_queue')
      /\ Ready' \subseteq Ready \ {running_thread'}
  BY <1>1, LeaveStep
<1>3. me \in created_threads /\ me \in Tids /\ me \notin Ready /\ Ready \subseteq created_threads
  BY DEF ReadyOnce, CoopTypeOK, me
<1>4. /\ available_threads' \in Seq(Tids) /\ IsInjective(available_threads')
      /\ Range(available_threads') = Range(available_threads) \cup {me}
      /\ Len(available_threads') = Len(available_threads) + 1
      /\ Len(available_threads) \in Nat
  <2>1. /\ available_threads \in Seq(Tids) /\ IsInjective(available_threads)
        /\ me \notin Range(available_threads)
    BY <1>3 DEF CoopTypeOK, TidsAccounted
  <2>2. available_threads' = Append(available_threads, me)
    BY <1>1 DEF GiveBack
  <2> QED
    BY <1>3, <2>1, <2>2, AppendedNew
<1>5. CoopTypeOK'
  <2>1. running_thread' \in Tids
    BY <1>2, <1>3 DEF CoopTypeOK
  <2>2. num_threads_created' \in Int
    BY <1>1 DEF GiveBack, CoopTypeOK
  <2>3. zombie_stack_addr' \in Stacks \cup {NoStack, Wild}
    BY <1>1, <1>3 DEF KeepStack, CoopTypeOK
  <2>4. /\ killed' \in [Tids -> BOOLEAN]
        /\ stack_addr' \in [Tids -> Stacks \cup {NoStack, Wild}]
    BY <1>1 DEF CoopTypeOK
  <2> QED
    BY <1>11, <1>1, <1>2, <1>3, <1>4, <2>1, <2>2, <2>3, <2>4 DEF CoopTypeOK
<1>6. TidsAccounted'
  <2>1. num_threads_created' = (MaxThreads - Len(available_threads)) - 1
    BY <1>1 DEF GiveBack, TidsAccounted
  <2>2. num_threads_created' = MaxThreads - Len(available_threads')
    BY <1>4, <2>1, CoopMaxThreads
  <2> QED
    BY <1>1, <1>4, <2>2 DEF TidsAccounted
<1>7. ReadyOnce'
  BY <1>1, <1>2, <1>3 DEF ReadyOnce, me
<1>8. StacksSafe'
  <2>1. code' \in created_threads'
    BY <1>1, <1>2, <1>3
  <2>2. zombie_stack_addr' = stack_addr[me]
    BY <1>1 DEF KeepStack
  <2>3. \A u \in created_threads' : u \in created_threads /\ u # me /\ stack_addr'[u] = stack_addr[u]
    BY <1>1 DEF CoopTypeOK
  <2>4. \A u \in created_threads' : stack_addr[u] # NoStack => stack_addr[u] # stack_addr[me]
    BY <1>3, <2>3 DEF StacksSafe
  <2> QED
    BY <1>1, <1>3, <2>1, <2>2, <2>3, <2>4 DEF StacksSafe
<1>9. KilledRunsOnlyAfterExit'
  BY <1>1 DEF KilledRunsOnlyAfterExit
<1>10. InsideYield'
  <2>1. running_thread' \in Tids \ {me}
    BY <1>2, <1>3 DEF CoopTypeOK
  <2> QED
    BY <1>1, <1>11, <2>1 DEF InsideYield
<1> QED
  BY <1>5, <1>6, <1>7, <1>8, <1>9, <1>10

-----------------------------------------------------------------------------
(***************************************************************************)
(* The invariant.                                                          *)
(***************************************************************************)
LEMMA CoopInitInv == Init => CoopInv
<1> SUFFICES ASSUME Init PROVE CoopInv
  OBVIOUS
<1> DEFINE av == [i \in 1 .. MaxThreads - 1 |-> i]
<1>1. av \in Seq(Tids) /\ Len(av) = MaxThreads - 1 /\ \A i \in 1 .. MaxThreads - 1 : av[i] = i
  BY CoopMaxThreads DEF Tids
<1>2. available_threads = av
  BY DEF Init
<1> HIDE DEF av
<1>3. 0 \in Tids
  BY CoopMaxThreads DEF Tids
<1>4. PICK s \in {NoStack, Wild} : stack_addr = [t \in Tids |-> IF t = 0 THEN s ELSE NoStack]
  BY DEF Init
<1>5. Range(<<>>) = {} /\ IsInjective(<<>>) /\ <<>> \in Seq(Tids)
  BY DEF Range, IsInjective
<1>6. CoopTypeOK
  BY <1>1, <1>2, <1>3, <1>4, <1>5, Constants DEF Init, CoopTypeOK
<1>7. TidsAccounted
  <2>1. Range(av) = {av[i] : i \in 1 .. MaxThreads - 1} /\ IsInjective(av)
    BY <1>1, RangeSeq
  <2>2. 0 \notin Range(av)
    BY <1>1, <2>1
  <2>3. num_threads_created = 1 /\ created_threads = {0}
    BY DEF Init
  <2> QED
    BY <1>1, <1>2, <2>1, <2>2, <2>3, CoopMaxThreads DEF TidsAccounted
<1>8. ReadyOnce
  BY <1>5 DEF Init, ReadyOnce, Ready, me
<1>9. StacksSafe
  BY <1>3, <1>4, CoopStacks DEF Init, StacksSafe
<1>10. KilledRunsOnlyAfterExit /\ InsideYield
  BY <1>3 DEF Init, KilledRunsOnlyAfterExit, InsideYield, me
<1> QED
  BY <1>6, <1>7, <1>8, <1>9, <1>10 DEF CoopInv

LEMMA CoopNextInv ==
  ASSUME CoopInv, [Next]_vars
  PROVE  CoopInv'
<1>1. CASE Create
  BY <1>1, CreateStep
<1>2. CASE CreateNoMemory
  BY <1>2, CreateNoMemoryStep
<1>3. CASE Kill
  BY <1>3, KillStep
<1>4. CASE Yield
  BY <1>4, YieldStep
<1>5. CASE Exit
  BY <1>5, ExitStep, ReturnStep DEF Exit, Client
<1>6. CASE Library
  BY <1>6, LandStep, LandAgainStep, SwitchAwayStep, ReturnStep, ExitStep DEF Library, ExitKilled
<1>7. CASE UNCHANGED vars
  <2> USE <1>7 DEF vars, queues, tids, threads, zombie, CoopInv
  <2>1. CoopTypeOK' /\ TidsAccounted'
    BY DEF CoopTypeOK, TidsAccounted
  <2>2. ReadyOnce' /\ StacksSafe' /\ KilledRunsOnlyAfterExit' /\ InsideYield'
    BY DEF ReadyOnce, StacksSafe, KilledRunsOnlyAfterExit, InsideYield, Ready, me
  <2> QED
    BY <2>1, <2>2
<1> QED
  BY <1>1, <1>2, <1>3, <1>4, <1>5, <1>6, <1>7 DEF Next, Over

\* The invariant holds in every reachable state, for any client.
THEOREM CoopInvariance == Spec => []CoopInv
<1>1. CoopInv /\ [Next]_vars => CoopInv'
  BY CoopNextInv
<1> QED
  BY <1>1, CoopInitInv, PTL DEF Spec

(***************************************************************************)
(* Every variable has its type: the queues hold tids only, never the       *)
(* filler of the arrays.                                                   *)
(***************************************************************************)
THEOREM CoopTypesCorrect == Spec => []CoopTypeOK
<1>1. CoopInv => CoopTypeOK
  BY DEF CoopInv
<1> QED
  BY <1>1, CoopInvariance, PTL

(***************************************************************************)
(* thread_create never hands out the filler of available_threads, nor a    *)
(* tid that is in use.                                                     *)
(***************************************************************************)
THEOREM TidsAlwaysAccounted == Spec => []TidsAccounted
<1>1. CoopInv => TidsAccounted
  BY DEF CoopInv
<1> QED
  BY <1>1, CoopInvariance, PTL

(***************************************************************************)
(* No freed thread is ready or runs, and none is ready twice.              *)
(***************************************************************************)
THEOREM ReadyThreadsExist == Spec => []ReadyOnce
<1>1. CoopInv => ReadyOnce
  BY DEF CoopInv
<1> QED
  BY <1>1, CoopInvariance, PTL

(***************************************************************************)
(* No thread, not even the one that executes another one's exit, is on a   *)
(* stack that has been freed or is about to be.                            *)
(***************************************************************************)
THEOREM StacksAlwaysSafe == Spec => []StacksSafe
<1>1. CoopInv => StacksSafe
  BY DEF CoopInv
<1> QED
  BY <1>1, CoopInvariance, PTL

(***************************************************************************)
(* Only a thread_exit lets a killed thread back into client code.          *)
(***************************************************************************)
THEOREM KilledHeldOtherwise == Spec => []KilledRunsOnlyAfterExit
<1>1. CoopInv => KilledRunsOnlyAfterExit
  BY DEF CoopInv
<1> QED
  BY <1>1, CoopInvariance, PTL

-----------------------------------------------------------------------------
(***************************************************************************)
(* Steps.                                                                  *)
(***************************************************************************)

\* The steps that exchange the running thread and a ready one.
LEMMA SwapActions ==
  ASSUME CoopInv, Yield \/ LandAgain
  PROVE  /\ running_thread' \in Ready
         /\ Ready' = (Ready \ {running_thread'}) \cup {me}
         /\ created_threads' = created_threads
<1>1. PICK i \in 1 .. Len(ready_queue) : Swap(i)
  <2>1. CASE Yield
    BY <2>1 DEF Yield
  <2>2. CASE LandAgain
    <3>1. Swap(1) /\ ready_queue # <<>> /\ ready_queue \in Seq(Tids)
      BY <2>2 DEF LandAgain, CoopInv, CoopTypeOK
    <3>2. 1 \in 1 .. Len(ready_queue)
      BY <3>1
    <3> QED
      BY <3>1, <3>2
  <2> QED
    BY <2>1, <2>2
<1>2. created_threads' = created_threads
  BY DEF Yield, LandAgain, tids
<1> QED
  BY <1>1, <1>2, SwapStep DEF CoopInv

\* The steps that leave the queue, the running thread and the threads alone.
LEMMA QuietActions ==
  ASSUME Kill \/ CreateNoMemory \/ Land \/ LandAlone \/ LandInvalid \/ SwitchAway \/ SwitchToFreed
           \/ Return \/ exit_process \/ UNCHANGED vars
  PROVE  UNCHANGED <<running_thread, ready_queue, created_threads>>
  BY DEF Kill, CreateNoMemory, Land, LandAlone, LandInvalid, SwitchAway, SwitchToFreed, Return,
         exit_process, vars, queues, tids

\* thread_exit.
LEMMA ExitActions ==
  ASSUME CoopInv, thread_exit
  PROVE  /\ running_thread' \in Ready
         /\ created_threads' = created_threads \ {me}
         /\ Len(ready_queue) = 1 => Ready = {running_thread'}
         /\ Len(ready_queue) >= 2 => Ready' = Ready \ {running_thread', Head(ready_queue)}
         /\ Len(ready_queue) \in Nat \ {0}
<1>1. /\ ready_queue # <<>> /\ LeaveQueue
      /\ running_thread' = ready_queue[Len(ready_queue)]
      /\ created_threads' = created_threads \ {me}
      /\ ready_queue \in Seq(Tids)
  BY DEF thread_exit, CoopInv, CoopTypeOK
<1>2. Len(ready_queue) \in Nat \ {0}
  BY <1>1
<1> QED
  BY <1>1, <1>2, LeaveStep DEF CoopInv

\* thread_create.
LEMMA CreateActions ==
  ASSUME CoopInv, Create
  PROVE  /\ running_thread' = running_thread
         /\ Ready \subseteq Ready'
         /\ \E t \in Tids \ created_threads : created_threads' = created_threads \cup {t}
<1> DEFINE t == Head(available_threads)
<1>1. /\ available_threads # <<>> /\ TakeTid /\ running_thread' = running_thread
      /\ created_threads' = created_threads \cup {t}
      /\ ready_queue' = Append(ready_queue, t)
  BY DEF Create
<1>2. t \in Tids \ created_threads
  BY <1>1, TakeTidStep DEF CoopInv
<1> HIDE DEF t
<1>3. Ready' = Ready \cup {t}
  <2>1. /\ ready_queue \in Seq(Tids) /\ IsInjective(ready_queue)
        /\ t \in Tids /\ t \notin Range(ready_queue)
    BY <1>2 DEF CoopInv, CoopTypeOK, ReadyOnce, Ready
  <2> QED
    BY <1>1, <2>1, AppendedNew DEF Ready
<1> QED
  BY <1>1, <1>2, <1>3

(***************************************************************************)
(* A thread that neither runs nor is ready any more has exited, or was the *)
(* first of several ready threads when another one exited.                 *)
(***************************************************************************)
THEOREM LossesExplained == Spec => LostOnlyAtExit
<1> DEFINE Explained ==
      \A t \in (Ready \cup {me}) \ (Ready \cup {me})' :
         \/ t = me /\ t \notin created_threads'
         \/ /\ t = Head(ready_queue) /\ Len(ready_queue) >= 2
            /\ me \notin created_threads'
<1>1. ASSUME CoopInv, [Next]_vars PROVE [Explained]_vars
  <2>1. CASE Yield \/ LandAgain
    BY <1>1, <2>1, SwapActions DEF me
  <2>2. CASE thread_exit
    <3>1. /\ running_thread' \in Ready /\ created_threads' = created_threads \ {me}
          /\ Len(ready_queue) = 1 => Ready = {running_thread'}
          /\ Len(ready_queue) >= 2 => Ready' = Ready \ {running_thread', Head(ready_queue)}
          /\ Len(ready_queue) \in Nat \ {0}
      BY <1>1, <2>2, ExitActions
    <3>2. Len(ready_queue) = 1 \/ Len(ready_queue) >= 2
      BY <3>1
    <3> QED
      BY <3>1, <3>2 DEF me
  <2>3. CASE Create
    BY <1>1, <2>3, CreateActions DEF me
  <2>4. CASE Kill \/ CreateNoMemory \/ Land \/ LandAlone \/ LandInvalid \/ SwitchAway \/ SwitchToFreed
               \/ Return \/ exit_process \/ UNCHANGED vars
    BY <2>4, QuietActions DEF Ready, me
  <2> QED
    BY <1>1, <2>1, <2>2, <2>3, <2>4 DEF Next, Exit, Library, ExitKilled, Over
<1> QED
  BY <1>1, CoopInvariance, PTL DEF Spec, LostOnlyAtExit

-----------------------------------------------------------------------------
(***************************************************************************)
(* The life cycle.  states is what the model is mapped to.                 *)
(***************************************************************************)
states == [t \in Tids |-> StateOf(t)]

\* The running thread goes to `to` and a thread that is ready in its place.
LEMMA SwitchMapped ==
  ASSUME CoopInv, NEW u \in Tids, StateOf(u) = "ready", NEW to \in {"ready", "free"},
         states' = [t \in Tids |-> IF t = u THEN "running" ELSE IF t = me THEN to ELSE StateOf(t)]
  PROVE  CoopLife!Switch
<1>1. me \in Tids /\ states[me] = "running" /\ states[u] = "ready" /\ u # me
  BY DEF CoopInv, CoopTypeOK, me, states, StateOf
<1>2. {} \in SUBSET CoopLife!Blocked /\ CoopLife!Awake({}) = states
  BY DEF CoopLife!Awake, states
<1>3. states' = [states EXCEPT ![me] = to, ![u] = "running"]
  BY <1>1 DEF states
<1> QED
  BY <1>1, <1>2, <1>3 DEF CoopLife!Switch, states

\* Each step of the library is a step of the life cycle, or none.
LEMMA LifeStep ==
  ASSUME CoopInv, [Next]_vars
  PROVE  [CoopLife!Next]_states
<1>1. me \in Tids /\ me \notin Ready /\ Ready \subseteq created_threads /\ created_threads \subseteq Tids
  BY DEF CoopInv, CoopTypeOK, ReadyOnce, me
<1>2. \A t \in Ready : StateOf(t) = "ready"
  BY <1>1 DEF StateOf
<1>3. CASE Yield \/ LandAgain
  <2>1. running_thread' \in Ready /\ created_threads' = created_threads
    BY <1>3, SwapActions
  <2>2. states' = [t \in Tids |-> IF t = running_thread' THEN "running"
                                  ELSE IF t = me THEN "ready" ELSE StateOf(t)]
    BY <1>1, <2>1 DEF states, StateOf, me, CoopInv, ReadyOnce
  <2> QED
    BY <1>1, <1>2, <2>1, <2>2, SwitchMapped DEF CoopLife!Next
<1>4. CASE thread_exit
  <2>1. running_thread' \in Ready /\ created_threads' = created_threads \ {me}
    BY <1>4, ExitActions
  <2>2. states' = [t \in Tids |-> IF t = running_thread' THEN "running"
                                  ELSE IF t = me THEN "free" ELSE StateOf(t)]
    BY <1>1, <2>1 DEF states, StateOf, me
  <2> QED
    BY <1>1, <1>2, <2>1, <2>2, SwitchMapped DEF CoopLife!Next
<1>5. CASE Create
  <2>1. PICK t \in Tids \ created_threads : created_threads' = created_threads \cup {t}
    BY <1>5, CreateActions
  <2>2. running_thread' = running_thread
    BY <1>5 DEF Create
  <2>3. t # me
    BY <2>1 DEF CoopInv, ReadyOnce, me
  <2>4. states[t] = "free"
    BY <2>1, <2>3 DEF states, StateOf
  <2>5. states' = [states EXCEPT ![t] = "ready"]
    BY <2>1, <2>2, <2>3 DEF states, StateOf, me
  <2> QED
    BY <2>1, <2>4, <2>5 DEF CoopLife!Next, CoopLife!Create, states
<1>6. CASE Kill \/ CreateNoMemory \/ Land \/ LandAlone \/ LandInvalid \/ SwitchAway \/ SwitchToFreed
             \/ Return \/ exit_process \/ UNCHANGED vars
  <2>1. UNCHANGED <<running_thread, created_threads>>
    BY <1>6, QuietActions
  <2> QED
    BY <2>1 DEF states, StateOf, me
<1> QED
  BY <1>3, <1>4, <1>5, <1>6 DEF Next, Exit, Library, ExitKilled, Over

(***************************************************************************)
(* The cooperative library implements ThreadStates: exactly one thread     *)
(* runs, it gives the processor to a ready one only, and it becomes ready  *)
(* or, at its exit, its identifier becomes free.                           *)
(***************************************************************************)
THEOREM ImplementsLifeCycle == Spec => CoopLifeSpec
<1>1. Init => CoopLife!Init
  BY CoopMaxThreads DEF Init, CoopLife!Init, StateOf, me, Tids
<1>2. ASSUME CoopInv, [Next]_vars PROVE [CoopLife!Next]_([t \in Tids |-> StateOf(t)])
  BY <1>2, LifeStep DEF states
<1> QED
  BY <1>1, <1>2, CoopInvariance, PTL DEF Spec, CoopLifeSpec, CoopLife!Spec
=============================================================================
