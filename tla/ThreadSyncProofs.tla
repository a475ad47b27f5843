--------------------------- MODULE ThreadSyncProofs ---------------------------
(***************************************************************************)
(* The safety invariants of ThreadSync, for any number of threads, locks   *)
(* and condition variables, and the order in which woken threads run.      *)
(***************************************************************************)
EXTENDS ThreadSync, PreemptiveThreadsProofs

-----------------------------------------------------------------------------
(***************************************************************************)
(* The scheduler under locks and condition variables keeps its invariant,  *)
(* whatever the client does.                                               *)
(***************************************************************************)

\* The queues of locks and condition variables are nobody's own.
LEMMA SyncQueues ==
  /\ \A l \in Locks : l \in WaitQueues /\ l \notin Tids /\ l \notin CVs
  /\ \A c \in CVs : c \in WaitQueues /\ c \notin Tids /\ c \notin Locks
  BY SyncAssumption, QueuesAssumption DEF WaitQueues

\* What is known of a place in lock_acquire or cv_wait.
LEMMA PendFacts ==
  ASSUME NEW p \in Pending
  PROVE  /\ p.at \in {"client", "acquire", "unlock", "sleep", "relock"}
         /\ p.at = "client" => p = InClient
         /\ p.at = "acquire" => p.lock \in Locks /\ p = InAcquire(p.lock)
         /\ p.at \in {"unlock", "sleep", "relock"} =>
              /\ p.lock \in Locks /\ p.cv \in CVs
              /\ \A step \in {"sleep", "relock"} :
                   /\ [p EXCEPT !.at = step] \in Pending
                   /\ [p EXCEPT !.at = step].at = step
                   /\ [p EXCEPT !.at = step].lock = p.lock
                   /\ [p EXCEPT !.at = step].cv = p.cv
<1>1. CASE p = InClient
  BY <1>1 DEF InClient
<1>2. CASE \E l \in Locks : p = InAcquire(l)
  BY <1>2 DEF InAcquire
<1>3. ASSUME NEW s \in {"unlock", "sleep", "relock"}, NEW c \in CVs, NEW l \in Locks,
             p = InWait(s, c, l)
      PROVE  /\ p.at = s /\ p.lock = l /\ p.cv = c
             /\ \A step \in {"sleep", "relock"} : [p EXCEPT !.at = step] = InWait(step, c, l)
  BY <1>3 DEF InWait
<1>4. CASE \E s \in {"unlock", "sleep", "relock"}, c \in CVs, l \in Locks : p = InWait(s, c, l)
  <2>1. PICK s \in {"unlock", "sleep", "relock"}, c \in CVs, l \in Locks : p = InWait(s, c, l)
    BY <1>4
  <2>2. \A step \in {"sleep", "relock"} :
          /\ [p EXCEPT !.at = step] \in Pending
          /\ [p EXCEPT !.at = step].at = step
          /\ [p EXCEPT !.at = step].lock = l
          /\ [p EXCEPT !.at = step].cv = c
    <3> TAKE step \in {"sleep", "relock"}
    <3>1. [p EXCEPT !.at = step] = InWait(step, c, l)
      BY <2>1, <1>3
    <3>2. InWait(step, c, l) \in Pending
      BY DEF Pending
    <3> QED
      BY <3>1, <3>2 DEF InWait
  <2> QED
    BY <2>1, <2>2, <1>3
<1> QED
  BY <1>1, <1>2, <1>4 DEF Pending

\* The running thread in thread_sleep with its block as thread_routine_cleanup
\* left it, in the queue of a lock or a condition variable.
LEMMA SyncSleepStep ==
  ASSUME IInv, ready_queue # <<>>, NEW q \in Locks \cup CVs, thread_sleep(Cleaned, q),
         joining' = joining, zombie_tid' = None, UNCHANGED <<user_queues, tids, status>>
  PROVE  IInv'
<1>1. q \in WaitQueues /\ q \notin Tids
  BY SyncQueues
<1>2. joining' \in [Tids -> Tids \cup {None}]
  BY DEF IInv, TypeOK
<1> QED
  BY <1>1, <1>2, CleanedFacts, SleepStep

\* The loop of lock_acquire: in a call, or when a thread that slept in it is
\* switched to.
LEMMA AcquireStep ==
  ASSUME IInv, status = "run", ~tcb[me].killed, NEW l \in Locks, lock_acquire(l)
  PROVE  IInv'
<1>1. CASE \E s \in Faults : Stop(s)
  BY <1>1, StopStep
<1>2. CASE /\ resuming' = FALSE /\ tcb' = Cleaned /\ zombie_tid' = None
           /\ UNCHANGED <<running_thread, ready_queue, queues, tids, joining, status>>
  BY <1>2, CleanedStep
<1>3. CASE /\ ready_queue # <<>> /\ thread_sleep(Cleaned, l) /\ zombie_tid' = None
           /\ UNCHANGED <<user_queues, tids, joining, status>>
  BY <1>3, SyncSleepStep
<1> QED
  BY <1>1, <1>2, <1>3 DEF lock_acquire, SyncStop, Faults

\* lock_release: a wakeup of the first thread of the lock's queue.
LEMMA ReleaseStep ==
  ASSUME IInv, ~resuming, NEW l \in Locks, lock_release(l),
         UNCHANGED <<running_thread, resuming, user_queues, tids, joining, zombie_tid, status>>
  PROVE  IInv'
BY SyncQueues, WakeupOneStep DEF lock_release

\* Creating or destroying a lock or a condition variable touches no thread.
LEMMA QueuesStep ==
  ASSUME IInv, user_queues' \subseteq UserQueues,
         UNCHANGED <<sched, waitq, tids, tcb, joining, zombie_tid, status>>
  PROVE  IInv'
<1> USE DEF IInv, sched, tids
<1>1. TypeOK' /\ TidPartition' /\ KilledNeverRuns'
  BY DEF TypeOK, TidPartition, KilledNeverRuns
<1>2. OnePlace' /\ NoThreadLost'
  BY DEF OnePlace, NoThreadLost, Ready, Asleep, Alive
<1>3. StackSafe' /\ WaiterHasTarget'
  BY DEF StackSafe, WaiterHasTarget, Alive
<1> QED
  BY <1>1, <1>2, <1>3

\* A thread leaves for ever, or another one takes its first step: the steps of
\* PreemptiveThreads.
LEMMA PlainStep ==
  ASSUME None \notin ExitCodes, IInv, SyncResume \/ SyncPreempt \/ ClientCall,
         ~(/\ status = "run" /\ resuming /\ ~tcb[me].killed
           /\ pend[me].at = "acquire"
           /\ lock_acquire(pend[me].lock))
  PROVE  IInv'
BY NextInv DEF SyncResume, SyncPreempt, ClientCall, Next, Resume

\* Each step of ThreadSync keeps the invariant of the scheduler.
LEMMA SyncSched ==
  ASSUME None \notin ExitCodes, IInv, SyncTypeOK, [SyncNext]_all
  PROVE  IInv'
<1>0. /\ me \in Tids /\ pend[me] \in Pending
      /\ status = "run" /\ ~resuming => ~tcb[me].killed
      /\ ~resuming => Cleaned = tcb /\ zombie_tid = None
      /\ joining \in [Tids -> Tids \cup {None}]
      /\ user_queues \subseteq UserQueues /\ UserQueues = Locks \cup CVs
  BY CleanedFacts, SyncAssumption DEF IInv, TypeOK, SyncTypeOK, KilledNeverRuns, StackSafe, me
<1>1. CASE /\ status = "run" /\ resuming /\ ~tcb[me].killed
           /\ pend[me].at = "acquire"
           /\ lock_acquire(pend[me].lock)
  BY <1>1, <1>0, PendFacts, AcquireStep
<1>2. CASE SyncResume \/ SyncPreempt \/ ClientCall
  BY <1>1, <1>2, PlainStep
<1>3. CASE SyncOver \/ UNCHANGED all
  BY <1>3, NextInv DEF SyncOver, all
<1>4. CASE LockCreate \/ CvCreate \/ CvDestroy
  BY <1>4, <1>0, QueuesStep DEF LockCreate, CvCreate, CvDestroy
<1>5. CASE LockDestroy
  BY <1>5, <1>0, QueuesStep, StopStep DEF LockDestroy, SyncStop, Faults
<1>6. CASE LockAcquire
  BY <1>6, <1>0, AcquireStep DEF LockAcquire, Call, Client
<1>7. CASE LockRelease
  BY <1>7, <1>0, ReleaseStep DEF LockRelease, Call, Client
<1>8. CASE CvWait
  BY <1>8, NextInv DEF CvWait
<1>9. CASE CvUnlock
  BY <1>9, <1>0, PendFacts, ReleaseStep DEF CvUnlock, At
<1>10. CASE CvSleep
  <2>1. pend[me].cv \in CVs /\ ~resuming
    BY <1>10, <1>0, PendFacts DEF CvSleep, At
  <2>2. CASE Stop("use_after_free")
    BY <2>2, StopStep DEF Faults
  <2>3. CASE UNCHANGED vars
    BY <2>3, NextInv
  <2>4. CASE /\ ready_queue # <<>>
             /\ thread_sleep(tcb, pend[me].cv)
             /\ UNCHANGED <<user_queues, tids, joining, zombie_tid, status>>
    BY <2>1, <2>4, <1>0, SyncSleepStep
  <2> QED
    BY <1>10, <2>2, <2>3, <2>4 DEF CvSleep
<1>11. CASE CvRelock
  BY <1>11, <1>0, PendFacts, AcquireStep DEF CvRelock, At
<1>12. CASE CvSignal
  <2>1. PICK c \in CVs : /\ tcb' = Awoken(tcb, First(waitq[c]))
                         /\ ready_queue' = ReadyAfterWakeup(waitq[c])
                         /\ waitq' = [waitq EXCEPT ![c] = Rest(@)]
    BY <1>12 DEF CvSignal
  <2>2. /\ UNCHANGED <<running_thread, resuming, user_queues, tids, joining, zombie_tid>>
        /\ ~resuming /\ status' \in {status} \cup Faults
    BY <1>12 DEF CvSignal, Call, Client, Faults
  <2>3. c \in WaitQueues
    BY SyncQueues
  <2> QED
    BY <2>1, <2>2, <2>3, WakeupOneStep
<1>13. CASE CvBroadcast
  BY <1>13, SyncQueues, WakeupAllStep DEF CvBroadcast, Call, Client
<1> QED
  BY <1>2, <1>3, <1>4, <1>5, <1>6, <1>7, <1>8, <1>9, <1>10, <1>11, <1>12, <1>13 DEF SyncNext

-----------------------------------------------------------------------------
(***************************************************************************)
(* What the library and the client know of locks has its type.             *)
(***************************************************************************)

LEMMA AcquireTypes ==
  ASSUME me \in Tids, SyncTypeOK, NEW l \in Locks, lock_acquire(l)
  PROVE  SyncTypeOK'
<1>1. InClient \in Pending /\ InAcquire(l) \in Pending
  BY DEF Pending
<1>2. [free |-> FALSE, held_by |-> me] \in [free : BOOLEAN, held_by : Tids \cup {None}]
  OBVIOUS
<1>3. CASE UNCHANGED sync
  BY <1>3 DEF sync, SyncTypeOK
<1>4. CASE /\ lock' = [lock EXCEPT ![l] = [free |-> FALSE, held_by |-> me]]
           /\ holds' = [holds EXCEPT ![me] = @ \cup {l}]
           /\ pend' = [pend EXCEPT ![me] = InClient]
  BY <1>1, <1>2, <1>4 DEF SyncTypeOK
<1>5. CASE pend' = [pend EXCEPT ![me] = InAcquire(l)] /\ UNCHANGED <<lock, holds>>
  BY <1>1, <1>5 DEF SyncTypeOK
<1> QED
  BY <1>3, <1>4, <1>5 DEF lock_acquire, SyncStop

LEMMA ReleaseTypes ==
  ASSUME me \in Tids, SyncTypeOK, NEW l \in Locks, lock_release(l), NEW p \in Pending,
         pend' \in {pend, [pend EXCEPT ![me] = p]}
  PROVE  SyncTypeOK'
<1>1. FreeLock \in [free : BOOLEAN, held_by : Tids \cup {None}]
  BY DEF FreeLock
<1>2. lock' = [lock EXCEPT ![l] = FreeLock] /\ holds' = [holds EXCEPT ![me] = @ \ {l}]
  BY DEF lock_release
<1> QED
  BY <1>1, <1>2 DEF SyncTypeOK

LEMMA SyncTypes ==
  ASSUME IInv, SyncTypeOK, [SyncNext]_all
  PROVE  SyncTypeOK'
<1>0. me \in Tids /\ pend[me] \in Pending
  BY DEF IInv, TypeOK, SyncTypeOK, me
<1>1. CASE UNCHANGED sync
  BY <1>1 DEF sync, SyncTypeOK
<1>2. CASE Left(me)
  <2>1. InClient \in Pending
    BY DEF Pending
  <2> QED
    BY <1>0, <1>2, <2>1 DEF Left, SyncTypeOK
<1>3. CASE /\ pend[me].at = "acquire"
           /\ lock_acquire(pend[me].lock)
  BY <1>3, <1>0, PendFacts, AcquireTypes
<1>4. CASE LockCreate
  <2>1. FreeLock \in [free : BOOLEAN, held_by : Tids \cup {None}]
    BY DEF FreeLock
  <2> QED
    BY <1>4, <2>1 DEF LockCreate, SyncTypeOK
<1>5. CASE LockAcquire
  BY <1>5, <1>0, AcquireTypes DEF LockAcquire
<1>6. CASE LockRelease
  BY <1>6, <1>0, ReleaseTypes DEF LockRelease
<1>7. CASE CvWait
  <2>1. PICK c \in CVs, l \in Locks : pend' = [pend EXCEPT ![me] = InWait("unlock", c, l)]
    BY <1>7 DEF CvWait
  <2>2. InWait("unlock", c, l) \in Pending
    BY DEF Pending
  <2> QED
    BY <1>0, <1>7, <2>1, <2>2 DEF CvWait, SyncTypeOK
<1>8. CASE CvUnlock
  <2>1. pend[me].lock \in Locks /\ [pend[me] EXCEPT !.at = "sleep"] \in Pending
    BY <1>8, <1>0, PendFacts DEF CvUnlock, At
  <2>2. pend' = [pend EXCEPT ![me] = [pend[me] EXCEPT !.at = "sleep"]]
    BY <1>8 DEF CvUnlock
  <2> QED
    BY <1>8, <1>0, <2>1, <2>2, ReleaseTypes DEF CvUnlock
<1>9. CASE CvSleep
  <2>1. [pend[me] EXCEPT !.at = "relock"] \in Pending
    BY <1>9, <1>0, PendFacts DEF CvSleep, At
  <2>2. pend' = [pend EXCEPT ![me] = [pend[me] EXCEPT !.at = "relock"]]
    BY <1>9 DEF CvSleep
  <2> QED
    BY <1>9, <1>0, <2>1, <2>2 DEF CvSleep, SyncTypeOK
<1>10. CASE CvRelock
  BY <1>10, <1>0, PendFacts, AcquireTypes DEF CvRelock, At
<1> QED
  BY <1>1, <1>2, <1>3, <1>4, <1>5, <1>6, <1>7, <1>8, <1>9, <1>10
  DEF SyncNext, SyncResume, SyncPreempt, ClientCall, SyncOver, LockDestroy, SyncStop,
      CvCreate, CvDestroy, CvSignal, CvBroadcast, all

\* Nobody is in a call at the start.
LEMMA SyncInitTypes == SyncInit => IInv /\ SyncTypeOK
<1>1. FreeLock \in [free : BOOLEAN, held_by : Tids \cup {None}] /\ InClient \in Pending
  BY DEF FreeLock, Pending
<1> QED
  BY <1>1, InitInv DEF SyncInit, SyncTypeOK

-----------------------------------------------------------------------------
(***************************************************************************)
(* The scheduler's promises hold for every client of the locks and the     *)
(* condition variables, disciplined or not: a thread is in one place, none *)
(* is lost, stacks and waiters are as in PreemptiveThreads.                *)
(***************************************************************************)
THEOREM SyncScheduler ==
  ASSUME None \notin ExitCodes PROVE SyncSpec => [](IInv /\ SyncTypeOK)
<1>1. IInv /\ SyncTypeOK /\ [SyncNext]_all => (IInv /\ SyncTypeOK)'
  BY SyncSched, SyncTypes
<1> QED
  BY <1>1, SyncInitTypes, PTL DEF SyncSpec

(***************************************************************************)
(* struct lock, the places in lock_acquire and cv_wait and the locks each  *)
(* thread has taken keep their types, for every client.                    *)
(***************************************************************************)
THEOREM SyncTypesCorrect == ASSUME None \notin ExitCodes PROVE SyncSpec => []SyncTypeOK
  BY SyncScheduler, PTL

(***************************************************************************)
(* Sleeping in a lock or a condition variable, and being woken from it,    *)
(* keeps each thread in one place.                                         *)
(***************************************************************************)
THEOREM SyncThreadInOnePlace == ASSUME None \notin ExitCodes PROVE SyncSpec => []OnePlace
<1>1. IInv => OnePlace
  BY DEF IInv
<1> QED
  BY <1>1, SyncScheduler, PTL

(***************************************************************************)
(* No thread is lost by a lock or a condition variable, also when it is    *)
(* destroyed with threads that sleep in it.                                *)
(***************************************************************************)
THEOREM SyncNoThreadIsLost == ASSUME None \notin ExitCodes PROVE SyncSpec => []NoThreadLost
<1>1. IInv => NoThreadLost
  BY DEF IInv
<1> QED
  BY <1>1, SyncScheduler, PTL

-----------------------------------------------------------------------------
(***************************************************************************)
(* Locks in the hands of a disciplined client.  Beyond the two invariants  *)
(* the runs check, the inductive invariant says where a thread that sleeps *)
(* is in its call, what a thread at each step of cv_wait holds, and that   *)
(* no thread takes a lock or its place in a call with it when it leaves.   *)
(***************************************************************************)

\* The process has killed thread t or seen it exit, or never created it.
Gone(t) == tcb[t].killed \/ ~Alive(t)

KnownLocks ==
  \A l \in Locks : /\ lock[l].free => lock[l] = FreeLock
                   /\ l \notin user_queues => lock[l].free /\ waitq[l] = <<>>

SleepersInside ==
  \A t \in Tids :
    /\ \A l \in Locks : t \in Range(waitq[l]) => pend[t] = InAcquire(l)
    /\ \A c \in CVs : t \in Range(waitq[c]) => pend[t].at = "relock"
    /\ \A u \in Tids : t \in Range(waitq[u]) => pend[t] = InClient /\ holds[t] = {}

StepsHold ==
  \A t \in Tids :
    /\ pend[t].at = "unlock" => pend[t].lock \in holds[t]
    /\ pend[t].at \in {"acquire", "sleep", "relock"} => pend[t].lock \notin holds[t]

LeftOutside == \A t \in Tids : Gone(t) => holds[t] = {} /\ pend[t] = InClient

RunsOutside == status = "run" /\ ~resuming => pend[me].at # "acquire"

LockInv == /\ KnownLocks /\ SleepersInside /\ StepsHold /\ LeftOutside /\ RunsOutside
           /\ LockHeldOnce /\ NoStrandedWaiter

\* The places in the calls are told apart by their steps.
LEMMA Places ==
  /\ InClient.at = "client"
  /\ \A l : InAcquire(l).at = "acquire" /\ InAcquire(l).lock = l /\ InAcquire(l) # InClient
  /\ \A k, l : InAcquire(k) = InAcquire(l) => k = l
  /\ \A s, c, l : /\ InWait(s, c, l).at = s /\ InWait(s, c, l).lock = l
                  /\ InWait(s, c, l).cv = c
<1>1. \A l : InAcquire(l).at = "acquire" /\ InAcquire(l).lock = l
  BY DEF InAcquire
<1>2. InClient.at = "client"
  BY DEF InClient
<1> QED
  BY <1>1, <1>2 DEF InWait

\* The thread that runs is in no queue; the others are where NoThreadLost says.
Whereabouts ==
  /\ me \in Tids /\ Alive(me)
  /\ \A q \in WaitQueues : me \notin Range(waitq[q]) /\ waitq[q] \in Seq(Tids)
  /\ \A q \in WaitQueues, t \in Ready : t \notin Range(waitq[q])
  /\ \A q \in WaitQueues : \A t \in Range(waitq[q]) : t \in Tids
  /\ \A t \in Ready : t \in Tids
  /\ \A t \in Tids : Alive(t) => \/ t \in Ready \cup {running_thread}
                                 \/ \E q \in WaitQueues : t \in Range(waitq[q])

LEMMA WhereIs == IInv => Whereabouts
<1> SUFFICES ASSUME IInv PROVE Whereabouts
  OBVIOUS
<1>1. /\ me \in Tids /\ Alive(me) /\ me \notin Asleep /\ Ready \cap Asleep = {}
      /\ \A q \in WaitQueues : waitq[q] \in Seq(Tids) /\ Range(waitq[q]) \subseteq Tids
      /\ Ready \subseteq Tids
      /\ {running_thread} \cup Ready \cup Asleep = {t \in Tids : Alive(t)}
  <2>1. /\ waitq \in [WaitQueues -> Seq(Tids)] /\ ready_queue \in Seq(Tids)
    BY DEF IInv, TypeOK
  <2> QED
    BY <2>1, RangeSeq, RunningAlive DEF IInv, TypeOK, OnePlace, NoThreadLost, me, Ready
<1> QED
  BY <1>1, AsleepIff DEF Whereabouts

LEMMA WhereIsAfter == IInv' => Whereabouts'
  BY WhereIs, PTL

\* A thread that has a place in a call and is asleep for nobody's exit is
\* ready, runs, or sleeps in a lock or a condition variable.
LEMMA OnItsWay ==
  ASSUME IInv', SleepersInside', LeftOutside', NEW t \in Tids, pend'[t] # InClient,
         \A q \in Locks \cup CVs : t \notin Range(waitq'[q])
  PROVE  t \in Ready' \cup {running_thread'}
<1>1. Alive(t)'
  BY DEF LeftOutside, Gone
<1>2. \A u \in Tids : t \notin Range(waitq'[u])
  BY DEF SleepersInside
<1>3. \A q \in WaitQueues : q \in Tids \/ q \in Locks \cup CVs
  BY SyncAssumption DEF WaitQueues
<1> QED
  BY <1>1, <1>2, <1>3, WhereIsAfter DEF Whereabouts

\* A step of the scheduler that touches no lock: the queue of no lock changes,
\* a thread begins to sleep only in thread_wait, and one that leaves is outside
\* all these calls.
LEMMA SyncKept ==
  ASSUME IInv, IInv', SyncTypeOK, LockInv, UNCHANGED sync,
         status' = "run" => status = "run",
         \A l \in Locks : waitq'[l] = waitq[l],
         \A c \in CVs : Range(waitq'[c]) \subseteq Range(waitq[c]),
         \A u \in Tids : \A t \in Range(waitq'[u]) :
            t \in Range(waitq[u]) \/ (pend[t] = InClient /\ holds[t] = {}),
         \A l \in Locks : l \notin user_queues' =>
            l \notin user_queues \/ (lock[l].free /\ waitq[l] = <<>>),
         \A t \in Tids : Gone(t)' => Gone(t) \/ (pend[t] = InClient /\ holds[t] = {}),
         status' = "run" /\ ~resuming' => pend[me'].at # "acquire"
  PROVE  LockInv'
<1> USE DEF LockInv, sync
<1>1. KnownLocks'
  BY DEF KnownLocks
<1>2. SleepersInside'
  BY DEF SleepersInside
<1>3. StepsHold'
  BY DEF StepsHold
<1>4. LeftOutside'
  BY DEF LeftOutside
<1>5. RunsOutside'
  BY DEF RunsOutside
<1>6. LockHeldOnce'
  BY DEF LockHeldOnce
<1>7. NoStrandedWaiter'
  <2> SUFFICES ASSUME NEW l \in Locks, lock[l].free, waitq[l] # <<>>, status = "run"
               PROVE  \E t \in Ready' \cup {running_thread'} : pend'[t] = InAcquire(l)
    BY DEF NoStrandedWaiter
  <2>1. PICK t \in Ready \cup {running_thread} : pend[t] = InAcquire(l)
    BY DEF NoStrandedWaiter
  <2>2. t \in Tids /\ \A q \in Locks \cup CVs : t \notin Range(waitq[q])
    BY WhereIs, SyncQueues DEF Whereabouts, me
  <2>3. \A q \in Locks \cup CVs : t \notin Range(waitq'[q])
    BY <2>2
  <2>4. pend'[t] # InClient
    BY <2>1, Places
  <2> QED
    BY <1>2, <1>4, <2>1, <2>2, <2>3, <2>4, OnItsWay
<1> QED
  BY <1>1, <1>2, <1>3, <1>4, <1>5, <1>6, <1>7

\* What the steps of the scheduler may do to the threads other than the one
\* that runs: they may be taken out of a queue, and they do not leave.
Bystanders ==
  /\ status' = "run" => status = "run"
  /\ \A l \in Locks : waitq'[l] = waitq[l]
  /\ \A c \in CVs : Range(waitq'[c]) \subseteq Range(waitq[c])
  /\ \A u \in Tids : Range(waitq'[u]) \subseteq Range(waitq[u]) \cup {me}
  /\ \A t \in Tids : Gone(t)' => Gone(t) \/ t = me

\* A step that changes no wait queue and no control block.
LEMMA NothingMoved ==
  ASSUME UNCHANGED <<waitq, created_threads, tcb>>, status' = "run" => status = "run"
  PROVE  Bystanders
BY DEF Bystanders, Gone, Alive

\* When the process stops.
LEMMA StopMoves == ASSUME NEW s, Stop(s), s # "run" PROVE Bystanders
BY NothingMoved DEF Stop, queues, tids

\* thread_routine_cleanup changes what is known of no thread.
LEMMA CleanedMoves ==
  ASSUME IInv, tcb' = Cleaned, UNCHANGED <<waitq, created_threads>>,
         status' = "run" => status = "run"
  PROVE  Bystanders
BY CleanedFacts DEF Bystanders, Gone, Alive

\* thread_exit takes the waiter out of the caller's queue.
LEMMA ExitMoves ==
  ASSUME IInv, status = "run", NEW code, thread_exit(Cleaned, code)
  PROVE  /\ Bystanders
         /\ resuming' \/ (status' # "run" /\ UNCHANGED running_thread)
         /\ UNCHANGED user_queues
<1> DEFINE S   == First(waitq[me])
           tc  == Awoken(Cleaned, S)
           wqs == [waitq EXCEPT ![me] = Rest(@)]
           rq  == ReadyAfterWakeup(waitq[me])
<1>1. me \in Tids /\ me \in WaitQueues /\ Cleaned[me].waiting_on = None
  BY RunningAlive, CleanedFacts DEF IInv, TypeOK, me, WaitQueues
<1>2. ClearedQueues(Cleaned) = waitq
  BY <1>1 DEF ClearedQueues
<1> HIDE DEF S, tc, wqs, rq
<1>3. CASE Stop(freeup_leftover_zombies(tc, wqs))
  <2>1. freeup_leftover_zombies(tc, wqs) # "run"
    BY Zenon DEF freeup_leftover_zombies
  <2> QED
    BY <1>3, <2>1, StopMoves DEF Stop, queues, sched
<1>4. CASE /\ tcb' = [tc EXCEPT ![me].exit = code]
           /\ waitq' = wqs
           /\ SwitchTo(rq, 1)
           /\ UNCHANGED <<user_queues, created_threads, status>>
  <2>1. \A t \in Tids \ {me} : /\ tcb'[t].killed = tcb[t].killed
                               /\ tcb'[t].exit = tcb[t].exit
    <3>1. tc \in [Tids -> TCB] /\ \A t \in Tids : /\ tc[t].killed = Cleaned[t].killed
                                                  /\ tc[t].exit = Cleaned[t].exit
      <4>1. Cleaned \in [Tids -> TCB]
        BY CleanedFacts
      <4>2. ASSUME NEW t \in Tids
            PROVE  /\ tc[t] \in TCB
                   /\ tc[t].killed = Cleaned[t].killed
                   /\ tc[t].exit = Cleaned[t].exit
        <5>1. tc[t] \in {Cleaned[t], [Cleaned[t] EXCEPT !.sleeping = FALSE, !.waiting_on = None]}
          BY DEF tc, Awoken
        <5>2. Cleaned[t] \in TCB
          BY <4>1
        <5> QED
          BY <5>1, <5>2, WokenRecord
      <4> QED
        BY <4>2 DEF tc, Awoken
    <3>2. \A t \in Tids \ {me} : tcb'[t] = tc[t]
      BY <1>4, <3>1
    <3> QED
      BY <3>1, <3>2, CleanedFacts
  <2>2. \A t \in Tids : Gone(t)' => Gone(t) \/ t = me
    BY <1>4, <2>1 DEF Gone, Alive
  <2>3. waitq' = [waitq EXCEPT ![me] = Rest(@)]
    BY <1>4 DEF wqs
  <2>4. \A q \in WaitQueues : Range(waitq'[q]) \subseteq Range(waitq[q])
    BY <1>1, <2>3, WaitQueueAfterWakeup
  <2>5. \A l \in Locks : waitq'[l] = waitq[l]
    <3>1. waitq \in [WaitQueues -> Seq(Tids)]
      BY DEF IInv, TypeOK
    <3> QED
      BY <1>1, <2>3, <3>1, SyncQueues
  <2>6. /\ \A c \in CVs : Range(waitq'[c]) \subseteq Range(waitq[c])
        /\ \A u \in Tids : Range(waitq'[u]) \subseteq Range(waitq[u])
    BY <2>4, SyncQueues DEF WaitQueues
  <2> QED
    BY <1>4, <2>2, <2>5, <2>6 DEF Bystanders, SwitchTo
<1> QED
  BY <1>2, <1>3, <1>4 DEF thread_exit, tc, wqs, rq, S

\* The end of thread_wait forgets a thread that had exited.
LEMMA ReapMoves ==
  ASSUME IInv, status = "run", NEW t \in Tids, Reap(Cleaned, t)
  PROVE  /\ Bystanders /\ UNCHANGED <<running_thread, user_queues, waitq>>
         /\ \A u \in Tids : Gone(u)' => Gone(u)
<1>1. CASE ReapOutcome(Cleaned, t) # "run" /\ Stop(ReapOutcome(Cleaned, t))
  BY <1>1, StopMoves DEF Stop, sched, queues, tids, Gone, Alive
<1>2. CASE /\ ReapOutcome(Cleaned, t) = "run"
           /\ created_threads' = created_threads \ {t}
           /\ tcb' = [Cleaned EXCEPT ![t] = NewThread(0, "none")]
           /\ UNCHANGED <<running_thread, queues, status>>
  <2>1. t \in created_threads /\ tcb[t].exit # None
    BY <1>2, CleanedFacts DEF ReapOutcome
  <2>2. Gone(t)
    BY <2>1 DEF Gone, Alive
  <2>3. \A u \in Tids \ {t} : tcb'[u] = Cleaned[u]
    BY <1>2, CleanedFacts
  <2>4. \A u \in Tids \ {t} : Gone(u)' => Gone(u)
    BY <1>2, <2>3, CleanedFacts DEF Gone, Alive
  <2> QED
    BY <1>2, <2>2, <2>4 DEF Bystanders, queues
<1> QED
  BY <1>1, <1>2 DEF Reap

\* thread_create brings a thread in.
LEMMA CreateMoves ==
  ASSUME IInv, Create
  PROVE  /\ Bystanders /\ UNCHANGED <<running_thread, resuming, user_queues, waitq>>
         /\ \A t \in Tids : Gone(t)' => Gone(t)
<1>1. CASE Stop("out_of_bounds")
  BY <1>1, StopMoves DEF Stop, sched, queues, tids, Gone, Alive
<1> DEFINE t == Head(available_threads)
<1>2. CASE /\ available_threads # <<>>
           /\ tcb' = [tcb EXCEPT ![t] = NewThread(me, "live")]
           /\ created_threads' = created_threads \cup {t}
           /\ UNCHANGED <<running_thread, resuming, queues, status>>
  <2>1. t \in Tids /\ tcb \in [Tids -> TCB]
    BY <1>2, HeadTaken DEF IInv, TypeOK, TidPartition
  <2> HIDE DEF t
  <2>2. \A u \in Tids : u # t => tcb'[u] = tcb[u]
    BY <1>2, <2>1
  <2>3. tcb'[t] = NewThread(me, "live")
    BY <1>2, <2>1
  <2>4. tcb'[t].killed = FALSE /\ tcb'[t].exit = None /\ t \in created_threads'
    BY <1>2, <2>3 DEF NewThread
  <2>5. ASSUME NEW u \in Tids, Gone(u)' PROVE Gone(u)
    <3>1. u # t
      BY <2>4, <2>5 DEF Gone, Alive
    <3> QED
      BY <1>2, <2>2, <2>5, <3>1 DEF Gone, Alive
  <2> QED
    BY <1>2, <2>5 DEF Bystanders, queues
<1> QED
  BY <1>1, <1>2 DEF Create

\* thread_wait of a thread that is alive puts the caller in its queue.
LEMMA WaitMoves ==
  ASSUME IInv, WaitAlive
  PROVE  /\ Bystanders
         /\ resuming' \/ (status' # "run" /\ UNCHANGED running_thread)
         /\ UNCHANGED user_queues
<1>1. CASE Stop("assert_exit")
  BY <1>1, StopMoves DEF Stop, sched, queues
<1>2. ASSUME NEW t \in Tids, t # me,
             thread_sleep([tcb EXCEPT ![me].waiting_on = t, ![t].wq = TRUE], t),
             UNCHANGED <<user_queues, tids, status>>
      PROVE  Bystanders /\ resuming' /\ UNCHANGED user_queues
  <2> DEFINE tc == [tcb EXCEPT ![me].waiting_on = t, ![t].wq = TRUE]
             asleep == [tc EXCEPT ![me].sleeping = TRUE]
  <2>1. /\ me \in Tids /\ tcb \in [Tids -> TCB] /\ waitq \in [WaitQueues -> Seq(Tids)]
        /\ t \in WaitQueues /\ me \notin Range(waitq[t]) /\ IsInjective(waitq[t])
    BY WhereIs DEF IInv, TypeOK, OnePlace, WaitQueues, Whereabouts
  <2>2. tcb' = asleep /\ waitq' = [waitq EXCEPT ![t] = Append(@, me)] /\ resuming'
    BY <1>2, Zenon DEF thread_sleep, thread_yield, SwitchTo
  <2>3. \A u \in Tids : u # me => tcb'[u] = IF u = t THEN [tcb[u] EXCEPT !.wq = TRUE]
                                            ELSE tcb[u]
    BY <1>2, <2>1, <2>2
  <2>4. ASSUME NEW u \in Tids, u # me
        PROVE  tcb'[u].killed = tcb[u].killed /\ tcb'[u].exit = tcb[u].exit
    <3>1. tcb[u] \in TCB
      BY <2>1
    <3> QED
      BY <2>3, <2>4, <3>1 DEF TCB
  <2>5. \A u \in Tids : Gone(u)' => Gone(u) \/ u = me
    BY <1>2, <2>4 DEF Gone, Alive, tids
  <2>6. Range(waitq'[t]) = Range(waitq[t]) \cup {me}
    BY <2>1, <2>2, AppendedNew
  <2>7. \A q \in WaitQueues : q # t => waitq'[q] = waitq[q]
    BY <2>1, <2>2
  <2>8. /\ \A u \in Tids : Range(waitq'[u]) \subseteq Range(waitq[u]) \cup {me}
        /\ \A q \in Locks \cup CVs : waitq'[q] = waitq[q]
    BY <2>6, <2>7, SyncQueues DEF WaitQueues
  <2> QED
    BY <1>2, <2>2, <2>5, <2>8 DEF Bystanders
<1> QED
  BY <1>1, <1>2 DEF WaitAlive, MayWait

\* A wakeup neither kills a thread nor makes it exit.
LEMMA AwokenStay ==
  ASSUME IInv, NEW S, tcb' = Awoken(tcb, S), created_threads' = created_threads
  PROVE  \A t \in Tids : Gone(t)' <=> Gone(t)
<1> DEFINE tc == Awoken(tcb, S)
<1>1. /\ tc \in [Tids -> TCB]
      /\ \A t \in Tids : /\ tc[t].exit = tcb[t].exit
                         /\ tc[t].stack = tcb[t].stack
                         /\ tc[t].wq = tcb[t].wq
                         /\ tc[t].killed = tcb[t].killed
                         /\ tc[t].sleeping = IF t \in S THEN FALSE ELSE tcb[t].sleeping
                         /\ tc[t].waiting_on = IF t \in S THEN None ELSE tcb[t].waiting_on
  BY AwokenFacts
<1> QED
  BY <1>1 DEF Gone, Alive

\* A wakeup from a thread's own queue or from a condition variable.
LEMMA WakeMoves ==
  ASSUME IInv, NEW q \in WaitQueues, q \notin Locks, NEW S,
         tcb' = Awoken(tcb, S), waitq' \in {[waitq EXCEPT ![q] = Rest(@)],
                                            [waitq EXCEPT ![q] = <<>>]},
         UNCHANGED created_threads, status' = "run" => status = "run"
  PROVE  /\ Bystanders
         /\ \A u \in Tids : Range(waitq'[u]) \subseteq Range(waitq[u])
         /\ \A t \in Tids : Gone(t)' => Gone(t)
<1>1. waitq \in [WaitQueues -> Seq(Tids)]
  BY DEF IInv, TypeOK
<1>2. Range(Rest(waitq[q])) \subseteq Range(waitq[q]) /\ Range(<<>>) = {}
  <2>1. Range(Rest(waitq[q])) = Range(waitq[q]) \ First(waitq[q])
    BY WakeFirst
  <2> QED
    BY <2>1 DEF Range
<1>3. \A p \in WaitQueues : /\ Range(waitq'[p]) \subseteq Range(waitq[p])
                            /\ p # q => waitq'[p] = waitq[p]
  BY <1>1, <1>2
<1>4. \A t \in Tids : Gone(t)' => Gone(t)
  BY AwokenStay
<1>5. /\ \A l \in Locks : waitq'[l] = waitq[l]
      /\ \A c \in CVs : Range(waitq'[c]) \subseteq Range(waitq[c])
      /\ \A u \in Tids : Range(waitq'[u]) \subseteq Range(waitq[u])
  BY <1>3, SyncQueues DEF WaitQueues
<1> QED
  BY <1>4, <1>5 DEF Bystanders

\* The steps of the running thread that keep it out of these calls, and touch
\* no lock, keep the invariant.
LEMMA BystandersKept ==
  ASSUME IInv, IInv', SyncTypeOK, LockInv, UNCHANGED sync, Bystanders,
         \A l \in Locks : l \notin user_queues' =>
            l \notin user_queues \/ (lock[l].free /\ waitq[l] = <<>>),
         \/ /\ \A u \in Tids : Range(waitq'[u]) \subseteq Range(waitq[u])
            /\ \A t \in Tids : Gone(t)' => Gone(t)
         \/ pend[me] = InClient /\ holds[me] = {},
         status' = "run" /\ ~resuming' => pend[me'].at # "acquire"
  PROVE  LockInv'
BY SyncKept DEF Bystanders

\* thread_kill of a thread that is outside these calls.
LEMMA KillKept ==
  ASSUME IInv, IInv', SyncTypeOK, LockInv, UNCHANGED sync, Kill, pend[me] = InClient,
         \A t \in Tids : tcb'[t].killed /\ ~tcb[t].killed => holds[t] = {} /\ pend[t] = InClient
  PROVE  LockInv'
<1>1. PICK v \in created_threads \ {me} :
        /\ tcb' = [Awoken(tcb, First(waitq[v])) EXCEPT ![v].killed = TRUE]
        /\ waitq' = [waitq EXCEPT ![v] = Rest(@)]
  BY DEF Kill
<1>2. /\ v \in Tids /\ v \in WaitQueues /\ waitq \in [WaitQueues -> Seq(Tids)]
      /\ UNCHANGED <<running_thread, resuming, user_queues, created_threads, status>>
  BY DEF Kill, IInv, TypeOK, WaitQueues, tids
<1>3. \A t \in Tids : tcb'[t].exit = tcb[t].exit
  <2> DEFINE S  == First(waitq[v])
             tc == Awoken(tcb, S)
  <2>1. tcb' = [tc EXCEPT ![v].killed = TRUE]
    BY <1>1
  <2> HIDE DEF S
  <2>2. /\ tc \in [Tids -> TCB]
        /\ \A t \in Tids : /\ tc[t].exit = tcb[t].exit
                           /\ tc[t].stack = tcb[t].stack
                           /\ tc[t].wq = tcb[t].wq
                           /\ tc[t].killed = tcb[t].killed
                           /\ tc[t].sleeping = IF t \in S THEN FALSE ELSE tcb[t].sleeping
                           /\ tc[t].waiting_on = IF t \in S THEN None ELSE tcb[t].waiting_on
    BY AwokenFacts
  <2> HIDE DEF tc
  <2>3. tc \in [Tids -> TCB] /\ tc[v] \in TCB
    BY <1>2, <2>2
  <2>4. \A t \in Tids : tcb'[t] = IF t = v THEN [tc[v] EXCEPT !.killed = TRUE] ELSE tc[t]
    BY <1>2, <2>1, <2>3
  <2>5. [tc[v] EXCEPT !.killed = TRUE].exit = tc[v].exit
    BY <2>3 DEF TCB
  <2>6. \A t \in Tids : tcb'[t].exit = tc[t].exit
    BY <2>4, <2>5
  <2> QED
    BY <2>2, <2>6
<1>4. \A t \in Tids : Gone(t)' => Gone(t) \/ (pend[t] = InClient /\ holds[t] = {})
  BY <1>2, <1>3 DEF Gone, Alive
<1>5. \A p \in WaitQueues : /\ Range(waitq'[p]) \subseteq Range(waitq[p])
                            /\ p # v => waitq'[p] = waitq[p]
  BY <1>1, <1>2, WaitQueueAfterWakeup
<1>6. /\ \A l \in Locks : waitq'[l] = waitq[l]
      /\ \A c \in CVs : Range(waitq'[c]) \subseteq Range(waitq[c])
      /\ \A u \in Tids : Range(waitq'[u]) \subseteq Range(waitq[u])
  BY <1>2, <1>5, SyncQueues DEF WaitQueues
<1>7. status' = "run" /\ ~resuming' => pend[me'].at # "acquire"
  BY <1>2, Places DEF me
<1> QED
  BY <1>2, <1>4, <1>6, <1>7, SyncKept

\* The steps of PreemptiveThreads in a disciplined client.
LEMMA ClientKept ==
  ASSUME Disciplined, ~KillsInside, IInv, IInv', SyncTypeOK, LockInv,
         ClientCall \/ SyncPreempt
  PROVE  LockInv'
<1>1. CASE (Preempt \/ Yield) /\ UNCHANGED sync
  <2>1. /\ UNCHANGED <<waitq, created_threads, tcb, user_queues, status>>
        /\ resuming'
    BY <1>1 DEF Preempt, Yield, queues, tids, thread_yield, SwitchTo
  <2> QED
    BY <1>1, <2>1, NothingMoved, BystandersKept DEF Gone, Alive
<1>2. CASE pend[me] = InClient /\ UNCHANGED sync /\ Create
  BY <1>2, CreateMoves, BystandersKept, Places DEF me
<1>3. CASE /\ pend[me] = InClient /\ UNCHANGED sync /\ Kill
           /\ \A t \in Tids : tcb'[t].killed /\ ~tcb[t].killed =>
                              holds[t] = {} /\ pend[t] = InClient
  BY <1>3, KillKept
<1>4. CASE pend[me] = InClient /\ UNCHANGED sync /\ holds[me] = {} /\ WaitExited
  <2>1. PICK t \in Tids : Reap(tcb, t)
    BY <1>4 DEF WaitExited
  <2>2. tcb = Cleaned /\ status = "run"
    BY <1>4, CleanedFacts DEF WaitExited, Client
  <2>3. Bystanders /\ UNCHANGED <<running_thread, user_queues>>
    BY <2>1, <2>2, ReapMoves
  <2> QED
    BY <1>4, <2>3, BystandersKept, Places DEF me
<1>5. CASE pend[me] = InClient /\ UNCHANGED sync /\ holds[me] = {} /\ WaitAlive
  BY <1>5, WaitMoves, BystandersKept
<1>6. CASE pend[me] = InClient /\ holds[me] = {} /\ Exit /\ Left(me)
  <2>1. PICK code \in ExitCodes : thread_exit(tcb, code)
    BY <1>6 DEF Exit
  <2>2. tcb = Cleaned /\ status = "run"
    BY <1>6, CleanedFacts DEF Exit, Client
  <2>3. UNCHANGED sync
    BY <1>6 DEF Left, sync, SyncTypeOK
  <2> QED
    BY <1>6, <2>1, <2>2, <2>3, ExitMoves, BystandersKept
<1> QED
  BY <1>1, <1>2, <1>3, <1>4, <1>5, <1>6 DEF ClientCall, SyncPreempt

\* The end of a switch to a thread that is not in lock_acquire.
LEMMA ResumeKept ==
  ASSUME IInv, IInv', SyncTypeOK, LockInv,
         \/ ResumeKilled /\ Left(me)
         \/ pend[me].at # "acquire" /\ (ResumeClient \/ ResumeJoin) /\ UNCHANGED sync
  PROVE  LockInv'
<1>0. me \in Tids /\ joining[me] \in Tids \cup {None}
  BY DEF IInv, TypeOK, me
<1>1. CASE ResumeKilled /\ Left(me)
  <2>1. holds[me] = {} /\ pend[me] = InClient
    BY <1>0, <1>1 DEF LockInv, LeftOutside, Gone, ResumeKilled
  <2>2. UNCHANGED sync
    BY <1>1, <2>1 DEF Left, sync, SyncTypeOK
  <2> QED
    BY <1>1, <2>1, <2>2, ExitMoves, BystandersKept DEF ResumeKilled
<1>2. CASE pend[me].at # "acquire" /\ ResumeClient /\ UNCHANGED sync
  <2>1. /\ tcb' = Cleaned
        /\ UNCHANGED <<running_thread, waitq, user_queues, created_threads, status>>
    BY <1>2 DEF ResumeClient, queues, tids
  <2>2. \A t \in Tids : Gone(t)' => Gone(t)
    BY <2>1, CleanedFacts DEF Gone, Alive
  <2> QED
    BY <1>2, <2>1, <2>2, CleanedMoves, BystandersKept DEF me
<1>3. CASE pend[me].at # "acquire" /\ ResumeJoin /\ UNCHANGED sync
  <2>1. joining[me] \in Tids /\ status = "run" /\ Reap(Cleaned, joining[me])
    BY <1>0, <1>3 DEF ResumeJoin
  <2>2. Bystanders /\ UNCHANGED <<running_thread, user_queues>>
    BY <2>1, ReapMoves
  <2>3. waitq' = waitq /\ \A t \in Tids : Gone(t)' => Gone(t)
    BY <2>1, ReapMoves
  <2> QED
    BY <1>3, <2>2, <2>3, BystandersKept DEF me
<1> QED
  BY <1>1, <1>2, <1>3

\* When the process stops no lock changes.
LEMMA StopKept ==
  ASSUME IInv, IInv', SyncTypeOK, LockInv, NEW s, s # "run", SyncStop(s)
  PROVE  LockInv'
<1>1. /\ Stop(s) /\ UNCHANGED sync /\ status' # "run"
      /\ UNCHANGED <<waitq, user_queues, created_threads, tcb>>
  BY DEF SyncStop, Stop, queues, tids
<1> QED
  BY <1>1, StopMoves, BystandersKept DEF Gone, Alive

\* Creating and destroying locks and condition variables, and waking the
\* threads of a condition variable.
LEMMA QueuesKept ==
  ASSUME IInv, IInv', SyncTypeOK, LockInv,
         \/ LockCreate \/ CvCreate \/ LockDestroy \/ CvDestroy \/ CvSignal \/ CvBroadcast
         \/ SyncOver \/ UNCHANGED all
  PROVE  LockInv'
<1>0. me \in Tids
  BY DEF IInv, TypeOK, me
<1>1. CASE LockCreate \/ CvCreate \/ SyncOver \/ UNCHANGED all
  <2>1. /\ UNCHANGED <<running_thread, resuming, waitq, created_threads, tcb, status>>
        /\ user_queues \subseteq user_queues'
    BY <1>1 DEF LockCreate, CvCreate, SyncOver, all, vars, sched, queues, tids
  <2>3. UNCHANGED sync
    <3>1. LockCreate => UNCHANGED lock
      <4> SUFFICES ASSUME LockCreate PROVE UNCHANGED lock
        OBVIOUS
      <4>1. PICK l \in Locks \ user_queues : lock' = [lock EXCEPT ![l] = FreeLock]
        BY DEF LockCreate
      <4>2. lock[l] = FreeLock
        BY <4>1 DEF LockInv, KnownLocks
      <4> QED
        BY <4>1, <4>2 DEF SyncTypeOK
    <3> QED
      BY <1>1, <3>1 DEF LockCreate, CvCreate, SyncOver, all, sync
  <2>4. status' = "run" /\ ~resuming' => pend[me'].at # "acquire"
    BY <2>1 DEF LockInv, RunsOutside, me
  <2> QED
    BY <2>1, <2>3, <2>4, NothingMoved, BystandersKept DEF Gone, Alive
<1>2. CASE LockDestroy
  <2>1. PICK l \in Locks \cap user_queues :
          \/ SyncStop(IF lock[l].free THEN "assert_wait_queue" ELSE "assert_lock")
          \/ /\ lock[l].free /\ waitq[l] = <<>>
             /\ user_queues' = user_queues \ {l}
             /\ UNCHANGED <<sched, waitq, tids, tcb, joining, zombie_tid, status, sync>>
    BY <1>2 DEF LockDestroy
  <2>2. CASE SyncStop(IF lock[l].free THEN "assert_wait_queue" ELSE "assert_lock")
    BY <2>2, StopKept
  <2>3. CASE /\ lock[l].free /\ waitq[l] = <<>>
             /\ user_queues' = user_queues \ {l}
             /\ UNCHANGED <<sched, waitq, tids, tcb, joining, zombie_tid, status, sync>>
    <3>1. UNCHANGED <<running_thread, resuming, waitq, created_threads, tcb, status>>
      BY <2>3 DEF sched, tids
    <3>2. pend[me'].at # "acquire"
      BY <1>2, <3>1, Places DEF LockDestroy, Call, me
    <3> QED
      BY <2>3, <3>1, <3>2, NothingMoved, BystandersKept DEF Gone, Alive
  <2> QED
    BY <2>1, <2>2, <2>3
<1>3. CASE CvDestroy
  <2>1. PICK c \in CVs : user_queues' = user_queues \ {c}
    BY <1>3 DEF CvDestroy
  <2>2. /\ UNCHANGED <<running_thread, resuming, waitq, created_threads, tcb, status, sync>>
        /\ pend[me] = InClient
    BY <1>3 DEF CvDestroy, sched, tids, Call
  <2> QED
    BY <2>1, <2>2, NothingMoved, BystandersKept, SyncQueues, Places DEF Gone, Alive, me
<1>4. CASE CvSignal \/ CvBroadcast
  <2>1. PICK c \in CVs :
          /\ \E S : tcb' = Awoken(tcb, S)
          /\ waitq' \in {[waitq EXCEPT ![c] = Rest(@)], [waitq EXCEPT ![c] = <<>>]}
          /\ status' \in {"assert_signal", status}
    BY <1>4 DEF CvSignal, CvBroadcast
  <2>2. /\ UNCHANGED <<running_thread, resuming, user_queues, created_threads, sync>>
        /\ pend[me] = InClient
    BY <1>4 DEF CvSignal, CvBroadcast, tids, Call
  <2>3. PICK S : tcb' = Awoken(tcb, S)
    BY <2>1
  <2>4. /\ Bystanders
        /\ \A u \in Tids : Range(waitq'[u]) \subseteq Range(waitq[u])
        /\ \A t \in Tids : Gone(t)' => Gone(t)
    BY <2>1, <2>2, <2>3, WakeMoves, SyncQueues
  <2> QED
    BY <2>2, <2>4, BystandersKept, Places DEF me
<1> QED
  BY <1>1, <1>2, <1>3, <1>4

\* lock_acquire finds the lock free.
LEMMA Taken ==
  ASSUME IInv, IInv', SyncTypeOK, LockInv, status = "run", ~tcb[me].killed,
         NEW l \in Locks, l \in user_queues, lock[l].free, l \notin holds[me],
         lock' = [lock EXCEPT ![l] = [free |-> FALSE, held_by |-> me]],
         holds' = [holds EXCEPT ![me] = @ \cup {l}],
         pend' = [pend EXCEPT ![me] = InClient],
         \A k \in Locks : pend[me] = InAcquire(k) => k = l,
         resuming' = FALSE, tcb' = Cleaned,
         UNCHANGED <<running_thread, ready_queue, queues, tids, status>>
  PROVE  LockInv'
<1> DEFINE r == [free |-> FALSE, held_by |-> me]
<1>1. /\ me \in Tids /\ Alive(me) /\ me' = me
      /\ \A q \in WaitQueues : me \notin Range(waitq[q])
  BY WhereIs DEF Whereabouts, me
<1>2. UNCHANGED <<waitq, user_queues, created_threads, ready_queue>>
  BY DEF queues, tids
<1>3. /\ \A k \in Locks : k # l => lock'[k] = lock[k]
      /\ lock'[l] = r /\ ~lock'[l].free /\ lock'[l].held_by = me
      /\ \A t \in Tids : t # me => holds'[t] = holds[t] /\ pend'[t] = pend[t]
      /\ holds'[me] = holds[me] \cup {l} /\ pend'[me] = InClient
  BY <1>1 DEF SyncTypeOK
<1>4. \A t \in Tids : Gone(t)' <=> Gone(t)
  BY <1>2, CleanedFacts DEF Gone, Alive
<1> USE DEF LockInv
<1>5. KnownLocks'
  BY <1>2, <1>3 DEF KnownLocks
<1>6. SleepersInside'
  BY <1>1, <1>2, <1>3, SyncQueues DEF SleepersInside, WaitQueues
<1>7. StepsHold'
  <2>1. \A t \in Tids : t # me => holds'[t] = holds[t] /\ pend'[t] = pend[t]
    BY <1>3
  <2>2. pend'[me].at = "client"
    BY <1>3, Places
  <2> QED
    BY <2>1, <2>2 DEF StepsHold
<1>8. LeftOutside'
  <2>1. ~Gone(me)
    BY <1>1 DEF Gone
  <2> QED
    BY <1>3, <1>4, <2>1 DEF LeftOutside
<1>9. RunsOutside'
  BY <1>1, <1>3, Places DEF RunsOutside
<1>10. LockHeldOnce'
  <2>1. \A t \in Tids : l \notin holds[t]
    BY DEF LockHeldOnce
  <2>2. {t \in Tids : l \in holds'[t]} = {me}
    BY <1>1, <1>3, <2>1
  <2>3. \A k \in Locks : k # l => {t \in Tids : k \in holds'[t]} = {t \in Tids : k \in holds[t]}
    BY <1>3
  <2> QED
    BY <1>3, <2>2, <2>3 DEF LockHeldOnce
<1>11. NoStrandedWaiter'
  <2> SUFFICES ASSUME NEW k \in Locks, lock'[k].free, waitq'[k] # <<>>
               PROVE  \E t \in Ready' \cup {running_thread'} : pend'[t] = InAcquire(k)
    BY DEF NoStrandedWaiter
  <2>1. k # l /\ lock[k].free /\ waitq[k] # <<>>
    BY <1>2, <1>3
  <2>2. PICK t \in Ready \cup {running_thread} : pend[t] = InAcquire(k)
    BY <2>1 DEF NoStrandedWaiter
  <2>3. t # me /\ t \in Tids
    BY <2>1, <2>2, WhereIs DEF Whereabouts, me
  <2>4. Ready' = Ready
    BY DEF Ready
  <2> QED
    BY <1>3, <2>2, <2>3, <2>4
<1> QED
  BY <1>5, <1>6, <1>7, <1>8, <1>9, <1>10, <1>11

\* The running thread goes to sleep in the queue of a lock that is taken or of
\* a condition variable, at place p of its call.
LEMMA Slept ==
  ASSUME IInv, IInv', SyncTypeOK, LockInv, status = "run", ~tcb[me].killed,
         NEW q \in Locks \cup CVs, q \in user_queues, ready_queue # <<>>,
         thread_sleep(Cleaned, q),
         NEW p \in Pending, pend' = [pend EXCEPT ![me] = p],
         q \in Locks => p = InAcquire(q) /\ ~lock[q].free,
         q \in CVs => p.at = "relock",
         p.lock \notin holds[me],
         \A k \in Locks : pend[me] = InAcquire(k) => ~lock[k].free,
         UNCHANGED <<user_queues, tids, status, lock, holds>>
  PROVE  LockInv'
<1>1. /\ me \in Tids /\ Alive(me) /\ q \in WaitQueues /\ waitq[q] \in Seq(Tids)
      /\ \A s \in WaitQueues : me \notin Range(waitq[s])
      /\ IsInjective(waitq[q]) /\ waitq \in [WaitQueues -> Seq(Tids)]
  BY WhereIs, SyncQueues DEF Whereabouts, IInv, TypeOK, OnePlace
<1>2. waitq' = [waitq EXCEPT ![q] = Append(@, me)] /\ resuming'
  BY Zenon DEF thread_sleep, thread_yield, SwitchTo
<1>3. /\ Range(waitq'[q]) = Range(waitq[q]) \cup {me}
      /\ \A s \in WaitQueues : s # q => waitq'[s] = waitq[s]
  BY <1>1, <1>2, AppendedNew
<1>4. p.at \in {"acquire", "relock"} /\ p # InClient
  BY Places
<1>5. /\ \A t \in Tids : t # me => pend'[t] = pend[t]
      /\ pend'[me] = p
  BY <1>1 DEF SyncTypeOK
<1>6. \A t \in Tids : t # me => (Gone(t)' <=> Gone(t))
  <2>1. tcb' = [Cleaned EXCEPT ![me].sleeping = TRUE]
    BY Zenon DEF thread_sleep
  <2>2. \A t \in Tids : t # me => tcb'[t] = Cleaned[t]
    BY <2>1, CleanedFacts
  <2> QED
    BY <2>2, CleanedFacts DEF Gone, Alive, tids
<1>7. \A t \in Tids : t = me => ~Gone(t)'
  <2>1. tcb' = [Cleaned EXCEPT ![me].sleeping = TRUE]
    BY Zenon DEF thread_sleep
  <2>2. PICK m \in Tids : m = me
    BY <1>1
  <2>3. Cleaned[m] \in TCB /\ tcb'[m] = [Cleaned[m] EXCEPT !.sleeping = TRUE]
    BY <2>1, <2>2, CleanedFacts
  <2>4. tcb'[m].killed = Cleaned[m].killed /\ tcb'[m].exit = Cleaned[m].exit
    BY <2>3 DEF TCB
  <2>5. tcb'[m].killed = FALSE /\ tcb'[m].exit = None /\ m \in created_threads'
    BY <1>1, <2>2, <2>4, CleanedFacts DEF Alive, tids
  <2> QED
    BY <2>2, <2>5 DEF Gone, Alive
<1> USE DEF LockInv
<1>8. KnownLocks'
  <2>1. \A l \in Locks : l \notin user_queues => waitq'[l] = waitq[l]
    BY <1>3, SyncQueues
  <2> QED
    BY <2>1 DEF KnownLocks
<1>9. SleepersInside'
  <2>1. ASSUME NEW t \in Tids, NEW l \in Locks, t \in Range(waitq'[l])
        PROVE  pend'[t] = InAcquire(l)
    BY <2>1, <1>1, <1>3, <1>5, SyncQueues DEF SleepersInside
  <2>2. ASSUME NEW t \in Tids, NEW c \in CVs, t \in Range(waitq'[c])
        PROVE  pend'[t].at = "relock"
    BY <2>2, <1>1, <1>3, <1>5, SyncQueues DEF SleepersInside
  <2>3. ASSUME NEW t \in Tids, NEW u \in Tids, t \in Range(waitq'[u])
        PROVE  pend'[t] = InClient /\ holds'[t] = {}
    <3>1. waitq'[u] = waitq[u] /\ t # me
      BY <2>3, <1>1, <1>3, SyncQueues DEF WaitQueues
    <3> QED
      BY <2>3, <3>1, <1>5 DEF SleepersInside
  <2> QED
    BY <2>1, <2>2, <2>3 DEF SleepersInside
<1>10. StepsHold'
  BY <1>4, <1>5 DEF StepsHold
<1>11. LeftOutside'
  BY <1>5, <1>6, <1>7 DEF LeftOutside
<1>12. RunsOutside'
  BY <1>2 DEF RunsOutside
<1>13. LockHeldOnce'
  BY DEF LockHeldOnce
<1>14. NoStrandedWaiter'
  <2> SUFFICES ASSUME NEW k \in Locks, lock[k].free, waitq'[k] # <<>>
               PROVE  \E t \in Ready' \cup {running_thread'} : pend'[t] = InAcquire(k)
    BY DEF NoStrandedWaiter
  <2>1. k # q /\ waitq[k] # <<>>
    BY <1>3, SyncQueues
  <2>2. PICK t \in Ready \cup {running_thread} : pend[t] = InAcquire(k)
    BY <2>1 DEF NoStrandedWaiter
  <2>3. t # me /\ t \in Tids
    BY <2>1, <2>2, WhereIs DEF Whereabouts, me
  <2>4. \A s \in WaitQueues : t \notin Range(waitq[s])
    BY <2>2, <2>3, WhereIs DEF Whereabouts, me
  <2>5. \A s \in Locks \cup CVs : t \notin Range(waitq'[s])
    BY <2>3, <2>4, <1>3, SyncQueues
  <2>6. pend'[t] = InAcquire(k) /\ pend'[t] # InClient
    BY <2>2, <2>3, <1>5, Places
  <2> QED
    BY <1>9, <1>11, <2>3, <2>5, <2>6, OnItsWay
<1> QED
  BY <1>8, <1>9, <1>10, <1>11, <1>12, <1>13, <1>14

\* The running thread goes on to the next step of cv_wait, and nothing else
\* changes.
LEMMA Moved ==
  ASSUME IInv, IInv', SyncTypeOK, LockInv, status = "run", ~tcb[me].killed,
         NEW p \in Pending, pend' = [pend EXCEPT ![me] = p],
         p.at \in {"unlock", "relock"},
         IF p.at = "unlock" THEN p.lock \in holds[me] ELSE p.lock \notin holds[me],
         pend[me].at # "acquire",
         UNCHANGED <<sched, queues, tids, tcb, lock, holds>>
  PROVE  LockInv'
<1>1. /\ me \in Tids /\ Alive(me)
      /\ \A q \in WaitQueues : me \notin Range(waitq[q])
  BY WhereIs DEF Whereabouts
<1>2. /\ UNCHANGED <<running_thread, resuming, ready_queue, waitq, user_queues>>
      /\ \A t \in Tids : Gone(t)' <=> Gone(t)
  BY DEF sched, queues, tids, Gone, Alive
<1>3. /\ \A t \in Tids : t # me => pend'[t] = pend[t]
      /\ pend'[me] = p
  BY <1>1 DEF SyncTypeOK
<1> USE DEF LockInv
<1>4. KnownLocks'
  BY <1>2 DEF KnownLocks
<1>5. SleepersInside'
  BY <1>1, <1>2, <1>3, SyncQueues DEF SleepersInside, WaitQueues
<1>6. StepsHold'
  BY <1>3 DEF StepsHold
<1>7. LeftOutside'
  BY <1>1, <1>2, <1>3 DEF LeftOutside, Gone
<1>8. RunsOutside'
  BY <1>2, <1>3 DEF RunsOutside, me
<1>9. LockHeldOnce'
  BY DEF LockHeldOnce
<1>10. NoStrandedWaiter'
  <2> SUFFICES ASSUME NEW l \in Locks, lock[l].free, waitq[l] # <<>>
               PROVE  \E t \in Ready' \cup {running_thread'} : pend'[t] = InAcquire(l)
    BY <1>2 DEF NoStrandedWaiter
  <2>1. PICK t \in Ready \cup {running_thread} : pend[t] = InAcquire(l)
    BY DEF NoStrandedWaiter
  <2>2. t # me /\ t \in Tids
    BY <2>1, Places, WhereIs DEF Whereabouts, me
  <2>3. Ready' = Ready
    BY <1>2 DEF Ready
  <2> QED
    BY <1>2, <1>3, <2>1, <2>2, <2>3
<1> QED
  BY <1>4, <1>5, <1>6, <1>7, <1>8, <1>9, <1>10

\* lock_release by the thread that holds the lock, at place p of its call then.
LEMMA Released ==
  ASSUME IInv, IInv', SyncTypeOK, LockInv, status = "run", ~tcb[me].killed,
         NEW l \in Locks, lock_release(l), l \in holds[me],
         NEW p \in Pending, pend' = [pend EXCEPT ![me] = p],
         p = InClient \/ (p.at = "sleep" /\ p.lock = l),
         pend[me].at # "acquire",
         UNCHANGED <<running_thread, resuming, user_queues, tids, status>>
  PROVE  LockInv'
<1>1. /\ me \in Tids /\ Alive(me) /\ l \in WaitQueues
      /\ waitq \in [WaitQueues -> Seq(Tids)]
      /\ \A q \in WaitQueues : me \notin Range(waitq[q])
  BY WhereIs, SyncQueues DEF Whereabouts, IInv, TypeOK
<1>2. /\ lock' = [lock EXCEPT ![l] = FreeLock]
      /\ holds' = [holds EXCEPT ![me] = @ \ {l}]
      /\ tcb' = Awoken(tcb, First(waitq[l]))
      /\ ready_queue' = ReadyAfterWakeup(waitq[l])
      /\ waitq' = [waitq EXCEPT ![l] = Rest(@)]
  BY DEF lock_release
<1>3. /\ \A k \in Locks : k # l => lock'[k] = lock[k]
      /\ lock'[l] = FreeLock
      /\ \A t \in Tids : t # me => holds'[t] = holds[t] /\ pend'[t] = pend[t]
      /\ holds'[me] = holds[me] \ {l} /\ pend'[me] = p
  BY <1>1, <1>2 DEF SyncTypeOK
<1>4. /\ \A q \in WaitQueues : /\ Range(waitq'[q]) \subseteq Range(waitq[q])
                               /\ q # l => waitq'[q] = waitq[q]
      /\ waitq'[l] = Rest(waitq[l])
      /\ Ready' = Ready \cup First(waitq[l])
      /\ First(waitq[l]) \subseteq Range(waitq[l])
  BY <1>1, <1>2, WakeFirst, WaitQueueAfterWakeup DEF Ready
<1>5. \A t \in Tids : Gone(t)' <=> Gone(t)
  <2>1. created_threads' = created_threads
    BY DEF tids
  <2> QED
    BY <1>2, <2>1, AwokenStay
<1>6. {t \in Tids : l \in holds[t]} = {me} /\ ~lock[l].free
  BY <1>1 DEF LockInv, LockHeldOnce
<1> USE DEF LockInv
<1>7. KnownLocks'
  <2>1. l \in user_queues
    BY <1>6 DEF KnownLocks
  <2> QED
    BY <2>1, <1>3, <1>4, SyncQueues DEF KnownLocks
<1>8. SleepersInside'
  <2>1. ASSUME NEW t \in Tids, NEW q \in WaitQueues, t \in Range(waitq'[q])
        PROVE  t \in Range(waitq[q]) /\ pend'[t] = pend[t] /\ holds'[t] = holds[t]
    BY <2>1, <1>1, <1>3, <1>4
  <2> QED
    BY <2>1, SyncQueues DEF SleepersInside, WaitQueues
<1>9. StepsHold'
  BY <1>3, Places DEF StepsHold
<1>10. LeftOutside'
  <2>1. ~Gone(me)
    BY <1>1 DEF Gone
  <2> QED
    BY <1>3, <1>5, <2>1 DEF LeftOutside
<1>11. RunsOutside'
  BY <1>3, Places DEF RunsOutside, me
<1>12. LockHeldOnce'
  <2>1. {t \in Tids : l \in holds'[t]} = {} /\ lock'[l].free
    BY <1>3, <1>6 DEF FreeLock
  <2>2. \A k \in Locks : k # l => {t \in Tids : k \in holds'[t]} = {t \in Tids : k \in holds[t]}
    BY <1>3
  <2> QED
    BY <1>3, <2>1, <2>2 DEF LockHeldOnce
<1>13. NoStrandedWaiter'
  <2> SUFFICES ASSUME NEW k \in Locks, lock'[k].free, waitq'[k] # <<>>
               PROVE  \E t \in Ready' \cup {running_thread'} : pend'[t] = InAcquire(k)
    BY DEF NoStrandedWaiter
  <2>1. CASE k = l
    <3>1. waitq[l] # <<>>
      BY <2>1, <1>4 DEF Rest
    <3>2. First(waitq[l]) = {Head(waitq[l])}
      BY <3>1 DEF First
    <3>3. Head(waitq[l]) \in Range(waitq[l])
      BY <3>2, <1>4
    <3>4. Head(waitq[l]) \in Tids /\ Head(waitq[l]) # me
      BY <3>3, <1>1, WhereIs DEF Whereabouts
    <3>5. pend'[Head(waitq[l])] = InAcquire(l)
      BY <3>3, <3>4, <1>3 DEF SleepersInside
    <3> QED
      BY <2>1, <3>2, <3>5, <1>4
  <2>2. CASE k # l
    <3>1. lock[k].free /\ waitq[k] # <<>>
      BY <2>2, <1>3, <1>4, SyncQueues
    <3>2. PICK t \in Ready \cup {running_thread} : pend[t] = InAcquire(k)
      BY <3>1 DEF NoStrandedWaiter
    <3>3. t # me /\ t \in Tids
      BY <3>2, Places, WhereIs DEF Whereabouts, me
    <3> QED
      BY <1>3, <1>4, <3>2, <3>3
  <2> QED
    BY <2>1, <2>2
<1> QED
  BY <1>7, <1>8, <1>9, <1>10, <1>11, <1>12, <1>13

\* The loop of lock_acquire: in a call, at the end of cv_wait, or when a thread
\* that slept in it is switched to.
LEMMA AcquireKept ==
  ASSUME IInv, IInv', SyncTypeOK, LockInv, status = "run", ~tcb[me].killed,
         NEW l \in Locks, lock_acquire(l), l \notin holds[me],
         \A k \in Locks : pend[me] = InAcquire(k) => k = l
  PROVE  LockInv'
<1>1. CASE \E s : s # "run" /\ SyncStop(s)
  BY <1>1, StopKept
<1>2. CASE /\ l \in user_queues /\ lock[l].free
           /\ lock' = [lock EXCEPT ![l] = [free |-> FALSE, held_by |-> me]]
           /\ holds' = [holds EXCEPT ![me] = @ \cup {l}]
           /\ pend' = [pend EXCEPT ![me] = InClient]
           /\ resuming' = FALSE
           /\ tcb' = Cleaned
           /\ UNCHANGED <<running_thread, ready_queue, queues, tids, status>>
  BY <1>2, Taken
<1>3. CASE /\ l \in user_queues
           /\ ~lock[l].free
           /\ ready_queue # <<>>
           /\ thread_sleep(Cleaned, l)
           /\ pend' = [pend EXCEPT ![me] = InAcquire(l)]
           /\ UNCHANGED <<user_queues, tids, status, lock, holds>>
  <2>1. InAcquire(l) \in Pending /\ InAcquire(l).lock = l /\ l \notin CVs
    BY Places, SyncQueues DEF Pending
  <2> QED
    BY <1>3, <2>1, Slept
<1> QED
  BY <1>1, <1>2, <1>3 DEF lock_acquire

\* The steps of cv_wait.
LEMMA WaitKept ==
  ASSUME IInv, IInv', SyncTypeOK, LockInv, CvWait \/ CvUnlock \/ CvSleep \/ CvRelock
  PROVE  LockInv'
<1>1. /\ status = "run" /\ ~resuming /\ ~tcb[me].killed /\ me \in Tids /\ pend[me] \in Pending
      /\ Cleaned = tcb
  BY CleanedFacts DEF CvWait, CvUnlock, CvSleep, CvRelock, Call, Client, At, IInv, TypeOK, me,
                      KilledNeverRuns, SyncTypeOK
<1>2. CASE CvWait
  <2>1. PICK c \in CVs, l \in Locks :
          lock[l].held_by = me /\ pend' = [pend EXCEPT ![me] = InWait("unlock", c, l)]
    BY <1>2 DEF CvWait
  <2>2. l \in holds[me]
    <3>1. None # me
      BY <1>1, NoneIsNoTid
    <3>2. ~lock[l].free
      BY <2>1, <3>1 DEF LockInv, KnownLocks, FreeLock
    <3> QED
      BY <2>1, <3>2 DEF LockInv, LockHeldOnce
  <2>3. InWait("unlock", c, l) \in Pending
    BY DEF Pending
  <2>4. UNCHANGED <<sched, queues, tids, tcb, lock, holds>> /\ pend[me].at # "acquire"
    BY <1>2, Places DEF CvWait, Call, vars
  <2> DEFINE p == InWait("unlock", c, l)
  <2>5. p \in Pending /\ p.at = "unlock" /\ p.lock = l /\ pend' = [pend EXCEPT ![me] = p]
    BY <2>1, <2>3, Places
  <2> HIDE DEF p
  <2> QED
    BY <1>1, <2>2, <2>4, <2>5, Moved
<1>3. CASE CvUnlock
  <2> DEFINE l == pend[me].lock
             p == [pend[me] EXCEPT !.at = "sleep"]
  <2>1. pend[me].at = "unlock" /\ l \in Locks /\ p \in Pending /\ p.at = "sleep" /\ p.lock = l
    BY <1>1, <1>3, PendFacts DEF CvUnlock, At
  <2>2. l \in holds[me]
    BY <1>1, <2>1 DEF LockInv, StepsHold
  <2>3. pend' = [pend EXCEPT ![me] = p] /\ lock_release(l)
    BY <1>3 DEF CvUnlock
  <2>4. UNCHANGED <<running_thread, resuming, user_queues, tids, status>>
    BY <1>3 DEF CvUnlock
  <2> HIDE DEF l, p
  <2> QED
    BY <1>1, <2>1, <2>2, <2>3, <2>4, Released DEF l
<1>4. CASE CvSleep
  <2> DEFINE c == pend[me].cv
             p == [pend[me] EXCEPT !.at = "relock"]
  <2>1. /\ pend[me].at = "sleep" /\ c \in CVs
        /\ p \in Pending /\ p.at = "relock" /\ p.lock = pend[me].lock
    BY <1>1, <1>4, PendFacts DEF CvSleep, At
  <2>2. p.lock \notin holds[me]
    BY <1>1, <2>1 DEF LockInv, StepsHold
  <2>3. pend' = [pend EXCEPT ![me] = p] /\ UNCHANGED <<lock, holds>>
    BY <1>4 DEF CvSleep
  <2>4. CASE UNCHANGED <<sched, queues, tids, tcb>>
    <3> HIDE DEF p
    <3> QED
      BY <1>1, <2>1, <2>2, <2>3, <2>4, Moved
  <2>5. CASE /\ c \in user_queues
             /\ ready_queue # <<>>
             /\ thread_sleep(tcb, c)
             /\ UNCHANGED <<user_queues, tids, joining, zombie_tid, status>>
    <3>1. \A k \in Locks : pend[me] # InAcquire(k)
      BY <2>1, Places
    <3> HIDE DEF c, p
    <3> QED
      BY <1>1, <2>1, <2>2, <2>3, <2>5, <3>1, Slept, SyncQueues
  <2> QED
    BY <1>4, <2>4, <2>5 DEF CvSleep, Stop, vars
<1>5. CASE CvRelock
  <2>1. pend[me].at = "relock" /\ pend[me].lock \in Locks /\ lock_acquire(pend[me].lock)
    BY <1>1, <1>5, PendFacts DEF CvRelock, At
  <2>2. pend[me].lock \notin holds[me]
    BY <1>1, <2>1 DEF LockInv, StepsHold
  <2>3. \A k \in Locks : pend[me] # InAcquire(k)
    BY <2>1, Places
  <2> QED
    BY <1>1, <2>1, <2>2, <2>3, AcquireKept
<1> QED
  BY <1>2, <1>3, <1>4, <1>5

-----------------------------------------------------------------------------
\* Each step of a disciplined client keeps the invariant of the locks.
LEMMA LockStep ==
  ASSUME Disciplined, ~KillsInside, IInv, IInv', SyncTypeOK, LockInv, [SyncNext]_all
  PROVE  LockInv'
<1>1. CASE ClientCall \/ SyncPreempt
  BY <1>1, ClientKept
<1>2. CASE \/ LockCreate \/ CvCreate \/ LockDestroy \/ CvDestroy \/ CvSignal \/ CvBroadcast
           \/ SyncOver \/ UNCHANGED all
  BY <1>2, QueuesKept
<1>3. CASE CvWait \/ CvUnlock \/ CvSleep \/ CvRelock
  BY <1>3, WaitKept
<1>4. CASE SyncResume
  <2>1. CASE /\ status = "run" /\ resuming /\ ~tcb[me].killed
             /\ pend[me].at = "acquire"
             /\ lock_acquire(pend[me].lock)
    <3>1. me \in Tids /\ pend[me] \in Pending
      BY DEF IInv, TypeOK, me, SyncTypeOK
    <3>2. pend[me].lock \in Locks /\ pend[me].lock \notin holds[me]
      BY <2>1, <3>1, PendFacts DEF LockInv, StepsHold
    <3>3. \A k \in Locks : pend[me] = InAcquire(k) => k = pend[me].lock
      BY Places
    <3> QED
      BY <2>1, <3>2, <3>3, AcquireKept
  <2> QED
    BY <1>4, <2>1, ResumeKept DEF SyncResume
<1>5. CASE LockAcquire
  <2>1. PICK l \in Locks : l \notin holds[me] /\ lock_acquire(l)
    BY <1>5 DEF LockAcquire
  <2>2. status = "run" /\ ~tcb[me].killed /\ pend[me] = InClient
    BY <1>5 DEF LockAcquire, Call, Client, IInv, KilledNeverRuns, me
  <2>3. \A k \in Locks : pend[me] # InAcquire(k)
    BY <2>2, Places
  <2> QED
    BY <2>1, <2>2, <2>3, AcquireKept
<1>6. CASE LockRelease
  <2>1. PICK l \in Locks : l \in holds[me] /\ lock_release(l)
    BY <1>6 DEF LockRelease
  <2>2. status = "run" /\ ~tcb[me].killed /\ pend[me] = InClient
    BY <1>6 DEF LockRelease, Call, Client, IInv, KilledNeverRuns, me
  <2>3. /\ InClient \in Pending /\ pend[me].at # "acquire"
        /\ pend' = [pend EXCEPT ![me] = InClient]
    BY <1>6, <2>2, Places DEF LockRelease, Pending, SyncTypeOK
  <2>4. UNCHANGED <<running_thread, resuming, user_queues, tids, status>>
    BY <1>6 DEF LockRelease
  <2> QED
    BY <2>1, <2>2, <2>3, <2>4, Released
<1> QED
  BY <1>1, <1>2, <1>3, <1>4, <1>5, <1>6 DEF SyncNext

LEMMA LockInit == SyncInit => LockInv
<1> SUFFICES ASSUME SyncInit PROVE LockInv
  OBVIOUS
<1>1. /\ \A l \in Locks : lock[l] = FreeLock
      /\ \A t \in Tids : pend[t] = InClient /\ holds[t] = {}
      /\ \A q \in WaitQueues : waitq[q] = <<>>
      /\ resuming = FALSE /\ me \in Tids
  BY MaxThreadsAssumption DEF SyncInit, Init, me, Tids
<1>2. FreeLock.free = TRUE /\ Range(<<>>) = {}
  BY DEF FreeLock, Range
<1> QED
  BY <1>1, <1>2, SyncQueues, Places
  DEF LockInv, KnownLocks, SleepersInside, StepsHold, LeftOutside, RunsOutside, LockHeldOnce,
      NoStrandedWaiter, WaitQueues

\* The locks under a disciplined client that kills no thread inside a call.
THEOREM LockInvariance ==
  ASSUME None \notin ExitCodes, Disciplined, ~KillsInside
  PROVE  SyncSpec => [](IInv /\ SyncTypeOK /\ LockInv)
<1>1. IInv /\ SyncTypeOK /\ LockInv /\ [SyncNext]_all => (IInv /\ SyncTypeOK /\ LockInv)'
  BY SyncSched, SyncTypes, LockStep
<1>2. SyncInit => IInv /\ SyncTypeOK /\ LockInv
  BY SyncInitTypes, LockInit
<1> QED
  BY <1>1, <1>2, PTL DEF SyncSpec

(***************************************************************************)
(* Mutual exclusion, for any number of threads and locks: a lock is free   *)
(* exactly when no thread is between its lock_acquire and its lock_release *)
(* and held_by names the only one that is, however the switches inside     *)
(* lock_acquire and cv_wait fall.                                          *)
(***************************************************************************)
THEOREM LocksHeldOnce ==
  ASSUME None \notin ExitCodes, Disciplined, ~KillsInside
  PROVE  SyncSpec => []LockHeldOnce
<1>1. LockInv => LockHeldOnce
  BY DEF LockInv
<1> QED
  BY <1>1, LockInvariance, PTL

(***************************************************************************)
(* No wakeup of a lock is lost: while threads sleep on a free lock, one    *)
(* that lock_release woke is still on its way to test free again.          *)
(***************************************************************************)
THEOREM NoWaiterStranded ==
  ASSUME None \notin ExitCodes, Disciplined, ~KillsInside
  PROVE  SyncSpec => []NoStrandedWaiter
<1>1. LockInv => NoStrandedWaiter
  BY DEF LockInv
<1> QED
  BY <1>1, LockInvariance, PTL

-----------------------------------------------------------------------------
(***************************************************************************)
(* With one lock lock_acquire never spins for ever: the holder of the lock *)
(* is neither asleep nor gone, so the ready queue is not empty.            *)
(***************************************************************************)

\* Some thread other than the running one holds a lock that is taken, and it
\* can run.
LEMMA HolderReady ==
  ASSUME IInv, SyncTypeOK, LockInv, NEW l \in Locks, ~lock[l].free, l \notin holds[me],
         \A k \in Locks : k = l
  PROVE  ready_queue # <<>>
<1>1. PICK h \in Tids : l \in holds[h] /\ h # me
  BY DEF LockInv, LockHeldOnce
<1>2. Alive(h)
  BY <1>1 DEF LockInv, LeftOutside, Gone
<1>3. ASSUME NEW q \in WaitQueues, h \in Range(waitq[q]) PROVE FALSE
  <2>1. CASE q \in Locks
    <3>1. pend[h] = InAcquire(l)
      BY <1>3, <2>1 DEF LockInv, SleepersInside
    <3> QED
      BY <1>1, <3>1, Places DEF LockInv, StepsHold
  <2>2. CASE q \in CVs
    <3>1. pend[h].at = "relock"
      BY <1>3, <2>2 DEF LockInv, SleepersInside
    <3>2. pend[h].lock = l
      <4>1. pend[h] \in Pending
        BY DEF SyncTypeOK
      <4> QED
        BY <3>1, <4>1, PendFacts
    <3> QED
      BY <1>1, <3>1, <3>2 DEF LockInv, StepsHold
  <2>3. CASE q \in Tids
    BY <1>1, <1>3, <2>3 DEF LockInv, SleepersInside
  <2> QED
    BY <2>1, <2>2, <2>3, SyncAssumption DEF WaitQueues
<1>4. h \in Ready
  BY <1>1, <1>2, <1>3, WhereIs DEF Whereabouts, me
<1> QED
  BY <1>4 DEF Ready, Range

\* Only lock_acquire, on a lock that is taken, with no thread ready, spins.
LEMMA OnlyAcquireHangs ==
  ASSUME IInv, SyncTypeOK, LockInv, Disciplined, [SyncNext]_all, status # "hang",
         status' = "hang"
  PROVE  \E l \in Locks : ~lock[l].free /\ l \notin holds[me] /\ ready_queue = <<>>
<1>0. me \in Tids /\ pend[me] \in Pending
  BY DEF IInv, TypeOK, me, SyncTypeOK
<1>1. ASSUME NEW tc, NEW code, status = "run", thread_exit(tc, code) PROVE FALSE
  <2>1. \A wqs, tc2 : freeup_leftover_zombies(tc2, wqs) # "hang"
    BY Zenon DEF freeup_leftover_zombies
  <2> QED
    BY <1>1, <2>1 DEF thread_exit, Stop
<1>2. ASSUME NEW tc, NEW t, status = "run", Reap(tc, t) PROVE FALSE
  <2>1. ReapOutcome(tc, t) # "hang"
    BY DEF ReapOutcome
  <2> QED
    BY <1>2, <2>1 DEF Reap, Stop
<1>3. ASSUME NEW l \in Locks, lock_acquire(l)
      PROVE  ~lock[l].free /\ ready_queue = <<>>
  BY <1>3 DEF lock_acquire, SyncStop, Stop
<1>4. CASE SyncResume
  <2>1. CASE pend[me].at = "acquire" /\ lock_acquire(pend[me].lock)
    <3>1. pend[me].lock \in Locks /\ pend[me].lock \notin holds[me]
      BY <2>1, <1>0, PendFacts DEF LockInv, StepsHold
    <3> QED
      BY <2>1, <3>1, <1>3
  <2> QED
    BY <1>4, <2>1, <1>1, <1>2 DEF SyncResume, ResumeKilled, ResumeClient, ResumeJoin
<1>5. ~SyncPreempt /\ ~SyncOver /\ ~UNCHANGED all
  BY DEF SyncPreempt, Preempt, SyncOver, all, vars
<1>6. ~ClientCall
  BY <1>1, <1>2 DEF ClientCall, Yield, Create, Kill, WaitExited, WaitAlive, Exit, Client, Stop
<1>7. CASE LockAcquire
  BY <1>7, <1>3 DEF LockAcquire
<1>8. CASE CvRelock
  <2>1. /\ pend[me].at = "relock" /\ lock_acquire(pend[me].lock)
        /\ pend[me].lock \in Locks /\ pend[me].lock \notin holds[me]
    BY <1>8, <1>0, PendFacts DEF CvRelock, At, LockInv, StepsHold
  <2> QED
    BY <2>1, <1>3
<1>9. ~LockCreate /\ ~LockDestroy /\ ~LockRelease /\ ~CvCreate /\ ~CvDestroy
  BY DEF LockCreate, LockDestroy, SyncStop, Stop, LockRelease, CvCreate, CvDestroy
<1>10. ~CvWait /\ ~CvUnlock /\ ~CvSleep /\ ~CvSignal /\ ~CvBroadcast
  BY DEF CvWait, vars, CvUnlock, CvSleep, Stop, CvSignal, CvBroadcast
<1> QED
  BY <1>4, <1>5, <1>6, <1>7, <1>8, <1>9, <1>10 DEF SyncNext

(***************************************************************************)
(* lock_acquire never spins with the signal off when the client has one    *)
(* lock: the condition under which it would, nobody else ready, cannot     *)
(* arise while another thread holds it.                                    *)
(***************************************************************************)
THEOREM OneLockNeverHangs ==
  ASSUME None \notin ExitCodes, Disciplined, ~KillsInside,
         \A k, l \in Locks : k = l
  PROVE  SyncSpec => []NoHang
<1>1. IInv /\ SyncTypeOK /\ LockInv /\ NoHang /\ [SyncNext]_all => NoHang'
  BY HolderReady, OnlyAcquireHangs DEF NoHang
<1>2. SyncInit => NoHang
  BY DEF SyncInit, Init, NoHang
<1> QED
  BY <1>1, <1>2, LockInvariance, PTL DEF SyncSpec
-----------------------------------------------------------------------------
(***************************************************************************)
(* What LockProgress rests on, beside NoStrandedWaiter: the threads that   *)
(* locks and condition variables wake move up in the ready queue with the  *)
(* others.                                                                 *)
(***************************************************************************)

\* A test of free: the thread that finds the lock taken gives the processor to
\* the head.
LEMMA AcquireMovesUp ==
  ASSUME IInv, IInv', NEW l, lock_acquire(l)
  PROVE  MovesUp
<1>1. ready_queue \in Seq(Tids)
  BY DEF IInv, TypeOK
<1>2. CASE UNCHANGED ready_queue
  BY <1>1, <1>2, TailExtends, OnlyAdds DEF ExtendsQueue
<1>3. CASE ready_queue # <<>> /\ thread_sleep(Cleaned, l)
  BY <1>3, SleepMovesUp
<1> QED
  BY <1>2, <1>3 DEF lock_acquire, SyncStop, Stop, sched

\* A wakeup puts the thread at the tail.
LEMMA WakeupMovesUp ==
  ASSUME IInv, IInv', NEW q \in Locks \cup CVs, ready_queue' = ReadyAfterWakeup(waitq[q])
  PROVE  MovesUp
BY SyncQueues, WakeupExtends, OnlyAdds

\* No step of ThreadSync moves a ready thread back.
LEMMA SyncMovesUp ==
  ASSUME IInv, IInv', SyncTypeOK, [SyncNext]_all
  PROVE  MovesUp
<1>1. ready_queue \in Seq(Tids) /\ pend[me] \in Pending
  BY DEF IInv, TypeOK, SyncTypeOK, me
<1>2. ASSUME UNCHANGED ready_queue PROVE MovesUp
  BY <1>1, <1>2, OnlyAdds DEF ExtendsQueue
<1>3. CASE /\ pend[me].at = "acquire"
           /\ lock_acquire(pend[me].lock)
  BY <1>3, AcquireMovesUp
<1>4. CASE SyncResume \/ SyncPreempt \/ ClientCall
  BY <1>3, <1>4, NextMovesUp DEF SyncResume, SyncPreempt, ClientCall, Next, Resume
<1>5. CASE LockAcquire \/ CvRelock
  BY <1>5, AcquireMovesUp DEF LockAcquire, CvRelock
<1>6. CASE LockRelease \/ CvUnlock
  <2>1. PICK l \in Locks : ready_queue' = ReadyAfterWakeup(waitq[l])
    BY <1>1, <1>6, PendFacts DEF LockRelease, CvUnlock, lock_release, At
  <2> QED
    BY <2>1, WakeupMovesUp
<1>7. CASE CvSignal
  <2>1. PICK c \in CVs : ready_queue' = ReadyAfterWakeup(waitq[c])
    BY <1>7 DEF CvSignal
  <2> QED
    BY <2>1, WakeupMovesUp
<1>8. CASE CvBroadcast
  <2>1. PICK c \in CVs : ready_queue' = ready_queue \o waitq[c]
    BY <1>8 DEF CvBroadcast
  <2>2. waitq[c] \in Seq(Tids)
    BY SyncQueues DEF IInv, TypeOK
  <2>3. ExtendsQueue(ready_queue', ready_queue)
    BY <1>1, <2>1, <2>2 DEF ExtendsQueue
  <2> QED
    BY <2>3, OnlyAdds
<1>9. CASE CvSleep
  <2>1. \/ UNCHANGED ready_queue
        \/ ready_queue # <<>> /\ thread_sleep(tcb, pend[me].cv)
    BY <1>9 DEF CvSleep, Stop, sched, vars
  <2> QED
    BY <2>1, <1>2, SleepMovesUp
<1>10. CASE LockCreate \/ LockDestroy \/ CvCreate \/ CvDestroy \/ CvWait \/ SyncOver
             \/ UNCHANGED all
  BY <1>2, <1>10 DEF LockCreate, LockDestroy, SyncStop, Stop, CvCreate, CvDestroy, CvWait,
                     SyncOver, all, vars, sched
<1> QED
  BY <1>4, <1>5, <1>6, <1>7, <1>8, <1>9, <1>10 DEF SyncNext

(***************************************************************************)
(* Under every client of locks and condition variables no ready thread is  *)
(* overtaken: the thread lock_release woke gets to its test of free after  *)
(* those that were ready before it, and not after others.                  *)
(***************************************************************************)
THEOREM SyncReadyNeverOvertaken ==
  ASSUME None \notin ExitCodes PROVE SyncSpec => [][MovesUp]_all
<1>1. /\ IInv /\ SyncTypeOK /\ (IInv /\ SyncTypeOK)' /\ [SyncNext]_all => [MovesUp]_all
  BY SyncMovesUp
<1> QED
  BY <1>1, SyncScheduler, PTL DEF SyncSpec
=============================================================================
