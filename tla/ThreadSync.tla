------------------------------ MODULE ThreadSync ------------------------------
(***************************************************************************)
(* The mutex locks and condition variables of A2-Preemptive-Threads        *)
(* (thread.c from struct lock on), on top of PreemptiveThreads.            *)
(*                                                                         *)
(* lock_acquire keeps the timer signal off from its first test of free to  *)
(* its return, across the switches of the thread_sleep in its loop: a      *)
(* thread that is switched to inside it tests free again as part of the    *)
(* same switch.  cv_wait runs with the signal on between the three calls   *)
(* it makes, so the timer may preempt it there.                            *)
(*                                                                         *)
(* The wait queue of a lock or a condition variable is named after it, and *)
(* user_queues says which ones exist.                                      *)
(***************************************************************************)
EXTENDS PreemptiveThreads

CONSTANTS Locks, CVs,
          Disciplined,   \* TRUE: a thread acquires a lock it does not hold,
                         \*   releases and signals with one it holds, and
                         \*   waits for a thread or exits holding none
          KillsInside    \* TRUE: it may kill a thread that holds a lock or is
                         \*   in one of these calls

\* The client's wait queues are the locks' and the condition variables'; only
\* the library reaches these.
ASSUME SyncAssumption ==
  /\ UserQueues = Locks \cup CVs
  /\ Locks \cap CVs = {}
  /\ Calls \cap {"queue", "sleep", "wakeup"} = {}
  /\ Disciplined \in BOOLEAN /\ KillsInside \in BOOLEAN

VARIABLES
  lock,      \* struct lock of each lock
  pend,      \* where each thread is in lock_acquire or cv_wait
  holds      \* the locks each thread has acquired and not released: what the
             \*   client knows, not a variable of the library

sync == <<lock, pend, holds>>
all  == <<vars, sync>>

InClient == [at |-> "client"]

\* In the loop of lock_acquire, asleep or woken and not switched to yet.
InAcquire(l) == [at |-> "acquire", lock |-> l]

\* In cv_wait, about to call lock_release, thread_sleep or lock_acquire.
InWait(step, c, l) == [at |-> step, lock |-> l, cv |-> c]

Pending == {InClient} \cup {InAcquire(l) : l \in Locks}
             \cup {InWait(step, c, l) : step \in {"unlock", "sleep", "relock"},
                                        c \in CVs, l \in Locks}

SyncTypeOK ==
  /\ lock \in [Locks -> [free : BOOLEAN, held_by : Tids \cup {None}]]
  /\ pend \in [Tids -> Pending]
  /\ holds \in [Tids -> SUBSET Locks]

\* Mutants of FreeLock: another value for nobody; a lock that starts taken.
FreeLockOwnerUnset == [free |-> TRUE, held_by |-> -1]
FreeLockTaken == [free |-> FALSE, held_by |-> None]

FreeLock == [free |-> TRUE, held_by |-> None]

SyncInit ==
  /\ Init
  /\ lock = [l \in Locks |-> FreeLock]
  /\ pend = [t \in Tids |-> InClient]
  /\ holds = [t \in Tids |-> {}]

\* The client makes a library call; it is in no other one.
Call(call) == Client(call) /\ pend[me] = InClient

\* The running thread is at this step of cv_wait.
At(step) == status = "run" /\ ~resuming /\ pend[me].at = step

SyncStop(s) == Stop(s) /\ UNCHANGED sync

-----------------------------------------------------------------------------
\* lock_create and cv_create.  A name stands for a fresh block of memory, so
\* one that threads still sleep in is not given out again.
LockCreate ==
  /\ Call("lock_create")
  /\ \E l \in Locks \ user_queues :
       /\ user_queues' = user_queues \cup {l}
       /\ lock' = [lock EXCEPT ![l] = FreeLock]
  /\ UNCHANGED <<sched, waitq, tids, tcb, joining, zombie_tid, status, pend, holds>>

CvCreate ==
  /\ Call("cv_create")
  /\ \E c \in CVs \ user_queues :
       /\ waitq[c] = <<>>
       /\ user_queues' = user_queues \cup {c}
  /\ UNCHANGED <<sched, waitq, tids, tcb, joining, zombie_tid, status, sync>>

\* lock_destroy asserts that the lock is free and its queue empty.
LockDestroy ==
  /\ Call("lock_destroy")
  /\ \E l \in Locks \cap user_queues :
       \/ /\ ~lock[l].free \/ waitq[l] # <<>>
          /\ SyncStop(IF lock[l].free THEN "assert_wait_queue" ELSE "assert_lock")
       \/ /\ lock[l].free /\ waitq[l] = <<>>
          /\ user_queues' = user_queues \ {l}
          /\ UNCHANGED <<sched, waitq, tids, tcb, joining, zombie_tid, status, sync>>

\* cv_destroy frees the queue whether or not threads sleep in it.
CvDestroy ==
  /\ Call("cv_destroy")
  /\ \E c \in CVs \cap user_queues : user_queues' = user_queues \ {c}
  /\ UNCHANGED <<sched, waitq, tids, tcb, joining, zombie_tid, status, sync>>

-----------------------------------------------------------------------------
\* Mutant of lock_acquire: a woken thread does not test free again.
AcquireWithoutLoop(l) ==
  \/ /\ lock[l].free \/ resuming
     /\ lock' = [lock EXCEPT ![l] = [free |-> FALSE, held_by |-> me]]
     /\ holds' = [holds EXCEPT ![me] = @ \cup {l}]
     /\ pend' = [pend EXCEPT ![me] = InClient]
     /\ resuming' = FALSE
     /\ tcb' = Cleaned
     /\ zombie_tid' = None
     /\ UNCHANGED <<running_thread, ready_queue, queues, tids, joining, status>>
  \/ /\ ~lock[l].free /\ ~resuming
     /\ ready_queue # <<>>
     /\ thread_sleep(Cleaned, l)
     /\ pend' = [pend EXCEPT ![me] = InAcquire(l)]
     /\ zombie_tid' = None
     /\ UNCHANGED <<user_queues, tids, joining, status, lock, holds>>

(***************************************************************************)
(* The loop of lock_acquire, from a test of free to the next switch or the *)
(* return.  With no other thread to run thread_sleep returns at once and   *)
(* the loop goes round for ever with the signal off: "hang".               *)
(***************************************************************************)
lock_acquire(l) ==
  \/ /\ l \notin user_queues
     /\ SyncStop("use_after_free")
  \/ /\ l \in user_queues
     /\ lock[l].free
     /\ lock' = [lock EXCEPT ![l] = [free |-> FALSE, held_by |-> me]]
     /\ holds' = [holds EXCEPT ![me] = @ \cup {l}]
     /\ pend' = [pend EXCEPT ![me] = InClient]
     /\ resuming' = FALSE
     /\ tcb' = Cleaned
     /\ zombie_tid' = None
     /\ UNCHANGED <<running_thread, ready_queue, queues, tids, joining, status>>
  \/ /\ l \in user_queues
     /\ ~lock[l].free
     /\ ready_queue = <<>>
     /\ SyncStop("hang")
  \/ /\ l \in user_queues
     /\ ~lock[l].free
     /\ ready_queue # <<>>
     /\ thread_sleep(Cleaned, l)
     /\ pend' = [pend EXCEPT ![me] = InAcquire(l)]
     /\ zombie_tid' = None
     /\ UNCHANGED <<user_queues, tids, joining, status, lock, holds>>

\* Mutant of lock_release: nobody is woken.
ReleaseWithoutWakeup(l) ==
  /\ lock' = [lock EXCEPT ![l] = FreeLock]
  /\ holds' = [holds EXCEPT ![me] = @ \ {l}]
  /\ UNCHANGED <<tcb, ready_queue, waitq>>

\* lock_release asks neither who holds the lock nor whether anybody does.  The
\* first thread of the queue is woken.
lock_release(l) ==
  /\ lock' = [lock EXCEPT ![l] = FreeLock]
  /\ holds' = [holds EXCEPT ![me] = @ \ {l}]
  /\ tcb' = Awoken(tcb, First(waitq[l]))
  /\ ready_queue' = ReadyAfterWakeup(waitq[l])
  /\ waitq' = [waitq EXCEPT ![l] = Rest(@)]

LockAcquire ==
  /\ Call("lock")
  /\ \E l \in Locks \cap user_queues :
       /\ Disciplined => l \notin holds[me]
       /\ lock_acquire(l)

LockRelease ==
  /\ Call("lock")
  /\ \E l \in Locks \cap user_queues :
       /\ Disciplined => l \in holds[me]
       /\ lock_release(l)
  /\ UNCHANGED <<running_thread, resuming, user_queues, tids, joining, zombie_tid,
                 status, pend>>

-----------------------------------------------------------------------------
\* cv_wait, up to its test of held_by; a thread that fails it returns.
CvWait ==
  /\ Call("cv")
  /\ \E c \in CVs \cap user_queues, l \in Locks \cap user_queues :
       /\ lock[l].held_by = me
       /\ pend' = [pend EXCEPT ![me] = InWait("unlock", c, l)]
  /\ UNCHANGED <<vars, lock, holds>>

\* its lock_release
CvUnlock ==
  /\ At("unlock")
  /\ lock_release(pend[me].lock)
  /\ pend' = [pend EXCEPT ![me].at = "sleep"]
  /\ UNCHANGED <<running_thread, resuming, user_queues, tids, joining, zombie_tid, status>>

\* its thread_sleep, which returns at once when no other thread can run
CvSleep ==
  /\ At("sleep")
  /\ pend' = [pend EXCEPT ![me].at = "relock"]
  /\ \/ /\ pend[me].cv \notin user_queues
        /\ Stop("use_after_free")
     \/ /\ pend[me].cv \in user_queues
        /\ ready_queue = <<>>
        /\ UNCHANGED vars
     \/ /\ pend[me].cv \in user_queues
        /\ ready_queue # <<>>
        /\ thread_sleep(tcb, pend[me].cv)
        /\ UNCHANGED <<user_queues, tids, joining, zombie_tid, status>>
  /\ UNCHANGED <<lock, holds>>

\* its lock_acquire
CvRelock ==
  /\ At("relock")
  /\ lock_acquire(pend[me].lock)

\* cv_signal asserts that the thread it wakes does not hold the lock, and
\* does not ask whether the caller does.
CvSignal ==
  /\ Call("cv")
  /\ \E c \in CVs \cap user_queues, l \in Locks \cap user_queues :
       /\ Disciplined => l \in holds[me]
       /\ waitq[c] # <<>>
       /\ tcb' = Awoken(tcb, First(waitq[c]))
       /\ ready_queue' = ReadyAfterWakeup(waitq[c])
       /\ waitq' = [waitq EXCEPT ![c] = Rest(@)]
       /\ status' = IF lock[l].held_by = Head(waitq[c]) THEN "assert_signal" ELSE status
  /\ UNCHANGED <<running_thread, resuming, user_queues, tids, joining, zombie_tid, sync>>

CvBroadcast ==
  /\ Call("cv")
  /\ \E c \in CVs \cap user_queues :
       /\ Disciplined => holds[me] # {}
       /\ tcb' = Awoken(tcb, Range(waitq[c]))
       /\ ready_queue' = ready_queue \o waitq[c]
       /\ waitq' = [waitq EXCEPT ![c] = <<>>]
  /\ UNCHANGED <<running_thread, resuming, user_queues, tids, joining, zombie_tid,
                 status, sync>>

-----------------------------------------------------------------------------
(***************************************************************************)
(* The steps of PreemptiveThreads here.  The timer preempts a thread in    *)
(* cv_wait as it does one in client code, and a thread that leaves for     *)
(* ever gives up its place in these calls.                                 *)
(***************************************************************************)
Left(t) == /\ pend' = [pend EXCEPT ![t] = InClient]
           /\ holds' = [holds EXCEPT ![t] = {}]
           /\ UNCHANGED lock

SyncResume ==
  \/ ResumeKilled /\ Left(me)
  \/ pend[me].at # "acquire" /\ (ResumeClient \/ ResumeJoin) /\ UNCHANGED sync
  \/ /\ status = "run" /\ resuming /\ ~tcb[me].killed
     /\ pend[me].at = "acquire"
     /\ lock_acquire(pend[me].lock)

SyncPreempt == Preempt /\ UNCHANGED sync

ClientCall ==
  /\ pend[me] = InClient
  /\ \/ (Yield \/ Create) /\ UNCHANGED sync
     \/ /\ Kill
        /\ ~KillsInside => \A t \in Tids : tcb'[t].killed /\ ~tcb[t].killed =>
                            holds[t] = {} /\ pend[t] = InClient
        /\ UNCHANGED sync
     \/ (Disciplined => holds[me] = {}) /\ (WaitExited \/ WaitAlive) /\ UNCHANGED sync
     \/ (Disciplined => holds[me] = {}) /\ Exit /\ Left(me)

SyncOver == status # "run" /\ UNCHANGED all

SyncNext ==
  \/ SyncResume \/ SyncPreempt \/ ClientCall \/ SyncOver
  \/ LockCreate \/ LockDestroy \/ LockAcquire \/ LockRelease
  \/ CvCreate \/ CvDestroy \/ CvWait \/ CvUnlock \/ CvSleep \/ CvRelock
  \/ CvSignal \/ CvBroadcast

\* The fairness of PreemptiveThreads.
SyncSpec ==
  /\ SyncInit /\ [][SyncNext]_all
  /\ WF_all(SyncResume) /\ SF_all(SyncPreempt)

-----------------------------------------------------------------------------
(***************************************************************************)
(* The lock is what its users think it is: free when no thread is between  *)
(* its lock_acquire and its lock_release, else held_by names the only one  *)
(* that is, however the switches inside lock_acquire and cv_wait fall.     *)
(***************************************************************************)
LockHeldOnce ==
  \A l \in Locks : {t \in Tids : l \in holds[t]} =
                     IF lock[l].free THEN {} ELSE {lock[l].held_by}

(***************************************************************************)
(* No thread is left asleep on a lock that is free: lock_release woke one, *)
(* and until that one has tested free again it is on its way to do so.     *)
(***************************************************************************)
NoStrandedWaiter ==
  \A l \in Locks : lock[l].free /\ waitq[l] # <<>> /\ status = "run" =>
    \E t \in Ready \cup {running_thread} : pend[t] = InAcquire(l)

(***************************************************************************)
(* With one lock, and threads that release it, lock_acquire never spins    *)
(* with the signal off: whoever holds the lock can run.                    *)
(***************************************************************************)
NoHang == status # "hang"

(***************************************************************************)
(* A lock that is free and wanted is taken, by somebody: lock_release and  *)
(* the next switch to a woken thread see to it.                            *)
(***************************************************************************)
LockProgress ==
  \A l \in Locks : (lock[l].free /\ waitq[l] # <<>>) ~> (~lock[l].free \/ status # "run")

(***************************************************************************)
(* cv_wait releases the lock and goes to sleep as one step for the threads *)
(* that use the lock: whoever holds it finds a thread that has begun to    *)
(* wait in the queue, so that cv_signal "wakes up one thread that is       *)
(* waiting" (A2 README).                                                   *)
(***************************************************************************)
WaitersAsleep ==
  \A t \in Tids : pend[t].at = "sleep" =>
    \A u \in Tids \ {t} : pend[t].lock \notin holds[u]
=============================================================================
