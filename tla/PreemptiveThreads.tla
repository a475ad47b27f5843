-------------------------- MODULE PreemptiveThreads --------------------------
(***************************************************************************)
(* The scheduler and the thread life cycle of A2-Preemptive-Threads        *)
(* (thread.c up to thread_wait, and the timer handler of interrupt.c).     *)
(*                                                                         *)
(* One processor runs one thread at a time.  Every library call turns the  *)
(* timer signal off on entry, so a call is one step of the model up to the *)
(* point where it calls setcontext.  The thread that is switched to first  *)
(* finishes its own switch (thread_routine_cleanup, then the rest of the   *)
(* call it was in), still with the signal off: resuming is TRUE until it   *)
(* has.  Otherwise it runs client code, which may make any call, and the   *)
(* timer may preempt it.                                                   *)
(*                                                                         *)
(* A failed assert, a NULL dereference, a write outside an array and a     *)
(* double free end the process; status then names the place.  A call that  *)
(* returns an error code changes nothing and is a stuttering step.         *)
(***************************************************************************)
EXTENDS Integers, Sequences, FiniteSets, Functions

CONSTANTS MaxThreads,   \* THREAD_MAX_THREADS
          UserQueues,   \* the wait queues a client may create
          ExitCodes,    \* the codes a client passes to thread_exit
          Calls,        \* the calls the client makes
          Structured,   \* TRUE: a thread waits only for threads it created
                        \*   and exits only after it has reaped them all
          Drift         \* a bound: no thread_create once the count of
                        \*   threads is below -Drift

None == -300            \* the "no thread" and "no exit code" value of thread.c
SIGKILL == 9

ASSUME MaxThreadsAssumption == MaxThreads \in Nat \ {0}
ASSUME ClientAssumption == /\ ExitCodes \subseteq Int
                           /\ Structured \in BOOLEAN
                           /\ Drift \in Nat

Tids == 0 .. MaxThreads - 1

ASSUME QueuesAssumption == UserQueues \cap Tids = {}

WaitQueues == Tids \cup UserQueues     \* thread t's own queue is named t

VARIABLES
  running_thread,
  resuming,             \* setcontext has been called, the switch is not over
  ready_queue,
  waitq,                \* the list of each wait queue, first to sleep first
  user_queues,          \* the client's queues that exist
  created_threads,      \* the tids whose entry is not NULL
  tcb,                  \* struct thread of each tid
  joining,              \* the argument of the thread_wait a thread sleeps in
  available_threads,
  num_threads_created,
  zombie_tid,
  status                \* "run", "exited" or the name of a fault

queues == <<waitq, user_queues>>
sched  == <<running_thread, resuming, ready_queue>>
tids   == <<available_threads, created_threads, num_threads_created>>
vars   == <<sched, queues, tids, tcb, joining, zombie_tid, status>>

\* The last four are of the locks and condition variables (ThreadSync).
Faults == {"assert_exit", "assert_wait_queue", "null_deref", "out_of_bounds",
           "double_free", "assert_lock", "assert_signal", "use_after_free", "hang"}

(***************************************************************************)
(* struct thread.  stack stands for stack_addr and stack_freed together:   *)
(* "none" is the NULL stack_addr of the initial thread, "freed" is a NULL  *)
(* stack_addr with stack_freed set.  thread_init leaves stack_addr as      *)
(* malloc returned it; it is the first block of a fresh heap, all zeros.   *)
(***************************************************************************)
TCB == [killed : BOOLEAN, sleeping : BOOLEAN, wq : BOOLEAN,
        waiting_on : Tids \cup {None}, exit : Int, parent : Tids,
        stack : {"none", "live", "freed"}]

NewThread(parent, stack) ==
  [killed |-> FALSE, sleeping |-> FALSE, wq |-> FALSE, waiting_on |-> None,
   exit |-> None, parent |-> parent, stack |-> stack]

(***************************************************************************)
(* The arrays ready_queue and available_threads have MaxThreads slots and  *)
(* are packed to the left; adding to a full one does nothing.              *)
(***************************************************************************)
\* Mutant of add_to_queue_tail: the thread is put at the head.
AddToHead(q, t) == IF Len(q) < MaxThreads THEN <<t>> \o q ELSE q

add_to_queue_tail(q, t) == IF Len(q) < MaxThreads THEN Append(q, t) ELSE q

\* Mutant of remove_from_queue: the entry is cleared, the rest is not shifted.
RemoveWithoutShift(q, i) == [q EXCEPT ![i] = None]

remove_from_queue(q, i) ==
  [j \in 1 .. Len(q) - 1 |-> IF j < i THEN q[j] ELSE q[j + 1]]

\* Mutant of append_to_available: the tid is not given back.
ForgetTid(q, t) == q

append_to_available(q, t) == add_to_queue_tail(q, t)

Init ==
  /\ running_thread = 0
  /\ resuming = FALSE
  /\ ready_queue = <<>>
  /\ waitq = [q \in WaitQueues |-> <<>>]
  /\ user_queues = {}
  /\ created_threads = {0}
  /\ tcb = [t \in Tids |-> NewThread(0, "none")]
  /\ joining = [t \in Tids |-> None]
  /\ available_threads = [i \in 1 .. MaxThreads - 1 |-> i]
  /\ num_threads_created = 1
  /\ zombie_tid = None
  /\ status = "run"

me == running_thread

\* The client may make the call: it runs, in code where the timer is enabled.
Client(call) == status = "run" /\ ~resuming /\ call \in Calls

\* The process ends; nothing of its memory is read any more.
Stop(s) == /\ status' = s
           /\ UNCHANGED <<sched, queues, tids, tcb, joining, zombie_tid>>

-----------------------------------------------------------------------------
(***************************************************************************)
(* Switching.  tc, rq and wqs are the thread table, the ready queue and    *)
(* the wait queues as the caller has already changed them.                 *)
(***************************************************************************)

\* setcontext to the ready thread at index i of rq; the rest stays ready.
SwitchTo(rq, i) ==
  /\ running_thread' = rq[i]
  /\ resuming' = TRUE

\* Mutant of thread_yield: the sleeping flag is not looked at.
YieldAlwaysReady(tc, i) ==
  /\ SwitchTo(ready_queue, i)
  /\ ready_queue' = add_to_queue_tail(remove_from_queue(ready_queue, i), me)

\* thread_yield once a target is chosen: a sleeping caller is not made ready.
thread_yield(tc, i) ==
  /\ SwitchTo(ready_queue, i)
  /\ ready_queue' = LET rest == remove_from_queue(ready_queue, i)
                    IN IF tc[me].sleeping THEN rest ELSE add_to_queue_tail(rest, me)

\* put_to_sleep and the thread_yield(THREAD_ANY) of thread_sleep.  The caller
\* has checked that the ready queue is not empty.
thread_sleep(tc, q) ==
  LET asleep == [tc EXCEPT ![me].sleeping = TRUE] IN
  /\ tcb' = asleep
  /\ waitq' = [waitq EXCEPT ![q] = Append(@, me)]
  /\ thread_yield(asleep, 1)

\* The thread table after a wakeup of the threads in set S.
Awoken(tc, S) ==
  [t \in Tids |-> IF t \in S
                  THEN [tc[t] EXCEPT !.sleeping = FALSE, !.waiting_on = None]
                  ELSE tc[t]]

\* The first thread of a wait queue, as a set: empty when nobody waits.
First(s) == IF s = <<>> THEN {} ELSE {Head(s)}

\* Mutant of ReadyAfterWakeup: the woken thread is taken off its queue only.
WokenNotReady(s) == ready_queue

\* The ready queue after a wakeup of the first thread of s.
ReadyAfterWakeup(s) ==
  IF s = <<>> THEN ready_queue ELSE add_to_queue_tail(ready_queue, Head(s))

Rest(s) == IF s = <<>> THEN <<>> ELSE Tail(s)

(***************************************************************************)
(* What freeup_leftover_zombies meets when the last runnable thread        *)
(* leaves: it frees every thread control block but the running one's, in   *)
(* tid order.  A block whose queue has a sleeper fails the assertion of    *)
(* wait_queue_destroy; a block whose stack is still allocated has it freed *)
(* twice, through stack_addr and again through zombie_stack_addr.          *)
(***************************************************************************)
freeup_leftover_zombies(tc, wqs) ==
  LET bad == {t \in created_threads \ {me} : wqs[t] # <<>> \/ tc[t].stack = "live"}
  IN IF bad = {} THEN "exited"
     ELSE LET t == CHOOSE t \in bad : \A u \in bad : t <= u
          IN IF wqs[t] # <<>> THEN "assert_wait_queue" ELSE "double_free"

\* The queues after the first half of cleanup_before_zombifying.
ClearedQueues(tc) ==
  IF tc[me].waiting_on # None THEN [waitq EXCEPT ![tc[me].waiting_on] = <<>>] ELSE waitq

\* cleanup_before_zombifying wakes the first thread that waits for the caller;
\* then the head of the ready queue runs, or the process ends.
thread_exit(tc, code) ==
  LET cleared == ClearedQueues(tc)
      rq      == ReadyAfterWakeup(cleared[me])
      awoken  == Awoken(tc, First(cleared[me]))
      wqs     == [cleared EXCEPT ![me] = Rest(@)]
  IN \/ /\ rq = <<>>
        /\ Stop(freeup_leftover_zombies(awoken, wqs))
     \/ /\ rq # <<>>
        /\ tcb' = [awoken EXCEPT ![me].exit = code]
        /\ waitq' = wqs
        /\ num_threads_created' = num_threads_created - 1
        /\ zombie_tid' = me
        /\ SwitchTo(rq, 1)
        /\ ready_queue' = remove_from_queue(rq, 1)
        /\ joining' = [joining EXCEPT ![me] = None]
        /\ UNCHANGED <<user_queues, available_threads, created_threads, status>>

-----------------------------------------------------------------------------
(***************************************************************************)
(* The end of a switch.  thread_routine_cleanup frees the stack of the     *)
(* thread that exited just before, then makes a killed thread exit; any    *)
(* other thread goes on where it called setcontext.                        *)
(***************************************************************************)

\* Mutants of Cleaned: the stack is kept; the block is cleared before the wait.
StackKept == tcb
ExitCodeLost ==
  IF zombie_tid # None
  THEN [tcb EXCEPT ![zombie_tid].stack = "freed", ![zombie_tid].exit = None] ELSE tcb

Cleaned == IF zombie_tid # None THEN [tcb EXCEPT ![zombie_tid].stack = "freed"] ELSE tcb

ResumeKilled ==
  /\ status = "run" /\ resuming
  /\ tcb[me].killed
  /\ thread_exit(Cleaned, -SIGKILL)

\* Mutant of ResumeClient: thread_routine_cleanup does not look at killed.
ResumeUnchecked ==
  /\ status = "run" /\ resuming
  /\ joining[me] = None
  /\ resuming' = FALSE
  /\ tcb' = Cleaned
  /\ zombie_tid' = None
  /\ UNCHANGED <<running_thread, ready_queue, queues, tids, joining, status>>

\* Back to client code: from thread_yield, thread_sleep, the timer handler, or
\* into thread_main for the first time.
ResumeClient ==
  /\ status = "run" /\ resuming
  /\ ~tcb[me].killed
  /\ joining[me] = None
  /\ resuming' = FALSE
  /\ tcb' = Cleaned
  /\ zombie_tid' = None
  /\ UNCHANGED <<running_thread, ready_queue, queues, tids, joining, status>>

\* Mutant of ReapOutcome: thread_wait goes on without its assertions.
NoAssertions(tc, t) == IF t \notin created_threads THEN "null_deref" ELSE "run"

\* The check of thread_wait's last part: what ends the process there, if anything.
ReapOutcome(tc, t) ==
  CASE t \notin created_threads -> "null_deref"
    [] t \in created_threads /\ tc[t].exit = None -> "assert_exit"
    [] t \in created_threads /\ tc[t].exit # None /\ waitq[t] # <<>> -> "assert_wait_queue"
    [] t \in created_threads /\ tc[t].exit # None /\ waitq[t] = <<>>
         /\ tc[t].stack = "live" -> "double_free"
    [] OTHER -> "run"

\* thread_wait from the assertion on the exit code to its return.
Reap(tc, t) ==
  \/ /\ ReapOutcome(tc, t) # "run"
     /\ Stop(ReapOutcome(tc, t))
  \/ /\ ReapOutcome(tc, t) = "run"
     /\ available_threads' = append_to_available(available_threads, t)
     /\ created_threads' = created_threads \ {t}
     /\ num_threads_created' = num_threads_created - 1
     /\ tcb' = [tc EXCEPT ![t] = NewThread(0, "none")]
     /\ joining' = [joining EXCEPT ![me] = None]
     /\ zombie_tid' = None
     /\ resuming' = FALSE
     /\ UNCHANGED <<running_thread, ready_queue, queues, status>>

ResumeJoin ==
  /\ status = "run" /\ resuming
  /\ ~tcb[me].killed
  /\ joining[me] # None
  /\ Reap(Cleaned, joining[me])

Resume == ResumeKilled \/ ResumeClient \/ ResumeJoin

-----------------------------------------------------------------------------
(***************************************************************************)
(* What the running thread can do, and the timer.                          *)
(***************************************************************************)

\* interrupt_handler: thread_yield(THREAD_ANY).
Preempt ==
  /\ status = "run" /\ ~resuming
  /\ ready_queue # <<>>
  /\ thread_yield(tcb, 1)
  /\ UNCHANGED <<queues, tids, tcb, joining, zombie_tid, status>>

\* thread_yield(tid) of a ready thread; THREAD_ANY is the one at the head.
Yield ==
  /\ Client("yield")
  /\ \E i \in 1 .. Len(ready_queue) : thread_yield(tcb, i)
  /\ UNCHANGED <<queues, tids, tcb, joining, zombie_tid, status>>

\* thread_create.  When no tid is left although the count says there is, the
\* entry -300 of created_threads is written.
Create ==
  /\ Client("create")
  /\ num_threads_created # MaxThreads
  /\ num_threads_created >= -Drift
  /\ \/ /\ available_threads = <<>>
        /\ Stop("out_of_bounds")
     \/ /\ available_threads # <<>>
        /\ LET t == Head(available_threads) IN
             /\ tcb' = [tcb EXCEPT ![t] = NewThread(me, "live")]
             /\ created_threads' = created_threads \cup {t}
             /\ ready_queue' = add_to_queue_tail(ready_queue, t)
        /\ available_threads' = Tail(available_threads)
        /\ num_threads_created' = num_threads_created + 1
        /\ UNCHANGED <<running_thread, resuming, queues, joining, zombie_tid, status>>

\* thread_exit(code); thread_stub calls it with 0 when thread_main returns.
Exit ==
  /\ Client("exit")
  /\ Structured => \A t \in created_threads \ {me} : tcb[t].parent # me
  /\ \E code \in ExitCodes : thread_exit(tcb, code)

\* thread_kill(t): t is ready or asleep and not yet killed.  The first thread
\* that waits for t is woken at once.
Kill ==
  /\ Client("kill")
  /\ \E t \in created_threads \ {me} :
       /\ t \in Range(ready_queue) \/ tcb[t].sleeping
       /\ t # zombie_tid /\ ~tcb[t].killed
       /\ tcb' = [Awoken(tcb, First(waitq[t])) EXCEPT ![t].killed = TRUE]
       /\ waitq' = [waitq EXCEPT ![t] = Rest(@)]
       /\ ready_queue' = ReadyAfterWakeup(waitq[t])
  /\ UNCHANGED <<running_thread, resuming, user_queues, tids, joining, zombie_tid, status>>

\* wait_queue_create and wait_queue_destroy of a client's queue.
QueueCreate ==
  /\ Client("queue")
  /\ \E q \in UserQueues \ user_queues : user_queues' = user_queues \cup {q}
  /\ UNCHANGED <<sched, waitq, tids, tcb, joining, zombie_tid, status>>

QueueDestroy ==
  /\ Client("queue")
  /\ \E q \in user_queues :
       \/ /\ waitq[q] # <<>>
          /\ Stop("assert_wait_queue")
       \/ /\ waitq[q] = <<>>
          /\ user_queues' = user_queues \ {q}
          /\ UNCHANGED <<sched, waitq, tids, tcb, joining, zombie_tid, status>>

\* thread_sleep(q); with nobody else to run it returns THREAD_NONE.
Sleep ==
  /\ Client("sleep")
  /\ ready_queue # <<>>
  /\ \E q \in user_queues : thread_sleep(tcb, q)
  /\ UNCHANGED <<user_queues, tids, joining, zombie_tid, status>>

\* thread_wakeup(q, 0)
WakeupOne ==
  /\ Client("wakeup")
  /\ \E q \in user_queues :
       /\ tcb' = Awoken(tcb, First(waitq[q]))
       /\ ready_queue' = ReadyAfterWakeup(waitq[q])
       /\ waitq' = [waitq EXCEPT ![q] = Rest(@)]
  /\ UNCHANGED <<running_thread, resuming, user_queues, tids, joining, zombie_tid, status>>

\* thread_wakeup(q, 1): wakeup_all makes them ready in the order they slept.
WakeupAll ==
  /\ Client("wakeup")
  /\ \E q \in user_queues :
       /\ tcb' = Awoken(tcb, Range(waitq[q]))
       /\ ready_queue' = LET all == ready_queue \o waitq[q]
                         IN SubSeq(all, 1, IF Len(all) <= MaxThreads THEN Len(all)
                                           ELSE MaxThreads)
       /\ waitq' = [waitq EXCEPT ![q] = <<>>]
  /\ UNCHANGED <<running_thread, resuming, user_queues, tids, joining, zombie_tid, status>>

\* Mutant of MayWait: a second thread may wait for the same target.
MayWaitToo(t) ==
  /\ t # me
  /\ t \in created_threads
  /\ ~tcb[t].killed
  /\ Structured => tcb[t].parent = me

\* The checks of thread_wait.  A target that has a queue, even an empty one, is
\* not asked whether it was killed.
MayWait(t) ==
  /\ t # me
  /\ t \in created_threads
  /\ IF tcb[t].wq THEN waitq[t] = <<>> ELSE ~tcb[t].killed
  /\ Structured => tcb[t].parent = me

\* thread_wait(t) of a thread that has exited: its code is read at once.
WaitExited ==
  /\ Client("wait")
  /\ \E t \in Tids : /\ MayWait(t)
                     /\ tcb[t].exit # None
                     /\ Reap(tcb, t)

\* thread_wait(t) of a thread that is alive sleeps in its queue.  With nobody
\* else to run thread_sleep returns at once, and t has no exit code.
WaitAlive ==
  /\ Client("wait")
  /\ \E t \in Tids :
       /\ MayWait(t)
       /\ tcb[t].exit = None
       /\ \/ /\ ready_queue = <<>>
             /\ Stop("assert_exit")
          \/ /\ ready_queue # <<>>
             /\ thread_sleep([tcb EXCEPT ![me].waiting_on = t, ![t].wq = TRUE], t)
             /\ joining' = [joining EXCEPT ![me] = t]
             /\ UNCHANGED <<user_queues, tids, zombie_tid, status>>

\* The process is over.
Over == status # "run" /\ UNCHANGED vars

Next == \/ Resume \/ Preempt \/ Yield \/ Create \/ Exit \/ Kill
        \/ QueueCreate \/ QueueDestroy \/ Sleep \/ WakeupOne \/ WakeupAll
        \/ WaitExited \/ WaitAlive \/ Over

Spec == Init /\ [][Next]_vars

(***************************************************************************)
(* Fairness.  A switch that has begun ends: no other code can run.  The    *)
(* handler re-arms the timer each time, and a signal that comes while the  *)
(* signals are off is delivered when they are turned on again, so a thread *)
(* that keeps returning to client code is preempted (strong fairness).     *)
(***************************************************************************)
FairSpec == Spec /\ WF_vars(Resume) /\ SF_vars(Preempt)

-----------------------------------------------------------------------------
(***************************************************************************)
(* Properties.                                                             *)
(***************************************************************************)
TypeOK ==
  /\ running_thread \in Tids
  /\ resuming \in BOOLEAN
  /\ ready_queue \in Seq(Tids)
  /\ waitq \in [WaitQueues -> Seq(Tids)]
  /\ user_queues \subseteq UserQueues
  /\ created_threads \subseteq Tids
  /\ tcb \in [Tids -> TCB]
  /\ joining \in [Tids -> Tids \cup {None}]
  /\ available_threads \in Seq(Tids)
  /\ num_threads_created \in Int
  /\ zombie_tid \in Tids \cup {None}
  /\ status \in {"run", "exited"} \cup Faults

Asleep == UNION {Range(waitq[q]) : q \in WaitQueues}
Ready  == Range(ready_queue)
Alive(t) == t \in created_threads /\ tcb[t].exit = None

(***************************************************************************)
(* A thread is in one place only: it runs, or it is in the ready queue, or *)
(* in one wait queue, and once (A2 README, "each thread can be in only one *)
(* queue at a time").  thread_yield, thread_sleep and wakeup move it       *)
(* between them.                                                           *)
(***************************************************************************)
OnePlace ==
  /\ IsInjective(ready_queue)
  /\ \A q \in WaitQueues : IsInjective(waitq[q])
  /\ running_thread \notin Ready
  /\ running_thread \notin Asleep
  /\ Ready \cap Asleep = {}
  /\ \A p, q \in WaitQueues : p # q => Range(waitq[p]) \cap Range(waitq[q]) = {}

(***************************************************************************)
(* No thread is lost and no dead thread is scheduled: the threads that     *)
(* run, are ready or sleep are exactly the created ones that have not      *)
(* exited; the sleeping flag of thread_yield says which ones sleep.        *)
(***************************************************************************)
NoThreadLost ==
  /\ {running_thread} \cup Ready \cup Asleep = {t \in Tids : Alive(t)}
  /\ \A t \in created_threads : tcb[t].sleeping <=> t \in Asleep

(***************************************************************************)
(* Every tid is available or names a thread control block, never both, and *)
(* is available once (available_threads against created_threads).          *)
(***************************************************************************)
TidPartition ==
  /\ IsInjective(available_threads)
  /\ Range(available_threads) = Tids \ created_threads

(***************************************************************************)
(* A thread never runs, or is left to run, on a stack that was freed, and  *)
(* of the exited threads only the one whose stack the next thread is about *)
(* to free still has it (thread_exit, thread_routine_cleanup).             *)
(***************************************************************************)
StackSafe ==
  /\ \A t \in Tids : Alive(t) => tcb[t].stack # "freed"
  /\ \A t \in created_threads :
       ~Alive(t) => (tcb[t].stack = "freed" <=> t # zombie_tid)
  /\ zombie_tid # None => resuming /\ ~Alive(zombie_tid) /\ zombie_tid \in created_threads

(***************************************************************************)
(* A thread that sleeps in another one's queue sleeps for a thread that is *)
(* still alive, so an exit is still to come that wakes it; it is the only  *)
(* one there (thread_wait refuses the second), and nobody else says that   *)
(* it waits.                                                               *)
(***************************************************************************)
WaiterHasTarget ==
  /\ \A u \in Tids :
       /\ Len(waitq[u]) <= 1
       /\ waitq[u] # <<>> => Alive(u) /\ tcb[u].wq
  /\ \A t \in created_threads, u \in Tids :
       t \in Range(waitq[u]) <=> tcb[t].waiting_on = u

(***************************************************************************)
(* A killed thread never gets back to client code: thread_kill's promise   *)
(* that the thread "should not run any further" (thread.h).                *)
(***************************************************************************)
KilledNeverRuns == status = "run" /\ ~resuming => ~tcb[running_thread].killed

(***************************************************************************)
(* Round robin: a thread in the ready queue gets the processor, whatever   *)
(* the others do, unless the process ends (thread_yield puts the caller at *)
(* the tail; the timer takes the head).                                    *)
(***************************************************************************)
ReadyRuns == \A t \in Tids : (t \in Ready) ~> (running_thread = t \/ status # "run")

(***************************************************************************)
(* A thread that sleeps in thread_wait returns from it, or is killed, once *)
(* its target has exited: the exit wakes it, and it runs again.            *)
(***************************************************************************)
WaitReturns ==
  \A t, u \in Tids :
    (joining[t] = u /\ ~Alive(u)) ~> (joining[t] = None \/ status # "run")

(***************************************************************************)
(* A killed thread that is ready does exit (thread_routine_cleanup makes   *)
(* it, the next time it is switched to).                                   *)
(***************************************************************************)
KilledExits ==
  \A t \in Tids : (t \in Ready /\ tcb[t].killed) ~> (~Alive(t) \/ status # "run")

(***************************************************************************)
(* The detailed life cycle implements the one of ThreadStates.             *)
(***************************************************************************)
StateOf(t) == CASE t = running_thread -> "running"
                [] t # running_thread /\ t \notin created_threads -> "free"
                [] t # running_thread /\ t \in created_threads /\ ~Alive(t) -> "exited"
                [] t # running_thread /\ Alive(t) /\ tcb[t].sleeping -> "blocked"
                [] OTHER -> "ready"

Life == INSTANCE ThreadStates WITH Tid <- Tids, Initial <- 0,
                                   Leaving <- {"ready", "blocked", "exited"},
                                   state <- [t \in Tids |-> StateOf(t)]

\* Every step of the library is a step, or none, of the thread state diagram.
LifeSpec == Life!Spec

(***************************************************************************)
(* A thread_wait that passes its checks finds its target exited and still  *)
(* there when it gets to its assertion: neither the assertion fails nor is *)
(* a NULL entry of created_threads read.                                   *)
(***************************************************************************)
WaitFindsTarget == status \notin {"assert_exit", "null_deref"}

(***************************************************************************)
(* Only one thread_wait for a thread succeeds (A2 README): a target that   *)
(* another thread has already reaped is not read again.                    *)
(***************************************************************************)
WaitOnce == status # "null_deref"

(***************************************************************************)
(* When no tid is left thread_create fails with THREAD_NOMORE (thread.h);  *)
(* it does not write outside created_threads.                              *)
(***************************************************************************)
CreateInBounds == status # "out_of_bounds"
=============================================================================
