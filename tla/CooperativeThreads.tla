-------------------------- MODULE CooperativeThreads --------------------------
(***************************************************************************)
(* The cooperative thread library of A1-Cooperative-Threads (thread.c).    *)
(*                                                                         *)
(* Nothing preempts a thread: a call runs until it returns or calls        *)
(* setcontext.  thread_yield saves the caller's context with getcontext,   *)
(* and the code after getcontext is executed twice, once by the caller on  *)
(* its way out and once when the caller is switched to again; pc is        *)
(* "landed" there and "check" where the killed flag is looked at.          *)
(*                                                                         *)
(* running_thread is whom the library takes to run, code is the thread     *)
(* whose stack the processor executes.  When a call returns to client code *)
(* with the two different, later calls save one thread's registers in the  *)
(* other's struct and setcontext goes to stack frames that have been       *)
(* overwritten; the model stops there.                                     *)
(***************************************************************************)
EXTENDS Integers, Sequences, FiniteSets, Functions

CONSTANTS MaxThreads,   \* THREAD_MAX_THREADS
          Stacks,       \* the blocks malloc has for stacks
          NoStack,      \* a NULL stack_addr
          Wild          \* a stack_addr that malloc never returned

None == -300            \* the "no thread" value of thread.c
ANY  == -1              \* THREAD_ANY

ASSUME CoopMaxThreads == MaxThreads \in Nat \ {0}
ASSUME CoopStacks == NoStack \notin Stacks /\ Wild \notin Stacks /\ NoStack # Wild

Tids == 0 .. MaxThreads - 1

VARIABLES
  running_thread,
  ready_queue,
  available_threads,
  created_threads,      \* the tids whose entry is not NULL
  killed,               \* the killed field of struct thread
  stack_addr,           \* the stack_addr field of struct thread
  context,              \* where each thread goes on: see Contexts
  num_threads_created,
  zombie_stack_addr,
  returning_from_exit,
  zombie_tid,
  heap,                 \* the stacks that are allocated
  code,                 \* the thread whose code is executed
  pc                    \* where it is

queues  == <<running_thread, ready_queue>>
tids    == <<available_threads, created_threads, num_threads_created>>
threads == <<killed, stack_addr>>
zombie  == <<zombie_stack_addr, zombie_tid>>
vars    == <<queues, tids, threads, context, zombie, returning_from_exit, heap,
             code, pc>>

(***************************************************************************)
(* A context is the start of thread_stub, or the getcontext of a           *)
(* thread_yield(want) together with its local variables flag and           *)
(* new_thread; the latter is the running thread, or one freed since.       *)
(***************************************************************************)
Start == [want |-> None, flag |-> FALSE, freed |-> FALSE]
Contexts == {Start} \cup [want : Tids \cup {ANY}, flag : BOOLEAN, freed : BOOLEAN]

(***************************************************************************)
(* The arrays are packed to the left.  Removing at index 0 (-1 in the C    *)
(* array, find_index_in_queue's "not found") shifts every entry: the first *)
(* one goes to the unused word before the array.                           *)
(***************************************************************************)
\* Mutant of remove_from_queue: the filler of the last slot stays in the queue.
RemoveKeepsFiller(q, i) ==
  [j \in 1 .. Len(q) |-> IF j = Len(q) THEN None ELSE IF j < i THEN q[j] ELSE q[j + 1]]

remove_from_queue(q, i) ==
  [j \in 1 .. Len(q) - 1 |-> IF j < i THEN q[j] ELSE q[j + 1]]

\* thread_init leaves stack_addr of the first thread as malloc returned it.
Init ==
  /\ running_thread = 0
  /\ ready_queue = <<>>
  /\ available_threads = [i \in 1 .. MaxThreads - 1 |-> i]
  /\ created_threads = {0}
  /\ killed = [t \in Tids |-> FALSE]
  /\ \E s \in {NoStack, Wild} : stack_addr = [t \in Tids |-> IF t = 0 THEN s ELSE NoStack]
  /\ context = [t \in Tids |-> Start]
  /\ num_threads_created = 1
  /\ zombie_stack_addr = NoStack
  /\ returning_from_exit = FALSE
  /\ zombie_tid = None
  /\ heap = {}
  /\ code = 0
  /\ pc = "client"

me == running_thread

\* The client may make a call.
Client == pc = "client" /\ code = me

-----------------------------------------------------------------------------
(***************************************************************************)
(* thread_create.  The count is raised and the tid taken before the stack  *)
(* is allocated, and neither is undone when there is no memory.  That a    *)
(* tid is left whenever the count allows one is TidsAccounted.             *)
(***************************************************************************)
\* Mutant of TakeTid: the count is not raised.
TidNotCounted ==
  /\ num_threads_created # MaxThreads
  /\ UNCHANGED num_threads_created
  /\ available_threads' = Tail(available_threads)

TakeTid ==
  /\ num_threads_created # MaxThreads
  /\ num_threads_created' = num_threads_created + 1
  /\ available_threads' = Tail(available_threads)

Create ==
  /\ Client
  /\ available_threads # <<>>
  /\ TakeTid
  /\ LET t == Head(available_threads) IN
     \E s \in Stacks \ heap :
       /\ heap' = heap \cup {s}
       /\ stack_addr' = [stack_addr EXCEPT ![t] = s]
       /\ killed' = [killed EXCEPT ![t] = FALSE]
       /\ context' = [context EXCEPT ![t] = Start]
       /\ created_threads' = created_threads \cup {t}
       /\ ready_queue' = Append(ready_queue, t)
  /\ UNCHANGED <<running_thread, zombie, returning_from_exit, code, pc>>

CreateNoMemory ==
  /\ Client
  /\ available_threads # <<>>
  /\ Stacks \subseteq heap
  /\ TakeTid
  /\ UNCHANGED <<queues, created_threads, threads, context, zombie,
                 returning_from_exit, heap, code, pc>>

\* Mutant of Kill: the victim's struct is freed at once.
KillFrees ==
  /\ Client
  /\ \E t \in created_threads \ {0, me} : created_threads' = created_threads \ {t}
  /\ UNCHANGED <<queues, available_threads, num_threads_created, threads, context,
                 zombie, returning_from_exit, heap, code, pc>>

\* thread_kill; the first thread cannot be killed.
Kill ==
  /\ Client
  /\ \E t \in created_threads \ {0, me} : killed' = [killed EXCEPT ![t] = TRUE]
  /\ UNCHANGED <<queues, tids, stack_addr, context, zombie, returning_from_exit,
                 heap, code, pc>>

-----------------------------------------------------------------------------
(***************************************************************************)
(* Switching.                                                              *)
(***************************************************************************)
\* Mutant of Swap: the caller is not made ready.
SwapForgetsCaller(i) ==
  /\ running_thread' = ready_queue[i]
  /\ ready_queue' = remove_from_queue(ready_queue, i)

\* The ready thread at index i becomes the running one, which becomes ready.
Swap(i) ==
  /\ running_thread' = ready_queue[i]
  /\ ready_queue' = Append(remove_from_queue(ready_queue, i), me)

\* setcontext to thread t, given the contexts.
SetContext(t, contexts) ==
  /\ code' = t
  /\ pc' = IF contexts[t] = Start THEN "client" ELSE "landed"

\* thread_yield(want) up to getcontext: THREAD_ANY takes the head of the ready
\* queue.  A call with another argument, or with nobody ready, has no effect.
Yield ==
  /\ Client
  /\ \E i \in 1 .. Len(ready_queue) :
       /\ Swap(i)
       /\ \E want \in {ready_queue[i]} \cup (IF i = 1 THEN {ANY} ELSE {}) :
            context' = [context EXCEPT ![code] = [want |-> want, flag |-> FALSE, freed |-> FALSE]]
  /\ pc' = "landed"
  /\ UNCHANGED <<tids, threads, zombie, returning_from_exit, heap, code>>

Want == context[code].want

\* free(zombie_stack_addr), and what follows unless that ends the process.
FreeZombieStack(next) ==
  /\ zombie_stack_addr' = NoStack
  /\ heap' = heap \ {zombie_stack_addr}
  /\ pc' = IF zombie_stack_addr = Wild THEN "wild" ELSE next

\* After getcontext, with no thread_exit to take note of.
Land ==
  /\ pc = "landed"
  /\ ~(returning_from_exit /\ Want \in {ANY, zombie_tid})
  /\ FreeZombieStack("check")
  /\ UNCHANGED <<queues, tids, threads, context, zombie_tid, returning_from_exit, code>>

\* thread_yield(THREAD_ANY) of a thread that thread_exit switched to: the
\* yield is done over again, and fails when nobody else is ready.
LandAgain ==
  /\ pc = "landed"
  /\ returning_from_exit /\ Want = ANY
  /\ ready_queue # <<>>
  /\ FreeZombieStack("check")
  /\ Swap(1)
  /\ context' = [context EXCEPT ![code].freed = FALSE]
  /\ returning_from_exit' = FALSE
  /\ UNCHANGED <<tids, threads, zombie_tid, code>>

LandAlone ==
  /\ pc = "landed"
  /\ returning_from_exit /\ Want = ANY
  /\ ready_queue = <<>>
  /\ FreeZombieStack("client")
  /\ UNCHANGED <<queues, tids, threads, context, zombie_tid, returning_from_exit, code>>

\* thread_yield(tid) of a thread that has just exited fails.
LandInvalid ==
  /\ pc = "landed"
  /\ returning_from_exit /\ Want = zombie_tid
  /\ FreeZombieStack("client")
  /\ zombie_tid' = None
  /\ UNCHANGED <<queues, tids, threads, context, returning_from_exit, code>>

\* Mutant of SwitchAway: the killed flag is not looked at.
SwitchAwayUnchecked ==
  /\ pc = "check"
  /\ ~context[code].flag /\ ~context[code].freed
  /\ context' = [context EXCEPT ![code].flag = TRUE]
  /\ SetContext(me, context')
  /\ UNCHANGED <<queues, tids, threads, zombie, returning_from_exit, heap>>

\* The rest of thread_yield: the caller goes on to the new thread, or, resumed,
\* returns to its client.
SwitchAway ==
  /\ pc = "check" /\ ~killed[me]
  /\ ~context[code].flag /\ ~context[code].freed
  /\ context' = [context EXCEPT ![code].flag = TRUE]
  /\ SetContext(me, context')
  /\ UNCHANGED <<queues, tids, threads, zombie, returning_from_exit, heap>>

\* A caller that once exited on behalf of new_thread goes on to what was its struct.
SwitchToFreed ==
  /\ pc = "check" /\ ~killed[me]
  /\ ~context[code].flag /\ context[code].freed
  /\ pc' = "wild"
  /\ UNCHANGED <<queues, tids, threads, context, zombie, returning_from_exit, heap, code>>

Return ==
  /\ pc = "check" /\ ~killed[me]
  /\ context[code].flag
  /\ pc' = "client"
  /\ UNCHANGED <<queues, tids, threads, context, zombie, returning_from_exit, heap, code>>

-----------------------------------------------------------------------------
(***************************************************************************)
(* thread_exit of the running thread: its tid is free at once, its stack   *)
(* when somebody lands.  The last ready thread runs next;                  *)
(* find_tail_of_queue has already taken it off the queue when              *)
(* find_index_in_queue looks for it, so remove_from_queue gets index -1.   *)
(***************************************************************************)
\* Mutant of LeaveQueue: the caller is made ready, as thread_yield does.
CallerStaysReady == ready_queue' = Append(remove_from_queue(ready_queue, Len(ready_queue)), me)

LeaveQueue ==
  ready_queue' = remove_from_queue(remove_from_queue(ready_queue, Len(ready_queue)), 0)

GiveBack ==
  /\ available_threads' = Append(available_threads, me)
  /\ num_threads_created' = num_threads_created - 1

\* Mutant of KeepStack: the stack of the next thread is taken.
KeepOtherStack == zombie_stack_addr' = stack_addr[running_thread']

KeepStack == zombie_stack_addr' = stack_addr[me]

thread_exit ==
  /\ ready_queue # <<>>
  /\ zombie_tid' = me
  /\ GiveBack
  /\ created_threads' = created_threads \ {me}
  /\ LeaveQueue
  /\ running_thread' = ready_queue[Len(ready_queue)]
  /\ KeepStack
  /\ returning_from_exit' = TRUE
  /\ SetContext(running_thread', context)
  /\ killed' = [killed EXCEPT ![me] = FALSE]
  /\ stack_addr' = [stack_addr EXCEPT ![me] = NoStack]
  /\ context' = [context EXCEPT ![code].freed = TRUE, ![me] = Start]
  /\ UNCHANGED heap

exit_process ==
  /\ ready_queue = <<>>
  /\ pc' = "exited"
  /\ UNCHANGED <<queues, tids, threads, context, zombie, returning_from_exit, heap, code>>

\* The client's call, or the return of its thread_main.
Exit == Client /\ (thread_exit \/ exit_process)

\* The thread to be run was killed: whoever is in thread_yield exits for it.
ExitKilled == pc = "check" /\ killed[me] /\ (thread_exit \/ exit_process)

Over == /\ pc \in {"exited", "wild"} \/ (pc = "client" /\ code # me)
        /\ UNCHANGED vars

Library == \/ Land \/ LandAgain \/ LandAlone \/ LandInvalid
           \/ SwitchAway \/ SwitchToFreed \/ Return \/ ExitKilled

Next == Create \/ CreateNoMemory \/ Kill \/ Yield \/ Exit \/ Library \/ Over

Spec == Init /\ [][Next]_vars

-----------------------------------------------------------------------------
(***************************************************************************)
(* Properties.                                                             *)
(***************************************************************************)
CoopTypeOK ==
  /\ running_thread \in Tids
  /\ ready_queue \in Seq(Tids)
  /\ available_threads \in Seq(Tids)
  /\ created_threads \subseteq Tids
  /\ killed \in [Tids -> BOOLEAN]
  /\ stack_addr \in [Tids -> Stacks \cup {NoStack, Wild}]
  /\ context \in [Tids -> Contexts]
  /\ num_threads_created \in Int
  /\ zombie_stack_addr \in Stacks \cup {NoStack, Wild}
  /\ returning_from_exit \in BOOLEAN
  /\ zombie_tid \in Tids \cup {None}
  /\ heap \subseteq Stacks
  /\ code \in Tids
  /\ pc \in {"client", "landed", "check", "exited", "wild"}

Ready == Range(ready_queue)

(***************************************************************************)
(* The count and the list of available tids agree, so that a thread_create *)
(* that passes its check finds a tid and never the filler -300 (thread.c   *)
(* reports "CREATED_ID NEGATIVE" for it); no tid is given out twice.       *)
(***************************************************************************)
TidsAccounted ==
  /\ IsInjective(available_threads)
  /\ Range(available_threads) \cap created_threads = {}
  /\ num_threads_created = MaxThreads - Len(available_threads)

(***************************************************************************)
(* The running thread and the ready ones exist, and each is there once:    *)
(* thread_exit and the second switch of a landing thread_yield never make  *)
(* a freed thread ready, nor a thread ready twice.                         *)
(***************************************************************************)
ReadyOnce ==
  /\ IsInjective(ready_queue)
  /\ running_thread \notin Ready
  /\ Ready \cup {running_thread} \subseteq created_threads

(***************************************************************************)
(* No thread has a stack that was freed, two threads have none in common,  *)
(* and the one to be freed next belongs to nobody: not to the thread that  *)
(* executes, either, even where it exits on behalf of a killed one.        *)
(***************************************************************************)
StacksSafe ==
  /\ code \in created_threads
  /\ \A t \in created_threads :
       /\ stack_addr[t] \in heap \cup {NoStack, Wild}
       /\ stack_addr[t] # NoStack =>
            /\ stack_addr[t] # zombie_stack_addr
            /\ \A u \in created_threads : stack_addr[u] = stack_addr[t] => u = t
  /\ zombie_stack_addr \in heap \cup {NoStack, Wild}

(***************************************************************************)
(* A killed thread gets back to client code only through thread_exit: it   *)
(* was switched to by one, and started for the first time or was told that *)
(* its thread_yield failed (thread_yield makes every other one exit).      *)
(***************************************************************************)
KilledRunsOnlyAfterExit ==
  pc = "client" /\ code = me /\ killed[me] => returning_from_exit

(***************************************************************************)
(* A thread drops out of running and ready only by exiting, but for the    *)
(* head of the ready queue at the exit of another thread when two or more  *)
(* were ready (the shift by index -1 in thread_exit).                      *)
(***************************************************************************)
LostOnlyAtExit ==
  [][\A t \in (Ready \cup {me}) \ (Ready \cup {me})' :
       \/ t = me /\ t \notin created_threads'
       \/ /\ t = Head(ready_queue) /\ Len(ready_queue) >= 2
          /\ me \notin created_threads']_vars

(***************************************************************************)
(* The library implements the life cycle of ThreadStates: one thread runs, *)
(* it gives the processor to a ready one and becomes ready or free.        *)
(***************************************************************************)
StateOf(t) == CASE t = me -> "running"
                [] t # me /\ t \in created_threads -> "ready"
                [] OTHER -> "free"

CoopLife == INSTANCE ThreadStates WITH Tid <- Tids, Initial <- 0,
                                       Leaving <- {"ready", "free"},
                                       state <- [t \in Tids |-> StateOf(t)]

\* Every step is one, or none, of the life cycle.
CoopLifeSpec == CoopLife!Spec

(***************************************************************************)
(* Every thread that exists runs or is in the ready queue, "so that when   *)
(* the current thread yields, the next thread in the ready queue can be    *)
(* run" (A1 README).                                                       *)
(***************************************************************************)
EveryThreadKept == created_threads = Ready \cup {me}
=============================================================================
