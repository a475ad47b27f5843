----------------------------- MODULE ThreadStates -----------------------------
(***************************************************************************)
(* What the thread libraries of A1 and A2 promise of a thread, whatever    *)
(* queues they keep: the states it goes through and that exactly one       *)
(* thread runs.                                                            *)
(*                                                                         *)
(*   free -> ready -> running -> exited -> free      ready <- running      *)
(*                    running -> blocked -> ready    free  <- running      *)
(*                                                                         *)
(* Leaving says where a thread may go from the processor: A2 keeps an      *)
(* exited thread until it is collected, A1 frees its identifier at once    *)
(* and has no blocked threads.                                             *)
(*                                                                         *)
(* A thread leaves the processor only by giving it to another one.  The    *)
(* one it gives it to is ready, or is woken in the same step.              *)
(***************************************************************************)
CONSTANTS Tid, Initial, Leaving

VARIABLE state

States == {"free", "ready", "running", "blocked", "exited"}

Init == state = [t \in Tid |-> IF t = Initial THEN "running" ELSE "free"]

\* A thread is created by the running one.
Create == \E t \in Tid :
  /\ state[t] = "free"
  /\ state' = [state EXCEPT ![t] = "ready"]

Blocked == {t \in Tid : state[t] = "blocked"}

\* The states when the threads in W are ready.
Awake(W) == [t \in Tid |-> IF t \in W THEN "ready" ELSE state[t]]

\* Some blocked threads become ready.
Wake == \E W \in SUBSET Blocked : state' = Awake(W)

\* The running thread leaves the processor to u; leaving, it may wake others.
Switch == \E r, u \in Tid, to \in Leaving, W \in SUBSET Blocked :
  /\ state[r] = "running"
  /\ Awake(W)[u] = "ready"
  /\ state' = [Awake(W) EXCEPT ![r] = to, ![u] = "running"]

\* The running thread collects an exited one.
Collect == \E t \in Tid :
  /\ state[t] = "exited"
  /\ state' = [state EXCEPT ![t] = "free"]

Next == Create \/ Wake \/ Switch \/ Collect

Spec == Init /\ [][Next]_state
=============================================================================
