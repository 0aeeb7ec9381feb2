------------------------------- MODULE JobPool -------------------------------
(***************************************************************************)
(* What the HW2 program promises about the jobs of its command file: every *)
(* worker line is started once, in file order, by a bounded number of      *)
(* threads, and `dispatcher wait' is a barrier: it ends only when no job   *)
(* is pending or running (job_queue.c:325, "wait for non pending commands  *)
(* - queue is empty and all no active threads").  Jobs are named by the    *)
(* number of their line.                                                   *)
(***************************************************************************)
EXTENDS Naturals, FiniteSets

CONSTANTS
  Jobs,        \* the line numbers that may name a job
  MaxRunning   \* number of jobs that may run at the same time

VARIABLES
  pending,  \* jobs read from the file and not started
  running,  \* jobs some thread is executing
  done,     \* jobs whose commands have all been executed
  waiting   \* the dispatcher is inside `dispatcher wait'

vars == <<pending, running, done, waiting>>

Init ==
  /\ pending = {} /\ running = {} /\ done = {}
  /\ waiting = FALSE

Submit(j) ==
  /\ ~waiting
  /\ \A k \in pending \cup running \cup done : k < j
  /\ pending' = pending \cup {j}
  /\ UNCHANGED <<running, done, waiting>>

Start(j) ==
  /\ j \in pending
  /\ \A k \in pending : j <= k
  /\ Cardinality(running) < MaxRunning
  /\ pending' = pending \ {j}
  /\ running' = running \cup {j}
  /\ UNCHANGED <<done, waiting>>

Finish(j) ==
  /\ j \in running
  /\ running' = running \ {j}
  /\ done' = done \cup {j}
  /\ UNCHANGED <<pending, waiting>>

BeginWait ==
  /\ ~waiting
  /\ waiting' = TRUE
  /\ UNCHANGED <<pending, running, done>>

EndWait ==
  /\ waiting
  /\ pending = {} /\ running = {}
  /\ waiting' = FALSE
  /\ UNCHANGED <<pending, running, done>>

Next ==
  \/ \E j \in Jobs : Submit(j)
  \/ \E j \in pending : Start(j)
  \/ \E j \in running : Finish(j)
  \/ BeginWait
  \/ EndWait

Spec == Init /\ [][Next]_vars

(* Threads keep taking jobs and finish the ones they took. *)
Fairness ==
  /\ \A j \in Jobs : WF_vars(Start(j))
  /\ \A j \in Jobs : WF_vars(Finish(j))

FairSpec == Spec /\ Fairness
==============================================================================
