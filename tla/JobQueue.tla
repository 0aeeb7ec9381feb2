------------------------------- MODULE JobQueue -------------------------------
(***************************************************************************)
(* HW2: the dispatcher (main.c) and its worker threads (job_queue.c)       *)
(* around the shared Queue: a mutex, three condition variables, the list   *)
(* of waiting jobs, the archive and the count of active threads.           *)
(*                                                                         *)
(* Every access to the Queue is made under queue->mutex, so the code       *)
(* between a lock (or the return of a pthread_cond_wait) and the matching  *)
(* unlock (or the next pthread_cond_wait) is one action.  A thread that is *)
(* signalled does not hold the mutex yet: it becomes "woken" and competes  *)
(* with every other thread for its next critical section.                  *)
(*                                                                         *)
(* A job is named by a number: the command job of line n of the file is n, *)
(* the k-th kill job is Len(script) + k.                                   *)
(***************************************************************************)
EXTENDS Integers, Sequences, FiniteSets

CONSTANTS
  NumThreads,   \* argv[2], checked by main to lie in 1..NUM_THREADS
  Scripts,      \* the command files considered
  Spurious      \* the values spurious may have

LineKinds == {"worker",   \* handed to the workers
              "msleep",   \* dispatcher msleep, or an unknown dispatcher word
              "wait"}     \* dispatcher wait

ASSUME JobQueueAssumption ==
  /\ NumThreads \in 1..4096
  /\ Scripts \subseteq Seq(LineKinds)
  /\ Spurious \subseteq BOOLEAN

Workers == 1..NumThreads

LineNumbers == UNION {DOMAIN s : s \in Scripts}

VARIABLES
  script,    \* the command file (never changes)
  spurious,  \* may the dispatcher be woken without a signal? (never changes)
  line,      \* number of the next line fgets returns
  dpc,       \* what the dispatcher does next
  i,         \* its loop index in the create, kill and join loops
  queue,     \* queue->head ... queue->tail
  archive,   \* queue->archive.head ... : most recently dequeued first
  active,    \* queue->active_threads_num
  wpc,       \* what each worker does next
  job,       \* worker_thread's local variable job (0: none yet)
  finished,  \* command jobs whose function has returned
  freed      \* free_queue has released the archived jobs and the queue

vars == <<script, spurious, line, dpc, i, queue, archive, active, wpc, job,
          finished, freed>>

dispatcherVars == <<script, spurious, line, i, freed>>

IsKill(j) == j > Len(script)

Asleep == {w \in Workers : wpc[w] = "asleep"}
Woken  == {w \in Workers : wpc[w] = "woken"}

Init ==
  /\ script \in Scripts /\ spurious \in Spurious
  /\ line = 1
  /\ dpc = "create" /\ i = 0
  /\ queue = <<>> /\ archive = <<>> /\ active = 0
  /\ wpc = [w \in Workers |-> "unborn"]
  /\ job = [w \in Workers |-> 0]
  /\ finished = {}
  /\ freed = FALSE

------------------------------------------------------------------------------
(* Condition variables *)

(* Mutant: signal only when the list was empty. *)
SignalNonEmpty_OnlyIfWasEmpty ==
  \/ (Asleep = {} \/ queue # <<>>) /\ UNCHANGED wpc
  \/ queue = <<>> /\ \E w \in Asleep : wpc' = [wpc EXCEPT ![w] = "woken"]

(* pthread_cond_signal(&queue->cond_q_non_empty): releases one sleeper. *)
SignalNonEmpty ==
  \/ Asleep = {} /\ UNCHANGED wpc
  \/ \E w \in Asleep : wpc' = [wpc EXCEPT ![w] = "woken"]

(* Mutant: no signal. *)
SignalQEmpty_None == UNCHANGED dpc

(* The dispatcher is the only thread that waits on the other two; a signal *)
(* sent while it is not waiting is lost.                                   *)
SignalQEmpty ==
  dpc' = IF dpc = "waitEmpty" THEN "emptyWoken" ELSE dpc

SignalNoActive ==
  dpc' = IF dpc = "waitIdle" THEN "idleWoken" ELSE dpc

Enqueue(j) ==
  /\ queue' = Append(queue, j)
  /\ SignalNonEmpty

------------------------------------------------------------------------------
(* The dispatcher *)

(* One iteration of a loop over the threads: goes on to `next' after the   *)
(* last one.                                                               *)
Loop(next) ==
  IF i + 1 = NumThreads THEN i' = 0 /\ dpc' = next
                        ELSE i' = i + 1 /\ UNCHANGED dpc

CreateThread ==
  /\ dpc = "create"
  /\ wpc' = [wpc EXCEPT ![i + 1] = "fetch"]
  /\ Loop("read")
  /\ UNCHANGED <<script, spurious, line, queue, archive, active, job,
                 finished, freed>>

NextLineIs(kind) ==
  /\ dpc = "read"
  /\ line <= Len(script)
  /\ script[line] = kind
  /\ line' = line + 1

ReadWorker ==
  /\ NextLineIs("worker")
  /\ Enqueue(line)
  /\ UNCHANGED <<script, spurious, dpc, i, archive, active, job,
                 finished, freed>>

ReadMsleep ==
  /\ NextLineIs("msleep")
  /\ UNCHANGED <<script, spurious, dpc, i, queue, archive, active, wpc, job,
                 finished, freed>>

(* wait_for_non_pending_command: the first wait is unconditional. *)
ReadWait ==
  /\ NextLineIs("wait")
  /\ dpc' = "waitEmpty"
  /\ UNCHANGED <<script, spurious, i, queue, archive, active, wpc, job,
                 finished, freed>>

(* Mutants: the test counts one active thread as none; no test at all. *)
QEmptySeen_ToleratesOne ==
  /\ dpc = "emptyWoken"
  /\ dpc' = IF active > 1 THEN "waitIdle" ELSE "read"
  /\ UNCHANGED <<dispatcherVars, queue, archive, active, wpc, job, finished>>

QEmptySeen_NoTest ==
  /\ dpc = "emptyWoken"
  /\ dpc' = "waitIdle"
  /\ UNCHANGED <<dispatcherVars, queue, archive, active, wpc, job, finished>>

(* Back from the first wait: wait again if some thread is active. *)
QEmptySeen ==
  /\ dpc = "emptyWoken"
  /\ dpc' = IF active > 0 THEN "waitIdle" ELSE "read"
  /\ UNCHANGED <<dispatcherVars, queue, archive, active, wpc, job, finished>>

NoActiveSeen ==
  /\ dpc = "idleWoken"
  /\ dpc' = "read"
  /\ UNCHANGED <<dispatcherVars, queue, archive, active, wpc, job, finished>>

EndOfFile ==
  /\ dpc = "read"
  /\ line > Len(script)
  /\ dpc' = "kill"
  /\ UNCHANGED <<dispatcherVars, queue, archive, active, wpc, job, finished>>

SendKill ==
  /\ dpc = "kill"
  /\ Enqueue(Len(script) + i + 1)
  /\ Loop("join")
  /\ UNCHANGED <<script, spurious, line, archive, active, job, finished, freed>>

(* Mutant: the thread is not waited for. *)
JoinThread_NoWait ==
  /\ dpc = "join"
  /\ Loop("stats")
  /\ UNCHANGED <<script, spurious, line, queue, archive, active, wpc, job,
                 finished, freed>>

JoinThread ==
  /\ dpc = "join"
  /\ wpc[i + 1] = "exited"
  /\ Loop("stats")
  /\ UNCHANGED <<script, spurious, line, queue, archive, active, wpc, job,
                 finished, freed>>

(* print_job_stats_to_file walks the archive without the mutex. *)
WriteStats ==
  /\ dpc = "stats"
  /\ dpc' = "free"
  /\ UNCHANGED <<dispatcherVars, queue, archive, active, wpc, job, finished>>

FreeQueue ==
  /\ dpc = "free"
  /\ dpc' = "done"
  /\ freed' = (queue = <<>>)
  /\ UNCHANGED <<script, spurious, line, i, queue, archive, active, wpc, job,
                 finished>>

------------------------------------------------------------------------------
(* The workers *)

(* Mutant: the newest job is taken first. *)
Take_Newest(w) ==
  /\ wpc[w] \in {"fetch", "woken"}
  /\ queue # <<>>
  /\ job' = [job EXCEPT ![w] = queue[Len(queue)]]
  /\ queue' = SubSeq(queue, 1, Len(queue) - 1)
  /\ active' = active + 1
  /\ archive' = <<queue[Len(queue)]>> \o archive
  /\ wpc' = [wpc EXCEPT ![w] =
                IF IsKill(queue[Len(queue)]) THEN "quit" ELSE "run"]
  /\ UNCHANGED <<dispatcherVars, dpc, finished>>

(* dequeue, when the list is not empty; then worker_thread's kill test. *)
Take(w) ==
  /\ wpc[w] \in {"fetch", "woken"}
  /\ queue # <<>>
  /\ job' = [job EXCEPT ![w] = Head(queue)]
  /\ queue' = Tail(queue)
  /\ active' = active + 1
  /\ archive' = <<Head(queue)>> \o archive
  /\ wpc' = [wpc EXCEPT ![w] = IF IsKill(Head(queue)) THEN "quit" ELSE "run"]
  /\ UNCHANGED <<dispatcherVars, dpc, finished>>

(* dequeue, when it is empty: tell the dispatcher and wait. *)
Doze(w) ==
  /\ wpc[w] \in {"fetch", "woken"}
  /\ queue = <<>>
  /\ SignalQEmpty
  /\ wpc' = [wpc EXCEPT ![w] = "asleep"]
  /\ UNCHANGED <<dispatcherVars, queue, archive, active, job, finished>>

(* job->function(job->arg) returns. *)
Run(w) ==
  /\ wpc[w] = "run"
  /\ wpc' = [wpc EXCEPT ![w] = "ran"]
  /\ finished' = finished \cup {job[w]}
  /\ UNCHANGED <<dispatcherVars, dpc, queue, archive, active, job>>

DecrementActive(w) ==
  /\ wpc[w] = "ran"
  /\ wpc' = [wpc EXCEPT ![w] = "fetch"]
  /\ active' = active - 1
  /\ IF active' = 0 THEN SignalNoActive ELSE UNCHANGED dpc
  /\ UNCHANGED <<dispatcherVars, queue, archive, job, finished>>

Exit(w) ==
  /\ wpc[w] = "quit"
  /\ wpc' = [wpc EXCEPT ![w] = "exited"]
  /\ UNCHANGED <<dispatcherVars, dpc, queue, archive, active, job, finished>>

------------------------------------------------------------------------------
(* POSIX lets pthread_cond_wait return without a signal.                   *)
SpuriousWorker(w) ==
  /\ wpc[w] = "asleep"
  /\ wpc' = [wpc EXCEPT ![w] = "woken"]
  /\ UNCHANGED <<dispatcherVars, dpc, queue, archive, active, job, finished>>

SpuriousDispatcher ==
  /\ spurious
  /\ \/ dpc = "waitEmpty" /\ dpc' = "emptyWoken"
     \/ dpc = "waitIdle" /\ dpc' = "idleWoken"
  /\ UNCHANGED <<dispatcherVars, queue, archive, active, wpc, job, finished>>

(* main has returned. *)
Terminated == dpc = "done" /\ UNCHANGED vars

------------------------------------------------------------------------------
Dispatcher ==
  \/ CreateThread
  \/ ReadWorker \/ ReadMsleep \/ ReadWait
  \/ QEmptySeen \/ NoActiveSeen
  \/ EndOfFile \/ SendKill \/ JoinThread \/ WriteStats \/ FreeQueue

Worker(w) == Take(w) \/ Doze(w) \/ Run(w) \/ DecrementActive(w) \/ Exit(w)

Next ==
  \/ Dispatcher
  \/ \E w \in Workers : Worker(w) \/ SpuriousWorker(w)
  \/ SpuriousDispatcher
  \/ Terminated

Spec == Init /\ [][Next]_vars

(* Every thread the kernel can run is run: a thread that is neither asleep *)
(* on a condition variable nor finished takes its next step.  Spurious     *)
(* wakeups may never come.                                                 *)
Fairness ==
  /\ WF_vars(Dispatcher)
  /\ \A w \in Workers : WF_vars(Worker(w))

FairSpec == Spec /\ Fairness

------------------------------------------------------------------------------
(* Correctness *)

Waiting == dpc \in {"waitEmpty", "emptyWoken", "waitIdle", "idleWoken"}

(* The worker lines read so far. *)
Submitted == {n \in 1 .. line - 1 : script[n] = "worker"}

Jobs == 1 .. Len(script) + NumThreads

(* The workers past the increment in dequeue that have not decremented.    *)
Counted == {w \in Workers : wpc[w] \in {"run", "ran", "quit", "exited"}}

(* The values the fields of the Queue, the dispatcher and the workers can  *)
(* take.                                                                   *)
TypeOK ==
  /\ script \in Scripts /\ spurious \in BOOLEAN
  /\ line \in 1 .. Len(script) + 1
  /\ dpc \in {"create", "read", "waitEmpty", "emptyWoken", "waitIdle",
              "idleWoken", "kill", "join", "stats", "free", "done"}
  /\ i \in 0 .. NumThreads - 1
  /\ queue \in Seq(Jobs) /\ archive \in Seq(Jobs)
  /\ active \in Int
  /\ wpc \in [Workers -> {"unborn", "fetch", "asleep", "woken", "run", "ran",
                         "quit", "exited"}]
  /\ job \in [Workers -> Jobs \cup {0}]
  /\ \A w \in Workers : wpc[w] = "run" => job[w] \in 1 .. Len(script)
  /\ finished \subseteq 1 .. Len(script)
  /\ freed \in BOOLEAN

(* While some worker sleeps on cond_q_non_empty, every job of the list has *)
(* a worker that was signalled for it and has not come back yet, although  *)
(* enqueue sends one signal per job and never broadcasts.                  *)
NoLostWakeup == Asleep # {} => Len(queue) <= Cardinality(Woken)

(* active_threads_num counts the workers between dequeue and               *)
(* decrement_active_threads, and those that took a kill job, which never   *)
(* give their share back.                                                  *)
ActiveCount == active = Cardinality(Counted)

(* The dispatcher never sleeps on cond_no_active_threads unless some       *)
(* worker is still to decrement the count and send that signal: the test   *)
(* on line 330 "is meant to prevent deadlock".                             *)
NoHangOnIdle ==
  dpc = "waitIdle" => \E w \in Workers : wpc[w] \in {"run", "ran"}

(* `dispatcher wait' returns only when the queue is empty and every job    *)
(* read before it has been executed, unless pthread_cond_wait returns to   *)
(* the dispatcher without a signal: neither of its calls is in a loop.     *)
WaitIsBarrier ==
  [][~spurious /\ Waiting /\ ~Waiting' =>
       queue = <<>> /\ Submitted \subseteq finished]_vars

(* A file without `dispatcher wait' is executed to its end and main        *)
(* returns.                                                                *)
Termination ==
  (\A n \in 1 .. Len(script) : script[n] # "wait") ~> dpc = "done"

(* `dispatcher wait' returns if some worker has not gone to sleep yet when *)
(* it starts.                                                              *)
BusyWaitReturns ==
  (Waiting /\ Asleep # Workers) ~> ~Waiting

(* `dispatcher wait' always returns.  The code does not guarantee it.      *)
WaitReturns == Waiting ~> ~Waiting

(* The command jobs of a list, and those the workers are executing.        *)
Commands(q) == {q[k] : k \in DOMAIN q} \cap 1 .. Len(script)

Executing == {w \in Workers : wpc[w] = "run"}

Running == {job[w] : w \in Executing}

(* The abstract pool this program implements.  A dispatcher that may be    *)
(* woken without a signal keeps the pool's jobs in order but not its       *)
(* barrier: the pool never waits for it.                                   *)
Pool == INSTANCE JobPool WITH
  Jobs <- LineNumbers,
  MaxRunning <- NumThreads,
  pending <- Commands(queue),
  running <- Running,
  done <- finished,
  waiting <- Waiting /\ ~spurious

(* Every step of the dispatcher and the workers is a step of the pool.     *)
PoolSpec == Pool!Spec

(* ... and the pool's fairness is kept: every worker line that was read is *)
(* executed, whatever the dispatcher does next.                            *)
PoolFairSpec == Pool!FairSpec
==============================================================================
