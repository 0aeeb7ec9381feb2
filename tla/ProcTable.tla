----------------------------- MODULE ProcTable -----------------------------
(***************************************************************************)
(* HW4: the process table of xv6 (proc.c) with the scheduler of this       *)
(* exercise, which runs a process 2^priority times in a row.  Processes    *)
(* fork, exit, wait, kill each other, set their priority and are           *)
(* preempted; every CPU schedules.                                         *)
(*                                                                         *)
(* ptable.lock is taken on one side of a context switch and released on    *)
(* the other: sched() enters the scheduler with the lock held, and the     *)
(* process switched to releases it.  A stretch of code that takes the lock *)
(* and releases it again is one step; one that ends in sched() leaves the  *)
(* lock with its CPU.                                                      *)
(***************************************************************************)
EXTENDS Integers, Sequences

CONSTANTS
  NPROC,         \* slots of the process table
  CPUs,
  MaxPriority,   \* priorities are 0 .. MaxPriority; 7 in the code
  MaxPid         \* bound: the last pid given out

ASSUME ProcTableAssumption ==
  /\ NPROC \in Nat \ {0}
  /\ MaxPriority \in 0 .. 7
  /\ MaxPid \in Nat \ {0}

Slots == 1 .. NPROC
Nobody == 0
InitProc == 1    \* initproc, the first slot, with pid 1

Priorities == 0 .. MaxPriority
Rounds(p) == <<1, 2, 4, 8, 16, 32, 64, 128>>[p + 1]    \* 1 << p

VARIABLES
  state, pid, parent, killed, priority,   \* the fields of struct proc
  nextpid,
  lock,      \* the CPU that holds ptable.lock: a set of at most one
  proc,      \* c->proc: the slot a CPU runs, or Nobody
  at,        \* the scheduler's p: the slot it looks at, 0 between passes
  ticks,     \* the scheduler's ticks, the current run included
  pc,        \* where each process is in user code or in the kernel
  np         \* fork's np

table == <<state, pid, parent, killed, priority, nextpid>>
sched == <<proc, at, ticks>>
calls == <<pc, np>>
vars == <<table, lock, sched, calls>>

States == {"UNUSED", "EMBRYO", "SLEEPING", "RUNNABLE", "RUNNING", "ZOMBIE"}

(* Where a process is: "embryo" and "forked" before and after the parent's *)
(* memory is copied to np, "wait" before wait takes the lock, "asleep"     *)
(* inside the sleep of wait.                                               *)
Places == {"user", "embryo", "forked", "wait", "asleep", "exit"}

TypeOK ==
  /\ state \in [Slots -> States]
  /\ pid \in [Slots -> 0 .. MaxPid]
  /\ parent \in [Slots -> Slots \cup {Nobody}]
  /\ killed \in [Slots -> BOOLEAN]
  /\ priority \in [Slots -> Priorities]
  /\ nextpid \in 1 .. MaxPid + 1
  /\ lock \in SUBSET CPUs
  /\ proc \in [CPUs -> Slots \cup {Nobody}]
  /\ at \in [CPUs -> 0 .. NPROC + 1]
  /\ ticks \in [CPUs -> 0 .. 128]
  /\ pc \in [Slots -> Places]
  /\ np \in [Slots -> Slots \cup {Nobody}]

(* userinit has made the first process; the CPUs are about to schedule.    *)
Init ==
  /\ state = [p \in Slots |-> IF p = InitProc THEN "RUNNABLE" ELSE "UNUSED"]
  /\ pid = [p \in Slots |-> IF p = InitProc THEN 1 ELSE 0]
  /\ parent = [p \in Slots |-> Nobody]
  /\ killed = [p \in Slots |-> FALSE]
  /\ priority = [p \in Slots |-> 0]
  /\ nextpid = 2
  /\ lock = {}
  /\ proc = [c \in CPUs |-> Nobody]
  /\ at = [c \in CPUs |-> 0]
  /\ ticks = [c \in CPUs |-> 0]
  /\ pc = [p \in Slots |-> "user"]
  /\ np = [p \in Slots |-> Nobody]

(* The first slot of a set, as a loop over the table finds it.             *)
IsFirst(p, set) == p \in set /\ \A q \in set : p <= q

InState(s) == {p \in Slots : state[p] = s}

------------------------------------------------------------------------------
(* scheduler *)

Acquire(c) == lock = {} /\ lock' = {c}

(* acquire, and the first slot of a pass over the table.                   *)
StartPass(c) ==
  /\ proc[c] = Nobody /\ at[c] = 0
  /\ Acquire(c)
  /\ at' = [at EXCEPT ![c] = 1]
  /\ UNCHANGED <<table, proc, ticks, calls>>

InPass(c) == c \in lock /\ proc[c] = Nobody /\ at[c] # 0

Ahead(c) == {p \in InState("RUNNABLE") : at[c] <= p}

(* The next RUNNABLE process is switched to for the first of its rounds.   *)
Choose(c) ==
  /\ InPass(c)
  /\ \E p \in Slots :
       /\ IsFirst(p, Ahead(c))
       /\ at' = [at EXCEPT ![c] = p]
       /\ ticks' = [ticks EXCEPT ![c] = Rounds(priority[p])]
       /\ proc' = [proc EXCEPT ![c] = p]
       /\ state' = [state EXCEPT ![p] = "RUNNING"]
  /\ UNCHANGED <<pid, parent, killed, priority, nextpid, lock, calls>>

EndPass(c) ==
  /\ InPass(c)
  /\ Ahead(c) = {}
  /\ at' = [at EXCEPT ![c] = 0]
  /\ lock' = {}
  /\ UNCHANGED <<table, proc, ticks, calls>>

(* The scheduler goes on where it switched to the process on c, which has  *)
(* changed its state.                                                      *)
SwitchedBack(c) ==
  c \in lock /\ proc[c] # Nobody /\ state[proc[c]] # "RUNNING"

(* The process may still run and has rounds left: it is switched to again. *)
RunAgain(c) ==
  /\ SwitchedBack(c)
  /\ state[proc[c]] = "RUNNABLE" /\ ticks[c] > 1
  /\ ticks' = [ticks EXCEPT ![c] = @ - 1]
  /\ state' = [state EXCEPT ![proc[c]] = "RUNNING"]
  /\ UNCHANGED <<pid, parent, killed, priority, nextpid, lock, proc, at, calls>>

(* Mutant: every process is followed by the first of the table. *)
Leave_FromTheStart(c) ==
  /\ SwitchedBack(c)
  /\ state[proc[c]] = "RUNNABLE" => ticks[c] <= 1
  /\ ticks' = [ticks EXCEPT ![c] = 0]
  /\ proc' = [proc EXCEPT ![c] = Nobody]
  /\ at' = [at EXCEPT ![c] = 1]
  /\ UNCHANGED <<table, lock, calls>>

(* Otherwise the pass goes on with the next slot.                          *)
Leave(c) ==
  /\ SwitchedBack(c)
  /\ state[proc[c]] = "RUNNABLE" => ticks[c] <= 1
  /\ ticks' = [ticks EXCEPT ![c] = 0]
  /\ proc' = [proc EXCEPT ![c] = Nobody]
  /\ at' = [at EXCEPT ![c] = proc[c] + 1]
  /\ UNCHANGED <<table, lock, calls>>

Scheduler(c) ==
  StartPass(c) \/ Choose(c) \/ EndPass(c) \/ RunAgain(c) \/ Leave(c)

------------------------------------------------------------------------------
(* Process p on CPU c *)

Runs(c, p) == proc[c] = p /\ state[p] = "RUNNING"

(* It executes; a lock held by c is the one it has still to release.       *)
Executes(c, p) == Runs(c, p) /\ c \notin lock

(* It can enter the kernel on its own account.                             *)
InUser(c, p) == Executes(c, p) /\ pc[p] = "user" /\ ~killed[p]

(* After swtch, in yield or in forkret: the lock is released.              *)
Resume(c, p) ==
  /\ Runs(c, p) /\ c \in lock
  /\ pc[p] # "asleep"
  /\ lock' = {}
  /\ UNCHANGED <<table, sched, calls>>

(* Mutant: the lock is released before the switch to the scheduler. *)
Yield_Unlocked(c, p) ==
  /\ Executes(c, p)
  /\ lock = {} /\ UNCHANGED lock
  /\ state' = [state EXCEPT ![p] = "RUNNABLE"]
  /\ UNCHANGED <<pid, parent, killed, priority, nextpid, sched, calls>>

(* yield, in a timer interrupt, in user code or in the kernel.             *)
Yield(c, p) ==
  /\ Executes(c, p)
  /\ Acquire(c)
  /\ state' = [state EXCEPT ![p] = "RUNNABLE"]
  /\ UNCHANGED <<pid, parent, killed, priority, nextpid, sched, calls>>

(* setprio *)
SetPrio(c, p) ==
  /\ InUser(c, p)
  /\ lock = {}
  /\ \E n \in Priorities : priority' = [priority EXCEPT ![p] = n]
  /\ UNCHANGED <<state, pid, parent, killed, nextpid, lock, sched, calls>>

------------------------------------------------------------------------------
(* fork *)

(* allocproc: the first UNUSED slot becomes an EMBRYO with the next pid.   *)
AllocProc(c, p) ==
  /\ InUser(c, p)
  /\ lock = {} /\ nextpid <= MaxPid
  /\ \E q \in Slots :
       /\ IsFirst(q, InState("UNUSED"))
       /\ state' = [state EXCEPT ![q] = "EMBRYO"]
       /\ pid' = [pid EXCEPT ![q] = nextpid]
       /\ priority' = [priority EXCEPT ![q] = 0]
       /\ np' = [np EXCEPT ![p] = q]
  /\ nextpid' = nextpid + 1
  /\ pc' = [pc EXCEPT ![p] = "embryo"]
  /\ UNCHANGED <<parent, killed, lock, sched>>

(* kalloc, or later copyuvm, finds no memory: the slot is given back,      *)
(* without the lock and with its pid.                                      *)
ForkFails(c, p) ==
  /\ Executes(c, p)
  /\ pc[p] = "embryo"
  /\ state' = [state EXCEPT ![np[p]] = "UNUSED"]
  /\ np' = [np EXCEPT ![p] = Nobody]
  /\ pc' = [pc EXCEPT ![p] = "user"]
  /\ UNCHANGED <<pid, parent, killed, priority, nextpid, lock, sched>>

(* The copy, and the parent, written without the lock.                     *)
SetParent(c, p) ==
  /\ Executes(c, p)
  /\ pc[p] = "embryo"
  /\ parent' = [parent EXCEPT ![np[p]] = p]
  /\ pc' = [pc EXCEPT ![p] = "forked", ![np[p]] = "user"]
  /\ UNCHANGED <<state, pid, killed, priority, nextpid, lock, sched, np>>

(* The child may run.                                                      *)
MakeRunnable(c, p) ==
  /\ Executes(c, p)
  /\ pc[p] = "forked"
  /\ lock = {}
  /\ state' = [state EXCEPT ![np[p]] = "RUNNABLE"]
  /\ np' = [np EXCEPT ![p] = Nobody]
  /\ pc' = [pc EXCEPT ![p] = "user"]
  /\ UNCHANGED <<pid, parent, killed, priority, nextpid, lock, sched>>

------------------------------------------------------------------------------
(* exit and wait *)

Children(p) == {q \in Slots : parent[q] = p}

ZombieChildren(p) == Children(p) \cap InState("ZOMBIE")

(* wakeup1: wait is the only code here that sleeps, and a process sleeps   *)
(* on its own slot.                                                        *)
WakeUp(st, chans) ==
  [q \in Slots |-> IF st[q] = "SLEEPING" /\ q \in chans THEN "RUNNABLE" ELSE st[q]]

ExitCall(c, p) ==
  /\ InUser(c, p) /\ p # InitProc
  /\ pc' = [pc EXCEPT ![p] = "exit"]
  /\ UNCHANGED <<table, lock, sched, np>>

(* Mutant: init is not told of the zombies it inherits. *)
Exit_InitNotWoken(c, p) ==
  /\ Executes(c, p)
  /\ pc[p] = "exit"
  /\ Acquire(c)
  /\ parent' = [q \in Slots |-> IF parent[q] = p THEN InitProc ELSE parent[q]]
  /\ state' = [WakeUp(state, {parent[p]}) EXCEPT ![p] = "ZOMBIE"]
  /\ UNCHANGED <<pid, killed, priority, nextpid, sched, calls>>

(* Mutant: the parent is not told. *)
Exit_ParentNotWoken(c, p) ==
  /\ Executes(c, p)
  /\ pc[p] = "exit"
  /\ Acquire(c)
  /\ parent' = [q \in Slots |-> IF parent[q] = p THEN InitProc ELSE parent[q]]
  /\ state' = [state EXCEPT ![p] = "ZOMBIE"]
  /\ UNCHANGED <<pid, killed, priority, nextpid, sched, calls>>

(* Mutant: the children keep their parent. *)
Exit_NoReparenting(c, p) ==
  /\ Executes(c, p)
  /\ pc[p] = "exit"
  /\ Acquire(c)
  /\ state' = [WakeUp(state, {parent[p]}) EXCEPT ![p] = "ZOMBIE"]
  /\ UNCHANGED <<pid, parent, killed, priority, nextpid, sched, calls>>

(* exit, from acquire to sched: the parent is woken, the children go to    *)
(* init, which is woken if one of them is a zombie.                        *)
Exit(c, p) ==
  /\ Executes(c, p)
  /\ pc[p] = "exit"
  /\ Acquire(c)
  /\ parent' = [q \in Slots |-> IF parent[q] = p THEN InitProc ELSE parent[q]]
  /\ LET inherited == IF ZombieChildren(p) # {} THEN {InitProc} ELSE {}
     IN  state' = [WakeUp(state, {parent[p]} \cup inherited) EXCEPT ![p] = "ZOMBIE"]
  /\ UNCHANGED <<pid, killed, priority, nextpid, sched, calls>>

(* A killed process exits instead, at its next trap.                       *)
KilledTrap(c, p) ==
  /\ Executes(c, p)
  /\ pc[p] = "user" /\ killed[p]
  /\ pc' = [pc EXCEPT ![p] = "exit"]
  /\ UNCHANGED <<table, lock, sched, np>>

WaitCall(c, p) ==
  /\ InUser(c, p)
  /\ pc' = [pc EXCEPT ![p] = "wait"]
  /\ UNCHANGED <<table, lock, sched, np>>

(* The loop of wait begins with the lock: just taken, or held since the    *)
(* scheduler switched back into sleep.                                     *)
WaitLoop(c, p) ==
  \/ Executes(c, p) /\ pc[p] = "wait" /\ lock = {}
  \/ Runs(c, p) /\ pc[p] = "asleep" /\ c \in lock

(* Mutant: the first child is taken, a zombie or not. *)
WaitReaps_AnyChild(c, p) ==
  /\ WaitLoop(c, p)
  /\ \E q \in Slots :
       /\ IsFirst(q, Children(p))
       /\ pid' = [pid EXCEPT ![q] = 0]
       /\ parent' = [parent EXCEPT ![q] = Nobody]
       /\ killed' = [killed EXCEPT ![q] = FALSE]
       /\ state' = [state EXCEPT ![q] = "UNUSED"]
  /\ lock' = {}
  /\ pc' = [pc EXCEPT ![p] = "user"]
  /\ UNCHANGED <<priority, nextpid, sched, np>>

WaitReaps(c, p) ==
  /\ WaitLoop(c, p)
  /\ \E q \in Slots :
       /\ IsFirst(q, ZombieChildren(p))
       /\ pid' = [pid EXCEPT ![q] = 0]
       /\ parent' = [parent EXCEPT ![q] = Nobody]
       /\ killed' = [killed EXCEPT ![q] = FALSE]
       /\ state' = [state EXCEPT ![q] = "UNUSED"]
  /\ lock' = {}
  /\ pc' = [pc EXCEPT ![p] = "user"]
  /\ UNCHANGED <<priority, nextpid, sched, np>>

WaitFails(c, p) ==
  /\ WaitLoop(c, p)
  /\ ZombieChildren(p) = {}
  /\ Children(p) = {} \/ killed[p]
  /\ lock' = {}
  /\ pc' = [pc EXCEPT ![p] = "user"]
  /\ UNCHANGED <<table, sched, np>>

(* sleep(curproc, &ptable.lock): the lock goes to the scheduler.           *)
WaitSleeps(c, p) ==
  /\ WaitLoop(c, p)
  /\ ZombieChildren(p) = {} /\ Children(p) # {} /\ ~killed[p]
  /\ lock' = {c}
  /\ state' = [state EXCEPT ![p] = "SLEEPING"]
  /\ pc' = [pc EXCEPT ![p] = "asleep"]
  /\ UNCHANGED <<pid, parent, killed, priority, nextpid, sched, np>>

------------------------------------------------------------------------------
(* Mutant: a sleeping process is not woken. *)
Kill_NotWoken(c, p) ==
  /\ InUser(c, p)
  /\ lock = {}
  /\ \E n \in 0 .. MaxPid \ {1}, q \in Slots :
       /\ IsFirst(q, {r \in Slots : pid[r] = n})
       /\ killed' = [killed EXCEPT ![q] = TRUE]
  /\ UNCHANGED <<state, pid, parent, priority, nextpid, lock, sched, calls>>

(* kill, of any number: the first slot with that pid, in use or not.  (Of  *)
(* init it would end in a panic.)                                          *)
Kill(c, p) ==
  /\ InUser(c, p)
  /\ lock = {}
  /\ \E n \in 0 .. MaxPid \ {1}, q \in Slots :
       /\ IsFirst(q, {r \in Slots : pid[r] = n})
       /\ killed' = [killed EXCEPT ![q] = TRUE]
       /\ state' = WakeUp(state, {q})
  /\ UNCHANGED <<pid, parent, priority, nextpid, lock, sched, calls>>

------------------------------------------------------------------------------
(* What the kernel does with a process, and what the process asks for.     *)
Kernel(c, p) ==
  \/ SetParent(c, p) \/ MakeRunnable(c, p) \/ KilledTrap(c, p) \/ Exit(c, p)
  \/ WaitReaps(c, p) \/ WaitFails(c, p) \/ WaitSleeps(c, p)

User(c, p) ==
  \/ SetPrio(c, p) \/ AllocProc(c, p) \/ ExitCall(c, p)
  \/ WaitCall(c, p) \/ Kill(c, p)

Next ==
  \E c \in CPUs :
    \/ Scheduler(c)
    \/ \E p \in Slots :
         Resume(c, p) \/ Yield(c, p) \/ ForkFails(c, p) \/ Kernel(c, p) \/ User(c, p)

Spec == Init /\ [][Next]_vars

(* A CPU goes on, the timer interrupts whoever runs, and a process that is *)
(* run again and again gets on with its system call: a time slice is       *)
(* longer than a step, and who keeps trying gets the lock in the end.      *)
FairSpec ==
  /\ Spec
  /\ \A c \in CPUs : WF_vars(Scheduler(c))
  /\ \A c \in CPUs : WF_vars(\E p \in Slots : Resume(c, p) \/ Yield(c, p))
  /\ \A p \in Slots : SF_vars(\E c \in CPUs : Kernel(c, p))
------------------------------------------------------------------------------
(* Properties *)

Live == {"SLEEPING", "RUNNABLE", "RUNNING"}

(* The lock has one holder.                                                *)
(* A process runs on one CPU at most, and on none when it is not RUNNING,  *)
(* but for the switch back, under the lock: no CPU takes up a process      *)
(* whose kernel stack another is still using ("enter scheduler, must hold  *)
(* only ptable.lock", proc.c:375).                                         *)
OneCPUEach ==
  /\ \A c, d \in lock : c = d
  /\ \A c, d \in CPUs : proc[c] = proc[d] /\ proc[c] # Nobody => c = d
  /\ \A c \in CPUs :
       proc[c] # Nobody /\ c \notin lock => state[proc[c]] = "RUNNING"
  /\ \A p \in InState("RUNNING") : \E c \in CPUs : proc[c] = p

(* A process asleep in wait has a child to wait for, none that has already *)
(* exited, and has not been killed: no wakeup is lost, its own child's or  *)
(* that of a zombie init inherits.                                         *)
NoLostWakeup ==
  \A p \in InState("SLEEPING") :
    ZombieChildren(p) = {} /\ Children(p) # {} /\ ~killed[p]

(* Whoever can exit has a parent alive to reap it, and an unused slot is   *)
(* nobody's child, whatever fork left there when it failed.                *)
EveryoneHasAParent ==
  \A p \in Slots \ {InitProc} :
    /\ state[p] \in Live \cup {"ZOMBIE"} =>
         parent[p] # Nobody /\ state[parent[p]] \in Live
    /\ state[p] = "UNUSED" => parent[p] = Nobody

(* A pid names one slot, failed forks' leftovers included: kill cannot     *)
(* reach another process than the one it was told.                         *)
PidsAreUnique ==
  \A p, q \in Slots : pid[p] = pid[q] /\ pid[p] # 0 => p = q

(* Fork, exit and wait keep the promises of ProcTree: every exit is        *)
(* reaped at most once, by the parent or by init.                          *)
AlivePids  == {pid[p] : p \in {q \in Slots : state[q] \in Live}}
ZombiePids == {pid[p] : p \in {q \in Slots : state[q] = "ZOMBIE"}}
FamilyPids ==
  {<<pid[p], pid[parent[p]]>> :
     p \in {q \in Slots \ {InitProc} : state[q] \in Live \cup {"ZOMBIE"}}}

Tree == INSTANCE ProcTree WITH
  Pids <- 1 .. MaxPid, InitPid <- 1,
  alive <- AlivePids, zombies <- ZombiePids, edges <- FamilyPids

TreeSpec == Tree!Spec

(* A process that can run is run.                                          *)
EveryRunnableRuns ==
  \A p \in Slots : state[p] = "RUNNABLE" ~> state[p] = "RUNNING"

(* A killed process exits, asleep or not.                                  *)
KilledProcessesExit ==
  \A p \in Slots : killed[p] /\ state[p] \in Live ~> state[p] = "ZOMBIE"

(* A wait returns when there is a zombie for it.                           *)
WaitReturns ==
  \A p \in Slots :
    pc[p] \in {"wait", "asleep"} /\ ZombieChildren(p) # {} ~> pc[p] = "user"

(* "killed: if non-zero, have been killed" (proc.h:48): a process is not   *)
(* born killed.  This does not hold: kill(0), or kill of a pid that a      *)
(* failed fork left behind, marks an UNUSED slot, and allocproc does not   *)
(* clear the mark.                                                         *)
BornUnkilled ==
  [][\A p \in Slots :
       state[p] = "UNUSED" /\ state'[p] = "EMBRYO" => ~killed'[p]]_vars
=============================================================================
