--------------------------------- MODULE Ps ---------------------------------
(***************************************************************************)
(* HW3: the process table of xv6 (proc.c), sleeping on the clock           *)
(* (sysproc.c), and the listing of processes by ps (ps.c), which asks for  *)
(* one pid at a time while processes come and go.                          *)
(*                                                                         *)
(* A critical section of ptable.lock is one step, the switch to and from   *)
(* the scheduler included: how the lock crosses a switch is ProcTable's    *)
(* subject.  tickslock is held over several steps and is a variable.       *)
(*                                                                         *)
(* The scheduler's choice of a process is left open.  The rule on lines    *)
(* 345 to 372 of proc.c has no meaning: line 366 assigns to an expression, *)
(* which no compiler accepts.                                              *)
(***************************************************************************)
EXTENDS Integers, FiniteSets

CONSTANTS
  NPROC,         \* slots of the process table
  NOFILE,        \* files a process may have open
  UintValues,    \* the number of values of uint; 2^32 in the code
  Durations,     \* the arguments sleep is called with
  Programs,      \* what the user programs may be, by the calls they make
  MaxPid,        \* bound: the last pid given out
  MaxSwitches    \* bound: switches are counted up to it

SystemCalls ==
  {"fork", "exit", "wait", "kill", "open", "close", "sleep", "ps"}

Uints == 0 .. UintValues - 1

ASSUME PsAssumption ==
  /\ NPROC \in Nat \ {0}
  /\ NOFILE \in Nat
  /\ UintValues \in Nat \ {0}
  /\ Durations \subseteq -(UintValues \div 2) .. UintValues \div 2 - 1
  /\ \A calls \in Programs : calls \subseteq SystemCalls
  /\ MaxPid \in Nat \ {0}
  /\ MaxSwitches \in Nat

uint(k) == k % UintValues

Slots == 1 .. NPROC
Nobody == 0
InitProc == 1     \* initproc, the first slot, with pid 1

(* Channels: a slot for the parent asleep in wait, and &ticks.             *)
NoChan == 0
TicksChan == NPROC + 1

(* Holders of tickslock: a process' slot or the timer's interrupt.         *)
Timer == NPROC + 1

VARIABLES
  calls,         \* the system calls the programs make (never changes)
  state, pid, parent, killed, chan, ofile, nrswitch,  \* fields of struct proc
  nextpid,
  ticks, tickslock,
  pc,            \* where each process is in user code or in the kernel
  np,            \* fork's np
  n, ticks0,     \* sys_sleep's n and ticks0; 0 outside of it
  maxPid, next,  \* ps: maxPid and the pid it asks for next
  listed,        \* ps: the pids it has printed a row for
  elapsed,       \* history: ticks since a sleep began, up to UintValues
  naps,          \* history: times a killed process went to sleep on ticks
  switches,      \* history: times the process of a slot was switched to
  present        \* history: pids of processes there ever since ps read maxPid

family == <<pid, parent, nextpid, np>>
sleeping == <<ticks, tickslock, n, ticks0, elapsed, naps>>
listing == <<maxPid, next, listed, present>>
counts == <<ofile, nrswitch, switches>>
vars == <<calls, state, killed, chan, pc, family, sleeping, listing, counts>>

States == {"UNUSED", "EMBRYO", "SLEEPING", "RUNNABLE", "RUNNING", "ZOMBIE"}

(* "embryo" and "forked": before and after fork's copy.  "wait", "waiting": *)
(* before and inside the sleep of wait.  "sleep", "test", "doze", "asleep": *)
(* sys_sleep before it has tickslock, at its test, on its way to sleep and *)
(* in sleep.  "count", "list": in ps.                                      *)
Places == {"user", "embryo", "forked", "wait", "waiting", "exit", "sleep",
           "test", "doze", "asleep", "count", "list"}

TypeOK ==
  /\ calls \in Programs
  /\ state \in [Slots -> States]
  /\ pid \in [Slots -> 0 .. MaxPid]
  /\ parent \in [Slots -> Slots \cup {Nobody}]
  /\ killed \in [Slots -> BOOLEAN]
  /\ chan \in [Slots -> 0 .. TicksChan]
  /\ ofile \in [Slots -> 0 .. NOFILE]
  /\ nrswitch \in [Slots -> 0 .. MaxSwitches]
  /\ nextpid \in 1 .. MaxPid + 1
  /\ ticks \in Uints /\ tickslock \in 0 .. Timer
  /\ pc \in [Slots -> Places]
  /\ np \in [Slots -> Slots \cup {Nobody}]
  /\ n \in [Slots -> Durations \cup {0}] /\ ticks0 \in [Slots -> Uints]
  /\ maxPid \in 0 .. MaxPid /\ next \in 0 .. MaxPid + 1
  /\ listed \subseteq 0 .. MaxPid /\ present \subseteq 1 .. MaxPid
  /\ elapsed \in [Slots -> 0 .. UintValues]
  /\ naps \in [Slots -> Nat]
  /\ switches \in [Slots -> 0 .. MaxSwitches]

(* userinit has made the first process.                                    *)
Init ==
  /\ calls \in Programs
  /\ state = [p \in Slots |-> IF p = InitProc THEN "RUNNABLE" ELSE "UNUSED"]
  /\ pid = [p \in Slots |-> IF p = InitProc THEN 1 ELSE 0]
  /\ parent = [p \in Slots |-> Nobody]
  /\ killed = [p \in Slots |-> FALSE]
  /\ chan = [p \in Slots |-> NoChan]
  /\ ofile = [p \in Slots |-> 0]
  /\ nrswitch = [p \in Slots |-> 0]
  /\ nextpid = 2
  /\ ticks = 0 /\ tickslock = Nobody
  /\ pc = [p \in Slots |-> "user"]
  /\ np = [p \in Slots |-> Nobody]
  /\ n = [p \in Slots |-> 0] /\ ticks0 = [p \in Slots |-> 0]
  /\ maxPid = 0 /\ next = 0 /\ listed = {}
  /\ elapsed = [p \in Slots |-> 0]
  /\ naps = [p \in Slots |-> 0]
  /\ switches = [p \in Slots |-> 0]
  /\ present = {}

(* The first slot of a set, as a loop over the table finds it.             *)
IsFirst(p, set) == p \in set /\ \A q \in set : p <= q

InState(s) == {p \in Slots : state[p] = s}

Live == {"SLEEPING", "RUNNABLE", "RUNNING"}

(* The processes that have been started and not been reaped.               *)
InTable == {p \in Slots : state[p] \in Live \cup {"ZOMBIE"}}

(* wakeup1 *)
WakeUp(st, chans) ==
  [q \in Slots |-> IF st[q] = "SLEEPING" /\ chan[q] \in chans
                   THEN "RUNNABLE" ELSE st[q]]

------------------------------------------------------------------------------
(* scheduler: the switch to a process, back in user code or in the kernel. *)
CountSwitch(p) ==
  /\ nrswitch' = [nrswitch EXCEPT ![p] = IF @ < MaxSwitches THEN @ + 1 ELSE @]
  /\ switches' = [switches EXCEPT ![p] = IF @ < MaxSwitches THEN @ + 1 ELSE @]

(* Whoever slept on ticks releases ptable.lock; wait's loop goes on with   *)
(* it (WaitLoop).                                                          *)
Switch(p) ==
  /\ state[p] = "RUNNABLE" /\ pc[p] # "waiting"
  /\ state' = [state EXCEPT ![p] = "RUNNING"]
  /\ chan' = [chan EXCEPT ![p] = NoChan]
  /\ CountSwitch(p)
  /\ UNCHANGED <<calls, killed, pc, family, sleeping, listing, ofile>>

(* yield, in a timer interrupt; interrupts are off while a lock is held.   *)
Yield(p) ==
  /\ state[p] = "RUNNING" /\ tickslock # p
  /\ state' = [state EXCEPT ![p] = "RUNNABLE"]
  /\ UNCHANGED <<calls, killed, chan, pc, family, sleeping, listing, counts>>

At(p, place) == state[p] = "RUNNING" /\ pc[p] = place

(* A program makes its system calls, unless it has been killed: then it    *)
(* exits.  The first process is init, which forks and waits.               *)
Calls(p, call) ==
  /\ call \in calls /\ At(p, "user") /\ ~killed[p]
  /\ p = InitProc => call \in {"fork", "wait"}

Goto(p, place) == pc' = [pc EXCEPT ![p] = place]

------------------------------------------------------------------------------
(* fork *)

(* allocproc: the first UNUSED slot becomes an EMBRYO with the next pid.   *)
AllocProc(p) ==
  /\ Calls(p, "fork")
  /\ nextpid <= MaxPid
  /\ \E q \in Slots :
       /\ IsFirst(q, InState("UNUSED"))
       /\ state' = [state EXCEPT ![q] = "EMBRYO"]
       /\ pid' = [pid EXCEPT ![q] = nextpid]
       /\ np' = [np EXCEPT ![p] = q]
       /\ switches' = [switches EXCEPT ![q] = 0]
       /\ naps' = [naps EXCEPT ![q] = 0]
  /\ nextpid' = nextpid + 1
  /\ Goto(p, "embryo")
  /\ UNCHANGED <<calls, killed, chan, parent, ticks, tickslock, n, ticks0,
                 elapsed, listing, ofile, nrswitch>>

(* kalloc, or later copyuvm, finds no memory: the slot is given back with  *)
(* its pid.                                                                *)
ForkFails(p) ==
  /\ At(p, "embryo")
  /\ state' = [state EXCEPT ![np[p]] = "UNUSED"]
  /\ np' = [np EXCEPT ![p] = Nobody]
  /\ Goto(p, "user")
  /\ UNCHANGED <<calls, killed, chan, pid, parent, nextpid, sleeping, listing,
                 counts>>

(* Mutant: nrswitch is not reset. *)
Copy_KeepsSwitches(p) ==
  /\ At(p, "embryo")
  /\ parent' = [parent EXCEPT ![np[p]] = p]
  /\ ofile' = [ofile EXCEPT ![np[p]] = ofile[p]]
  /\ pc' = [pc EXCEPT ![p] = "forked", ![np[p]] = "user"]
  /\ UNCHANGED <<calls, state, killed, chan, pid, nextpid, np, sleeping,
                 listing, nrswitch, switches>>

(* The copy of the parent, without the lock; the child is still an EMBRYO. *)
Copy(p) ==
  /\ At(p, "embryo")
  /\ parent' = [parent EXCEPT ![np[p]] = p]
  /\ ofile' = [ofile EXCEPT ![np[p]] = ofile[p]]
  /\ nrswitch' = [nrswitch EXCEPT ![np[p]] = 0]
  /\ pc' = [pc EXCEPT ![p] = "forked", ![np[p]] = "user"]
  /\ UNCHANGED <<calls, state, killed, chan, pid, nextpid, np, sleeping,
                 listing, switches>>

MakeRunnable(p) ==
  /\ At(p, "forked")
  /\ state' = [state EXCEPT ![np[p]] = "RUNNABLE"]
  /\ np' = [np EXCEPT ![p] = Nobody]
  /\ Goto(p, "user")
  /\ UNCHANGED <<calls, killed, chan, pid, parent, nextpid, sleeping, listing,
                 counts>>

(* open and close *)
Open(p) ==
  /\ Calls(p, "open")
  /\ ofile[p] < NOFILE
  /\ ofile' = [ofile EXCEPT ![p] = @ + 1]
  /\ UNCHANGED <<calls, state, killed, chan, pc, family, sleeping, listing,
                 nrswitch, switches>>

Close(p) ==
  /\ Calls(p, "close")
  /\ ofile[p] > 0
  /\ ofile' = [ofile EXCEPT ![p] = @ - 1]
  /\ UNCHANGED <<calls, state, killed, chan, pc, family, sleeping, listing,
                 nrswitch, switches>>

------------------------------------------------------------------------------
(* exit, wait and kill *)

Children(p) == {q \in Slots : parent[q] = p}

ZombieChildren(p) == Children(p) \cap InState("ZOMBIE")

(* exit closes the files first; of a killed process, at its next trap.     *)
CloseAll(p) ==
  /\ ofile' = [ofile EXCEPT ![p] = 0]
  /\ Goto(p, "exit")
  /\ UNCHANGED <<calls, state, killed, chan, family, sleeping, nrswitch,
                 switches>>

ExitCall(p) ==
  /\ Calls(p, "exit")
  /\ CloseAll(p)
  /\ UNCHANGED listing

InPs == {p \in Slots : pc[p] \in {"count", "list"}}

EndListing == maxPid' = 0 /\ next' = 0 /\ listed' = {} /\ present' = {}

KilledTrap(p) ==
  /\ state[p] = "RUNNING" /\ killed[p]
  /\ pc[p] \in {"user", "count", "list"}
  /\ CloseAll(p)
  /\ IF p \in InPs THEN EndListing ELSE UNCHANGED listing

(* exit, from acquire to sched.                                            *)
Exit(p) ==
  /\ At(p, "exit")
  /\ parent' = [q \in Slots |-> IF parent[q] = p THEN InitProc ELSE parent[q]]
  /\ LET inherited == IF ZombieChildren(p) # {} THEN {InitProc} ELSE {}
     IN  state' = [WakeUp(state, {parent[p]} \cup inherited)
                     EXCEPT ![p] = "ZOMBIE"]
  /\ UNCHANGED <<calls, killed, chan, pc, pid, nextpid, np, sleeping, listing,
                 counts>>

WaitCall(p) ==
  /\ Calls(p, "wait")
  /\ Goto(p, "wait")
  /\ UNCHANGED <<calls, state, killed, chan, family, sleeping, listing,
                 counts>>

(* The loop of wait, with ptable.lock: just taken, or after the switch     *)
(* back into its sleep.                                                    *)
WaitLoop(p) ==
  \/ At(p, "wait") /\ UNCHANGED <<nrswitch, switches>>
  \/ state[p] = "RUNNABLE" /\ pc[p] = "waiting" /\ CountSwitch(p)

WaitReaps(p) ==
  /\ WaitLoop(p)
  /\ \E q \in Slots :
       /\ IsFirst(q, ZombieChildren(p))
       /\ pid' = [pid EXCEPT ![q] = 0]
       /\ parent' = [parent EXCEPT ![q] = Nobody]
       /\ killed' = [killed EXCEPT ![q] = FALSE]
       /\ state' = [state EXCEPT ![q] = "UNUSED", ![p] = "RUNNING"]
       /\ present' = present \ {pid[q]}
  /\ chan' = [chan EXCEPT ![p] = NoChan]
  /\ Goto(p, "user")
  /\ UNCHANGED <<calls, nextpid, np, sleeping, maxPid, next, listed, ofile>>

WaitFails(p) ==
  /\ WaitLoop(p)
  /\ ZombieChildren(p) = {}
  /\ Children(p) = {} \/ killed[p]
  /\ state' = [state EXCEPT ![p] = "RUNNING"]
  /\ chan' = [chan EXCEPT ![p] = NoChan]
  /\ Goto(p, "user")
  /\ UNCHANGED <<calls, killed, family, sleeping, listing, ofile>>

WaitSleeps(p) ==
  /\ WaitLoop(p)
  /\ ZombieChildren(p) = {} /\ Children(p) # {} /\ ~killed[p]
  /\ state' = [state EXCEPT ![p] = "SLEEPING"]
  /\ chan' = [chan EXCEPT ![p] = p]
  /\ Goto(p, "waiting")
  /\ UNCHANGED <<calls, killed, family, sleeping, listing, ofile>>

(* kill, of any number: the first slot with that pid, in use or not.  (Of  *)
(* init it would end in a panic.)                                          *)
Kill(p) ==
  /\ Calls(p, "kill")
  /\ \E k \in 0 .. MaxPid \ {1}, q \in Slots :
       /\ IsFirst(q, {r \in Slots : pid[r] = k})
       /\ killed' = [killed EXCEPT ![q] = TRUE]
       /\ state' = [state EXCEPT ![q] =
                       IF @ = "SLEEPING" THEN "RUNNABLE" ELSE @]
  /\ UNCHANGED <<calls, chan, pc, family, sleeping, listing, counts>>

------------------------------------------------------------------------------
(* sys_sleep and the clock *)

SleepCall(p) ==
  /\ Calls(p, "sleep")
  /\ \E d \in Durations : n' = [n EXCEPT ![p] = d]
  /\ Goto(p, "sleep")
  /\ UNCHANGED <<calls, state, killed, chan, family, ticks, tickslock, ticks0,
                 elapsed, naps, listing, counts>>

(* acquire(&tickslock); ticks0 = ticks;                                    *)
SleepStart(p) ==
  /\ At(p, "sleep")
  /\ tickslock = Nobody /\ tickslock' = p
  /\ ticks0' = [ticks0 EXCEPT ![p] = ticks]
  /\ elapsed' = [elapsed EXCEPT ![p] = 0]
  /\ Goto(p, "test")
  /\ UNCHANGED <<calls, state, killed, chan, family, ticks, n, naps, listing,
                 counts>>

(* Mutant: the end is computed and compared. *)
Enough_EndTime(p) == ticks >= uint(ticks0[p] + n[p])

(* ticks - ticks0 < n fails, as unsigned numbers.                          *)
Enough(p) == uint(ticks - ticks0[p]) >= uint(n[p])

LeaveSleep(p) ==
  /\ tickslock' = Nobody
  /\ n' = [n EXCEPT ![p] = 0]
  /\ ticks0' = [ticks0 EXCEPT ![p] = 0]
  /\ elapsed' = [elapsed EXCEPT ![p] = 0]
  /\ Goto(p, "user")
  /\ UNCHANGED <<calls, state, killed, chan, family, ticks, naps, listing,
                 counts>>

SleepReturns(p) == At(p, "test") /\ Enough(p) /\ LeaveSleep(p)

SleepKilled(p) == At(p, "test") /\ ~Enough(p) /\ killed[p] /\ LeaveSleep(p)

(* Not killed so far: the call of sleep.                                   *)
SleepOn(p) ==
  /\ At(p, "test") /\ ~Enough(p) /\ ~killed[p]
  /\ Goto(p, "doze")
  /\ UNCHANGED <<calls, state, killed, chan, family, sleeping, listing,
                 counts>>

(* Mutant: tickslock is released before the process is marked SLEEPING. *)
Doze_ReleaseFirst(p) ==
  /\ At(p, "doze")
  /\ IF tickslock = p
     THEN tickslock' = Nobody /\ UNCHANGED <<calls, state, chan, pc, naps>>
     ELSE /\ state' = [state EXCEPT ![p] = "SLEEPING"]
          /\ chan' = [chan EXCEPT ![p] = TicksChan]
          /\ Goto(p, "asleep")
          /\ UNCHANGED <<calls, tickslock, naps>>
  /\ UNCHANGED <<calls, killed, family, ticks, n, ticks0, elapsed, listing,
                 counts>>

(* sleep, from acquire(&ptable.lock) to sched: tickslock is released under *)
(* ptable.lock.                                                            *)
Doze(p) ==
  /\ At(p, "doze")
  /\ state' = [state EXCEPT ![p] = "SLEEPING"]
  /\ chan' = [chan EXCEPT ![p] = TicksChan]
  /\ tickslock' = Nobody
  /\ naps' = [naps EXCEPT ![p] = IF killed[p] THEN @ + 1 ELSE @]
  /\ Goto(p, "asleep")
  /\ UNCHANGED <<calls, killed, family, ticks, n, ticks0, elapsed, listing,
                 counts>>

(* Switched to again: acquire(lk).                                         *)
Relock(p) ==
  /\ At(p, "asleep")
  /\ tickslock = Nobody /\ tickslock' = p
  /\ Goto(p, "test")
  /\ UNCHANGED <<calls, state, killed, chan, family, ticks, n, ticks0,
                 elapsed, naps, listing, counts>>

(* The timer's interrupt: ticks++ under tickslock (ticks while nobody      *)
(* sleeps are left out) ...                                                *)
InSleep == {p \in Slots : pc[p] \in {"test", "doze", "asleep"}}

Tick ==
  /\ \E p \in Slots : pc[p] = "sleep" \/ p \in InSleep
  /\ tickslock = Nobody /\ tickslock' = Timer
  /\ ticks' = uint(ticks + 1)
  /\ elapsed' = [p \in Slots |->
       IF p \in InSleep /\ elapsed[p] < UintValues THEN elapsed[p] + 1
                                                    ELSE elapsed[p]]
  /\ UNCHANGED <<calls, state, killed, chan, pc, family, n, ticks0, naps,
                 listing, counts>>

(* ... then wakeup(&ticks).                                                *)
TickWakeup ==
  /\ tickslock = Timer /\ tickslock' = Nobody
  /\ state' = WakeUp(state, {TicksChan})
  /\ UNCHANGED <<calls, killed, chan, pc, family, ticks, n, ticks0, elapsed,
                 naps, listing, counts>>

------------------------------------------------------------------------------
(* ps *)

Used == Slots \ InState("UNUSED")

(* Mutant: zombies are not counted. *)
getNumProc_NoZombies == Cardinality(Used \ InState("ZOMBIE"))

getNumProc == Cardinality(Used)

(* Mutant: the pid of the last slot in use. *)
getMaxPid_LastSlot ==
  pid[CHOOSE q \in Used : \A r \in Used : r <= q]

getMaxPid == CHOOSE k \in {pid[q] : q \in Used} : \A q \in Used : pid[q] <= k

(* What getProcInfo fills in; nothing if no slot has the pid.              *)
Row(q) ==
  [state |-> state[q],
   ppid |-> IF parent[q] = Nobody THEN 0 ELSE pid[parent[q]],
   nfd |-> ofile[q],
   nrswitch |-> nrswitch[q]]

getProcInfo(k) ==
  {Row(q) : q \in {r \in Slots : IsFirst(r, {s \in Slots : pid[s] = k})}}

PsMaxPid(p) ==
  /\ Calls(p, "ps") /\ InPs = {}
  /\ maxPid' = getMaxPid
  /\ present' = {pid[q] : q \in InTable}
  /\ Goto(p, "count")
  /\ UNCHANGED <<calls, state, killed, chan, family, sleeping, next, listed,
                 counts>>

(* getNumProc, whose result is printed.                                    *)
PsNumProc(p) ==
  /\ At(p, "count") /\ ~killed[p]
  /\ Goto(p, "list")
  /\ UNCHANGED <<calls, state, killed, chan, family, sleeping, listing,
                 counts>>

(* The loop: getProcInfo, and a row if it finds the pid.                   *)
PsRow(p) ==
  /\ At(p, "list") /\ ~killed[p]
  /\ next <= maxPid
  /\ listed' = IF getProcInfo(next) # {} THEN listed \cup {next} ELSE listed
  /\ next' = next + 1
  /\ UNCHANGED <<calls, state, killed, chan, pc, family, sleeping, maxPid,
                 present, counts>>

(* exit() *)
PsEnd(p) ==
  /\ At(p, "list") /\ ~killed[p]
  /\ next > maxPid
  /\ CloseAll(p)
  /\ EndListing

------------------------------------------------------------------------------
Scheduler(p) == Switch(p) \/ Yield(p)

Kernel(p) ==
  \/ ForkFails(p) \/ Copy(p) \/ MakeRunnable(p)
  \/ KilledTrap(p) \/ Exit(p)
  \/ WaitReaps(p) \/ WaitFails(p) \/ WaitSleeps(p)
  \/ SleepStart(p) \/ SleepReturns(p) \/ SleepKilled(p) \/ SleepOn(p)
  \/ Doze(p) \/ Relock(p)

User(p) ==
  \/ AllocProc(p) \/ Open(p) \/ Close(p) \/ ExitCall(p) \/ WaitCall(p)
  \/ Kill(p) \/ SleepCall(p)
  \/ PsMaxPid(p) \/ PsNumProc(p) \/ PsRow(p) \/ PsEnd(p)

Next ==
  \/ \E p \in Slots : Scheduler(p) \/ Kernel(p) \/ User(p)
  \/ Tick
  \/ TickWakeup

Spec == Init /\ [][Next]_vars

------------------------------------------------------------------------------
(* Properties *)

(* The total ps prints is the number of rows it would print for processes  *)
(* if nothing changed: pids are unique, lie below the greatest, and what a *)
(* failed fork leaves behind hides nobody.                                 *)
TotalsAgree ==
  getNumProc = Cardinality({k \in 0 .. getMaxPid :
                              \E r \in getProcInfo(k) : r.state # "UNUSED"})

(* The parent in a row is a living process, a zombie holds no files, and   *)
(* nrswitch, the "number context switches in" (processInfo.h:7), counts    *)
(* those of the process itself, not of those that had its slot before it.  *)
RowsAreCurrent ==
  \A k \in 2 .. MaxPid, q \in InTable : pid[q] = k =>
    \A r \in getProcInfo(k) :
      /\ \E s \in getProcInfo(r.ppid) : s.state \in Live
      /\ r.state = "ZOMBIE" => r.nfd = 0
      /\ r.nrswitch = switches[q]

(* Who is in the table from the moment ps asks for the greatest pid until  *)
(* it has asked for the last has a row, whoever comes and goes meanwhile.  *)
StayersAreListed == next > maxPid => present \subseteq listed

(* No process is asleep on ticks when its time has come, except while the  *)
(* timer's interrupt is on its way to wake it: sleep gives up tickslock    *)
(* only once wakeup cannot miss it.                                        *)
NobodyOversleeps ==
  \A p \in InState("SLEEPING") :
    chan[p] = TicksChan /\ tickslock # Timer => ~Enough(p)

(* kill looks at the state and sys_sleep at killed under different locks:  *)
(* a process that is killed between its test and its sleep sleeps, but for *)
(* one tick only.                                                          *)
KilledNapOnce == \A p \in Slots : naps[p] <= 1

(* A sleep that is not killed lasts at least as many ticks as asked,       *)
(* wherever the clock wraps; a negative n counts as 2^32 + n.              *)
NeverEarly ==
  [][\A p \in Slots :
       pc[p] = "test" /\ pc'[p] = "user" /\ ~killed[p] =>
         elapsed[p] >= uint(n[p])]_vars
=============================================================================
