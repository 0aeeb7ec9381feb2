-------------------------- MODULE ProcTableProofs --------------------------
(***************************************************************************)
(* Proofs about ProcTable, for any number of slots and CPUs, any range of  *)
(* priorities and any bound on the pids.                                   *)
(*                                                                         *)
(* The inductive invariant IInv says, beside the properties themselves,    *)
(* that init is alive and cannot exit, that a fork in progress owns its    *)
(* EMBRYO slot and a parent's name in it, and that pids are handed out in  *)
(* increasing order.  Each part is proved in a lemma with one step for     *)
(* each action.                                                            *)
(***************************************************************************)
EXTENDS ProcTable, TLAPS

Forking == {p \in Slots : pc[p] \in {"embryo", "forked"}}

(* Init is alive, nobody has killed it and it never calls exit; nobody is  *)
(* its own parent.                                                         *)
InitLives ==
  /\ state[InitProc] \in Live
  /\ pid[InitProc] = 1 /\ parent[InitProc] = Nobody
  /\ ~killed[InitProc] /\ pc[InitProc] # "exit"
  /\ \A p \in Slots : parent[p] # p

(* A process in fork can run, and its np is an EMBRYO of its own.          *)
ForkOwnsItsSlot ==
  /\ \A p \in Forking :
       /\ state[p] \in {"RUNNABLE", "RUNNING"}
       /\ np[p] \in Slots /\ state[np[p]] = "EMBRYO"
       /\ parent[np[p]] = IF pc[p] = "embryo" THEN Nobody ELSE p
  /\ \A p, q \in Forking : np[p] = np[q] => p = q

PidsIncrease ==
  /\ \A p \in Slots : pid[p] < nextpid
  /\ \A p \in Slots : state[p] # "UNUSED" => pid[p] # 0
  /\ PidsAreUnique

SleepersWait ==
  /\ \A p \in InState("SLEEPING") : pc[p] = "asleep"
  /\ NoLostWakeup

IInv ==
  /\ TypeOK /\ InitLives /\ ForkOwnsItsSlot /\ OneCPUEach
  /\ EveryoneHasAParent /\ PidsIncrease /\ SleepersWait

(* The first slot exists, and Nobody is no slot. *)
LEMMA InitProcIsASlot == InitProc \in Slots /\ Nobody \notin Slots
BY ProcTableAssumption DEF InitProc, Slots, Nobody

(* The positions of the scans of the table. *)
LEMMA ScanRange ==
  /\ 0 \in 0 .. NPROC + 1 /\ 1 \in 0 .. NPROC + 1
  /\ \A p \in Slots : p \in 0 .. NPROC + 1 /\ p + 1 \in 0 .. NPROC + 1
BY ProcTableAssumption DEF Slots

(* The runs a priority gives. *)
LEMMA RoundsInRange == 0 \in Priorities /\ \A p \in Priorities : Rounds(p) \in 1 .. 128
BY ProcTableAssumption DEF Priorities, Rounds

(* The invariant holds at the start. *)
LEMMA InitEstablishes == Init => IInv
BY ProcTableAssumption, InitProcIsASlot
DEF Init, IInv, TypeOK, InitLives, ForkOwnsItsSlot, OneCPUEach, EveryoneHasAParent,
    PidsIncrease, PidsAreUnique, SleepersWait, NoLostWakeup, Forking, InState,
    States, Places, Priorities, Slots, InitProc, Nobody, Live

(* Types are preserved. *)
LEMMA TypeStep ==
  TypeOK /\ ForkOwnsItsSlot /\ [Next]_vars => TypeOK'
<1> SUFFICES ASSUME TypeOK, ForkOwnsItsSlot, [Next]_vars PROVE TypeOK'
  OBVIOUS
<1> USE InitProcIsASlot, ScanRange, RoundsInRange, ProcTableAssumption DEF TypeOK, ForkOwnsItsSlot, Forking, States, Places
<1>0. CASE UNCHANGED vars
  BY <1>0 DEF vars, table, sched, calls
<1>1. ASSUME NEW c \in CPUs, StartPass(c) PROVE TypeOK'
  BY <1>1 DEF StartPass, Acquire, table, sched, calls
<1>2. ASSUME NEW c \in CPUs, Choose(c) PROVE TypeOK'
  BY <1>2 DEF Choose, InPass, IsFirst, Ahead, InState, table, sched, calls
<1>3. ASSUME NEW c \in CPUs, EndPass(c) PROVE TypeOK'
  BY <1>3 DEF EndPass, InPass, table, sched, calls
<1>4. ASSUME NEW c \in CPUs, RunAgain(c) PROVE TypeOK'
  BY <1>4 DEF RunAgain, SwitchedBack, table, sched, calls
<1>5. ASSUME NEW c \in CPUs, Leave(c) PROVE TypeOK'
  BY <1>5 DEF Leave, SwitchedBack, table, sched, calls
<1>6. ASSUME NEW c \in CPUs, NEW p \in Slots, Resume(c, p) PROVE TypeOK'
  BY <1>6 DEF Resume, Runs, table, sched, calls
<1>7. ASSUME NEW c \in CPUs, NEW p \in Slots, Yield(c, p) PROVE TypeOK'
  BY <1>7 DEF Yield, Executes, Runs, Acquire, table, sched, calls
<1>8. ASSUME NEW c \in CPUs, NEW p \in Slots, ForkFails(c, p) PROVE TypeOK'
  BY <1>8 DEF ForkFails, Executes, Runs, table, sched, calls
<1>9. ASSUME NEW c \in CPUs, NEW p \in Slots, SetParent(c, p) PROVE TypeOK'
  BY <1>9 DEF SetParent, Executes, Runs, table, sched, calls
<1>10. ASSUME NEW c \in CPUs, NEW p \in Slots, MakeRunnable(c, p) PROVE TypeOK'
  BY <1>10 DEF MakeRunnable, Executes, Runs, table, sched, calls
<1>11. ASSUME NEW c \in CPUs, NEW p \in Slots, KilledTrap(c, p) PROVE TypeOK'
  BY <1>11 DEF KilledTrap, Executes, Runs, table, sched, calls
<1>12. ASSUME NEW c \in CPUs, NEW p \in Slots, Exit(c, p) PROVE TypeOK'
  BY <1>12 DEF Exit, Executes, Runs, Acquire, WakeUp, ZombieChildren, Children, InState, table, sched, calls
<1>13. ASSUME NEW c \in CPUs, NEW p \in Slots, WaitReaps(c, p) PROVE TypeOK'
  BY <1>13 DEF WaitReaps, WaitLoop, Executes, Runs, IsFirst, ZombieChildren, Children, InState, table, sched, calls
<1>14. ASSUME NEW c \in CPUs, NEW p \in Slots, WaitFails(c, p) PROVE TypeOK'
  BY <1>14 DEF WaitFails, WaitLoop, Executes, Runs, ZombieChildren, Children, InState, table, sched, calls
<1>15. ASSUME NEW c \in CPUs, NEW p \in Slots, WaitSleeps(c, p) PROVE TypeOK'
  BY <1>15 DEF WaitSleeps, WaitLoop, Executes, Runs, ZombieChildren, Children, InState, table, sched, calls
<1>16. ASSUME NEW c \in CPUs, NEW p \in Slots, SetPrio(c, p) PROVE TypeOK'
  BY <1>16 DEF SetPrio, InUser, Executes, Runs, table, sched, calls
<1>17. ASSUME NEW c \in CPUs, NEW p \in Slots, AllocProc(c, p) PROVE TypeOK'
  BY <1>17 DEF AllocProc, InUser, Executes, Runs, IsFirst, InState, table, sched, calls
<1>18. ASSUME NEW c \in CPUs, NEW p \in Slots, ExitCall(c, p) PROVE TypeOK'
  BY <1>18 DEF ExitCall, InUser, Executes, Runs, table, sched, calls
<1>19. ASSUME NEW c \in CPUs, NEW p \in Slots, WaitCall(c, p) PROVE TypeOK'
  BY <1>19 DEF WaitCall, InUser, Executes, Runs, table, sched, calls
<1>20. ASSUME NEW c \in CPUs, NEW p \in Slots, Kill(c, p) PROVE TypeOK'
  BY <1>20 DEF Kill, InUser, Executes, Runs, IsFirst, WakeUp, table, sched, calls
<1>21. QED
  BY <1>0, <1>1, <1>2, <1>3, <1>4, <1>5, <1>6, <1>7, <1>8, <1>9, <1>10, <1>11, <1>12, <1>13, <1>14, <1>15, <1>16, <1>17, <1>18, <1>19, <1>20 DEF Next, Scheduler, Kernel, User

(* Init stays alive. *)
LEMMA InitStep ==
  TypeOK /\ InitLives /\ ForkOwnsItsSlot /\ [Next]_vars => InitLives'
<1> SUFFICES ASSUME TypeOK, InitLives, ForkOwnsItsSlot, [Next]_vars PROVE InitLives'
  OBVIOUS
<1> USE InitProcIsASlot DEF TypeOK, InitLives, ForkOwnsItsSlot, Forking, InState, States, Places, Live
<1>0. CASE UNCHANGED vars
  BY <1>0 DEF vars, table, sched, calls
<1>1. ASSUME NEW c \in CPUs, StartPass(c) PROVE InitLives'
  BY <1>1 DEF StartPass, Acquire, table, sched, calls
<1>2. ASSUME NEW c \in CPUs, Choose(c) PROVE InitLives'
  BY <1>2 DEF Choose, InPass, IsFirst, Ahead, InState, table, sched, calls
<1>3. ASSUME NEW c \in CPUs, EndPass(c) PROVE InitLives'
  BY <1>3 DEF EndPass, InPass, table, sched, calls
<1>4. ASSUME NEW c \in CPUs, RunAgain(c) PROVE InitLives'
  BY <1>4 DEF RunAgain, SwitchedBack, table, sched, calls
<1>5. ASSUME NEW c \in CPUs, Leave(c) PROVE InitLives'
  BY <1>5 DEF Leave, SwitchedBack, table, sched, calls
<1>6. ASSUME NEW c \in CPUs, NEW p \in Slots, Resume(c, p) PROVE InitLives'
  BY <1>6 DEF Resume, Runs, table, sched, calls
<1>7. ASSUME NEW c \in CPUs, NEW p \in Slots, Yield(c, p) PROVE InitLives'
  BY <1>7 DEF Yield, Executes, Runs, Acquire, table, sched, calls
<1>8. ASSUME NEW c \in CPUs, NEW p \in Slots, ForkFails(c, p) PROVE InitLives'
  BY <1>8 DEF ForkFails, Executes, Runs, table, sched, calls
<1>9. ASSUME NEW c \in CPUs, NEW p \in Slots, SetParent(c, p) PROVE InitLives'
  BY <1>9 DEF SetParent, Executes, Runs, table, sched, calls
<1>10. ASSUME NEW c \in CPUs, NEW p \in Slots, MakeRunnable(c, p) PROVE InitLives'
  BY <1>10 DEF MakeRunnable, Executes, Runs, table, sched, calls
<1>11. ASSUME NEW c \in CPUs, NEW p \in Slots, KilledTrap(c, p) PROVE InitLives'
  BY <1>11 DEF KilledTrap, Executes, Runs, table, sched, calls
<1>12. ASSUME NEW c \in CPUs, NEW p \in Slots, Exit(c, p) PROVE InitLives'
  BY <1>12 DEF Exit, Executes, Runs, Acquire, WakeUp, ZombieChildren, Children, InState, table, sched, calls
<1>13. ASSUME NEW c \in CPUs, NEW p \in Slots, WaitReaps(c, p) PROVE InitLives'
  BY <1>13 DEF WaitReaps, WaitLoop, Executes, Runs, IsFirst, ZombieChildren, Children, InState, table, sched, calls
<1>14. ASSUME NEW c \in CPUs, NEW p \in Slots, WaitFails(c, p) PROVE InitLives'
  BY <1>14 DEF WaitFails, WaitLoop, Executes, Runs, ZombieChildren, Children, InState, table, sched, calls
<1>15. ASSUME NEW c \in CPUs, NEW p \in Slots, WaitSleeps(c, p) PROVE InitLives'
  BY <1>15 DEF WaitSleeps, WaitLoop, Executes, Runs, ZombieChildren, Children, InState, table, sched, calls
<1>16. ASSUME NEW c \in CPUs, NEW p \in Slots, SetPrio(c, p) PROVE InitLives'
  BY <1>16 DEF SetPrio, InUser, Executes, Runs, table, sched, calls
<1>17. ASSUME NEW c \in CPUs, NEW p \in Slots, AllocProc(c, p) PROVE InitLives'
  BY <1>17 DEF AllocProc, InUser, Executes, Runs, IsFirst, InState, table, sched, calls
<1>18. ASSUME NEW c \in CPUs, NEW p \in Slots, ExitCall(c, p) PROVE InitLives'
  BY <1>18 DEF ExitCall, InUser, Executes, Runs, table, sched, calls
<1>19. ASSUME NEW c \in CPUs, NEW p \in Slots, WaitCall(c, p) PROVE InitLives'
  BY <1>19 DEF WaitCall, InUser, Executes, Runs, table, sched, calls
<1>20. ASSUME NEW c \in CPUs, NEW p \in Slots, Kill(c, p) PROVE InitLives'
  BY <1>20 DEF Kill, InUser, Executes, Runs, IsFirst, WakeUp, table, sched, calls
<1>21. QED
  BY <1>0, <1>1, <1>2, <1>3, <1>4, <1>5, <1>6, <1>7, <1>8, <1>9, <1>10, <1>11, <1>12, <1>13, <1>14, <1>15, <1>16, <1>17, <1>18, <1>19, <1>20 DEF Next, Scheduler, Kernel, User

(* Forks own their slots. *)
LEMMA ForkStep ==
  TypeOK /\ InitLives /\ ForkOwnsItsSlot /\ EveryoneHasAParent /\ [Next]_vars => ForkOwnsItsSlot'
<1> SUFFICES ASSUME TypeOK, InitLives, ForkOwnsItsSlot, EveryoneHasAParent, [Next]_vars PROVE ForkOwnsItsSlot'
  OBVIOUS
<1> USE InitProcIsASlot DEF TypeOK, InitLives, ForkOwnsItsSlot, EveryoneHasAParent, Forking, InState, States, Places, Live
<1>0. CASE UNCHANGED vars
  BY <1>0 DEF vars, table, sched, calls
<1>1. ASSUME NEW c \in CPUs, StartPass(c) PROVE ForkOwnsItsSlot'
  BY <1>1 DEF StartPass, Acquire, table, sched, calls
<1>2. ASSUME NEW c \in CPUs, Choose(c) PROVE ForkOwnsItsSlot'
  BY <1>2 DEF Choose, InPass, IsFirst, Ahead, InState, table, sched, calls
<1>3. ASSUME NEW c \in CPUs, EndPass(c) PROVE ForkOwnsItsSlot'
  BY <1>3 DEF EndPass, InPass, table, sched, calls
<1>4. ASSUME NEW c \in CPUs, RunAgain(c) PROVE ForkOwnsItsSlot'
  BY <1>4 DEF RunAgain, SwitchedBack, table, sched, calls
<1>5. ASSUME NEW c \in CPUs, Leave(c) PROVE ForkOwnsItsSlot'
  BY <1>5 DEF Leave, SwitchedBack, table, sched, calls
<1>6. ASSUME NEW c \in CPUs, NEW p \in Slots, Resume(c, p) PROVE ForkOwnsItsSlot'
  BY <1>6 DEF Resume, Runs, table, sched, calls
<1>7. ASSUME NEW c \in CPUs, NEW p \in Slots, Yield(c, p) PROVE ForkOwnsItsSlot'
  BY <1>7 DEF Yield, Executes, Runs, Acquire, table, sched, calls
<1>8. ASSUME NEW c \in CPUs, NEW p \in Slots, ForkFails(c, p) PROVE ForkOwnsItsSlot'
  BY <1>8 DEF ForkFails, Executes, Runs, table, sched, calls
<1>9. ASSUME NEW c \in CPUs, NEW p \in Slots, SetParent(c, p) PROVE ForkOwnsItsSlot'
  BY <1>9 DEF SetParent, Executes, Runs, table, sched, calls
<1>10. ASSUME NEW c \in CPUs, NEW p \in Slots, MakeRunnable(c, p) PROVE ForkOwnsItsSlot'
  BY <1>10 DEF MakeRunnable, Executes, Runs, table, sched, calls
<1>11. ASSUME NEW c \in CPUs, NEW p \in Slots, KilledTrap(c, p) PROVE ForkOwnsItsSlot'
  BY <1>11 DEF KilledTrap, Executes, Runs, table, sched, calls
<1>12. ASSUME NEW c \in CPUs, NEW p \in Slots, Exit(c, p) PROVE ForkOwnsItsSlot'
  BY <1>12 DEF Exit, Executes, Runs, Acquire, WakeUp, ZombieChildren, Children, InState, table, sched, calls
<1>13. ASSUME NEW c \in CPUs, NEW p \in Slots, WaitReaps(c, p) PROVE ForkOwnsItsSlot'
  BY <1>13 DEF WaitReaps, WaitLoop, Executes, Runs, IsFirst, ZombieChildren, Children, InState, table, sched, calls
<1>14. ASSUME NEW c \in CPUs, NEW p \in Slots, WaitFails(c, p) PROVE ForkOwnsItsSlot'
  BY <1>14 DEF WaitFails, WaitLoop, Executes, Runs, ZombieChildren, Children, InState, table, sched, calls
<1>15. ASSUME NEW c \in CPUs, NEW p \in Slots, WaitSleeps(c, p) PROVE ForkOwnsItsSlot'
  BY <1>15 DEF WaitSleeps, WaitLoop, Executes, Runs, ZombieChildren, Children, InState, table, sched, calls
<1>16. ASSUME NEW c \in CPUs, NEW p \in Slots, SetPrio(c, p) PROVE ForkOwnsItsSlot'
  BY <1>16 DEF SetPrio, InUser, Executes, Runs, table, sched, calls
<1>17. ASSUME NEW c \in CPUs, NEW p \in Slots, AllocProc(c, p) PROVE ForkOwnsItsSlot'
  BY <1>17 DEF AllocProc, InUser, Executes, Runs, IsFirst, InState, table, sched, calls
<1>18. ASSUME NEW c \in CPUs, NEW p \in Slots, ExitCall(c, p) PROVE ForkOwnsItsSlot'
  BY <1>18 DEF ExitCall, InUser, Executes, Runs, table, sched, calls
<1>19. ASSUME NEW c \in CPUs, NEW p \in Slots, WaitCall(c, p) PROVE ForkOwnsItsSlot'
  BY <1>19 DEF WaitCall, InUser, Executes, Runs, table, sched, calls
<1>20. ASSUME NEW c \in CPUs, NEW p \in Slots, Kill(c, p) PROVE ForkOwnsItsSlot'
  BY <1>20 DEF Kill, InUser, Executes, Runs, IsFirst, WakeUp, table, sched, calls
<1>21. QED
  BY <1>0, <1>1, <1>2, <1>3, <1>4, <1>5, <1>6, <1>7, <1>8, <1>9, <1>10, <1>11, <1>12, <1>13, <1>14, <1>15, <1>16, <1>17, <1>18, <1>19, <1>20 DEF Next, Scheduler, Kernel, User

(* One CPU for each process. *)
LEMMA CPUStep ==
  TypeOK /\ ForkOwnsItsSlot /\ OneCPUEach /\ [Next]_vars => OneCPUEach'
<1> SUFFICES ASSUME TypeOK, ForkOwnsItsSlot, OneCPUEach, [Next]_vars PROVE OneCPUEach'
  OBVIOUS
<1> USE InitProcIsASlot DEF TypeOK, ForkOwnsItsSlot, Forking, InState, OneCPUEach, States, Places, Live
<1>0. CASE UNCHANGED vars
  BY <1>0 DEF vars, table, sched, calls
<1>1. ASSUME NEW c \in CPUs, StartPass(c) PROVE OneCPUEach'
  BY <1>1 DEF StartPass, Acquire, table, sched, calls
<1>2. ASSUME NEW c \in CPUs, Choose(c) PROVE OneCPUEach'
  BY <1>2 DEF Choose, InPass, IsFirst, Ahead, InState, table, sched, calls
<1>3. ASSUME NEW c \in CPUs, EndPass(c) PROVE OneCPUEach'
  BY <1>3 DEF EndPass, InPass, table, sched, calls
<1>4. ASSUME NEW c \in CPUs, RunAgain(c) PROVE OneCPUEach'
  BY <1>4 DEF RunAgain, SwitchedBack, table, sched, calls
<1>5. ASSUME NEW c \in CPUs, Leave(c) PROVE OneCPUEach'
  BY <1>5 DEF Leave, SwitchedBack, table, sched, calls
<1>6. ASSUME NEW c \in CPUs, NEW p \in Slots, Resume(c, p) PROVE OneCPUEach'
  BY <1>6 DEF Resume, Runs, table, sched, calls
<1>7. ASSUME NEW c \in CPUs, NEW p \in Slots, Yield(c, p) PROVE OneCPUEach'
  BY <1>7 DEF Yield, Executes, Runs, Acquire, table, sched, calls
<1>8. ASSUME NEW c \in CPUs, NEW p \in Slots, ForkFails(c, p) PROVE OneCPUEach'
  BY <1>8 DEF ForkFails, Executes, Runs, table, sched, calls
<1>9. ASSUME NEW c \in CPUs, NEW p \in Slots, SetParent(c, p) PROVE OneCPUEach'
  BY <1>9 DEF SetParent, Executes, Runs, table, sched, calls
<1>10. ASSUME NEW c \in CPUs, NEW p \in Slots, MakeRunnable(c, p) PROVE OneCPUEach'
  BY <1>10 DEF MakeRunnable, Executes, Runs, table, sched, calls
<1>11. ASSUME NEW c \in CPUs, NEW p \in Slots, KilledTrap(c, p) PROVE OneCPUEach'
  BY <1>11 DEF KilledTrap, Executes, Runs, table, sched, calls
<1>12. ASSUME NEW c \in CPUs, NEW p \in Slots, Exit(c, p) PROVE OneCPUEach'
  BY <1>12 DEF Exit, Executes, Runs, Acquire, WakeUp, ZombieChildren, Children, InState, table, sched, calls
<1>13. ASSUME NEW c \in CPUs, NEW p \in Slots, WaitReaps(c, p) PROVE OneCPUEach'
  BY <1>13 DEF WaitReaps, WaitLoop, Executes, Runs, IsFirst, ZombieChildren, Children, InState, table, sched, calls
<1>14. ASSUME NEW c \in CPUs, NEW p \in Slots, WaitFails(c, p) PROVE OneCPUEach'
  BY <1>14 DEF WaitFails, WaitLoop, Executes, Runs, ZombieChildren, Children, InState, table, sched, calls
<1>15. ASSUME NEW c \in CPUs, NEW p \in Slots, WaitSleeps(c, p) PROVE OneCPUEach'
  BY <1>15 DEF WaitSleeps, WaitLoop, Executes, Runs, ZombieChildren, Children, InState, table, sched, calls
<1>16. ASSUME NEW c \in CPUs, NEW p \in Slots, SetPrio(c, p) PROVE OneCPUEach'
  BY <1>16 DEF SetPrio, InUser, Executes, Runs, table, sched, calls
<1>17. ASSUME NEW c \in CPUs, NEW p \in Slots, AllocProc(c, p) PROVE OneCPUEach'
  BY <1>17 DEF AllocProc, InUser, Executes, Runs, IsFirst, InState, table, sched, calls
<1>18. ASSUME NEW c \in CPUs, NEW p \in Slots, ExitCall(c, p) PROVE OneCPUEach'
  BY <1>18 DEF ExitCall, InUser, Executes, Runs, table, sched, calls
<1>19. ASSUME NEW c \in CPUs, NEW p \in Slots, WaitCall(c, p) PROVE OneCPUEach'
  BY <1>19 DEF WaitCall, InUser, Executes, Runs, table, sched, calls
<1>20. ASSUME NEW c \in CPUs, NEW p \in Slots, Kill(c, p) PROVE OneCPUEach'
  BY <1>20 DEF Kill, InUser, Executes, Runs, IsFirst, WakeUp, table, sched, calls
<1>21. QED
  BY <1>0, <1>1, <1>2, <1>3, <1>4, <1>5, <1>6, <1>7, <1>8, <1>9, <1>10, <1>11, <1>12, <1>13, <1>14, <1>15, <1>16, <1>17, <1>18, <1>19, <1>20 DEF Next, Scheduler, Kernel, User

(* Everyone has a parent. *)
LEMMA ParentStep ==
  TypeOK /\ InitLives /\ ForkOwnsItsSlot /\ EveryoneHasAParent /\ [Next]_vars => EveryoneHasAParent'
<1> SUFFICES ASSUME TypeOK, InitLives, ForkOwnsItsSlot, EveryoneHasAParent, [Next]_vars PROVE EveryoneHasAParent'
  OBVIOUS
<1> USE InitProcIsASlot DEF TypeOK, InitLives, ForkOwnsItsSlot, Forking, InState, EveryoneHasAParent, States, Places, Live
<1>0. CASE UNCHANGED vars
  BY <1>0 DEF vars, table, sched, calls
<1>1. ASSUME NEW c \in CPUs, StartPass(c) PROVE EveryoneHasAParent'
  BY <1>1 DEF StartPass, Acquire, table, sched, calls
<1>2. ASSUME NEW c \in CPUs, Choose(c) PROVE EveryoneHasAParent'
  BY <1>2 DEF Choose, InPass, IsFirst, Ahead, InState, table, sched, calls
<1>3. ASSUME NEW c \in CPUs, EndPass(c) PROVE EveryoneHasAParent'
  BY <1>3 DEF EndPass, InPass, table, sched, calls
<1>4. ASSUME NEW c \in CPUs, RunAgain(c) PROVE EveryoneHasAParent'
  BY <1>4 DEF RunAgain, SwitchedBack, table, sched, calls
<1>5. ASSUME NEW c \in CPUs, Leave(c) PROVE EveryoneHasAParent'
  BY <1>5 DEF Leave, SwitchedBack, table, sched, calls
<1>6. ASSUME NEW c \in CPUs, NEW p \in Slots, Resume(c, p) PROVE EveryoneHasAParent'
  BY <1>6 DEF Resume, Runs, table, sched, calls
<1>7. ASSUME NEW c \in CPUs, NEW p \in Slots, Yield(c, p) PROVE EveryoneHasAParent'
  BY <1>7 DEF Yield, Executes, Runs, Acquire, table, sched, calls
<1>8. ASSUME NEW c \in CPUs, NEW p \in Slots, ForkFails(c, p) PROVE EveryoneHasAParent'
  BY <1>8 DEF ForkFails, Executes, Runs, table, sched, calls
<1>9. ASSUME NEW c \in CPUs, NEW p \in Slots, SetParent(c, p) PROVE EveryoneHasAParent'
  BY <1>9 DEF SetParent, Executes, Runs, table, sched, calls
<1>10. ASSUME NEW c \in CPUs, NEW p \in Slots, MakeRunnable(c, p) PROVE EveryoneHasAParent'
  BY <1>10 DEF MakeRunnable, Executes, Runs, table, sched, calls
<1>11. ASSUME NEW c \in CPUs, NEW p \in Slots, KilledTrap(c, p) PROVE EveryoneHasAParent'
  BY <1>11 DEF KilledTrap, Executes, Runs, table, sched, calls
<1>12. ASSUME NEW c \in CPUs, NEW p \in Slots, Exit(c, p) PROVE EveryoneHasAParent'
  BY <1>12 DEF Exit, Executes, Runs, Acquire, WakeUp, ZombieChildren, Children, InState, table, sched, calls
<1>13. ASSUME NEW c \in CPUs, NEW p \in Slots, WaitReaps(c, p) PROVE EveryoneHasAParent'
  BY <1>13 DEF WaitReaps, WaitLoop, Executes, Runs, IsFirst, ZombieChildren, Children, InState, table, sched, calls
<1>14. ASSUME NEW c \in CPUs, NEW p \in Slots, WaitFails(c, p) PROVE EveryoneHasAParent'
  BY <1>14 DEF WaitFails, WaitLoop, Executes, Runs, ZombieChildren, Children, InState, table, sched, calls
<1>15. ASSUME NEW c \in CPUs, NEW p \in Slots, WaitSleeps(c, p) PROVE EveryoneHasAParent'
  BY <1>15 DEF WaitSleeps, WaitLoop, Executes, Runs, ZombieChildren, Children, InState, table, sched, calls
<1>16. ASSUME NEW c \in CPUs, NEW p \in Slots, SetPrio(c, p) PROVE EveryoneHasAParent'
  BY <1>16 DEF SetPrio, InUser, Executes, Runs, table, sched, calls
<1>17. ASSUME NEW c \in CPUs, NEW p \in Slots, AllocProc(c, p) PROVE EveryoneHasAParent'
  BY <1>17 DEF AllocProc, InUser, Executes, Runs, IsFirst, InState, table, sched, calls
<1>18. ASSUME NEW c \in CPUs, NEW p \in Slots, ExitCall(c, p) PROVE EveryoneHasAParent'
  BY <1>18 DEF ExitCall, InUser, Executes, Runs, table, sched, calls
<1>19. ASSUME NEW c \in CPUs, NEW p \in Slots, WaitCall(c, p) PROVE EveryoneHasAParent'
  BY <1>19 DEF WaitCall, InUser, Executes, Runs, table, sched, calls
<1>20. ASSUME NEW c \in CPUs, NEW p \in Slots, Kill(c, p) PROVE EveryoneHasAParent'
  BY <1>20 DEF Kill, InUser, Executes, Runs, IsFirst, WakeUp, table, sched, calls
<1>21. QED
  BY <1>0, <1>1, <1>2, <1>3, <1>4, <1>5, <1>6, <1>7, <1>8, <1>9, <1>10, <1>11, <1>12, <1>13, <1>14, <1>15, <1>16, <1>17, <1>18, <1>19, <1>20 DEF Next, Scheduler, Kernel, User

(* Pids increase. *)
LEMMA PidStep ==
  TypeOK /\ ForkOwnsItsSlot /\ PidsIncrease /\ [Next]_vars => PidsIncrease'
<1> SUFFICES ASSUME TypeOK, ForkOwnsItsSlot, PidsIncrease, [Next]_vars PROVE PidsIncrease'
  OBVIOUS
<1> USE ProcTableAssumption DEF TypeOK, ForkOwnsItsSlot, Forking, PidsIncrease, PidsAreUnique, States, Places
<1>0. CASE UNCHANGED vars
  BY <1>0 DEF vars, table, sched, calls
<1>1. ASSUME NEW c \in CPUs, StartPass(c) PROVE PidsIncrease'
  BY <1>1 DEF StartPass, Acquire, table, sched, calls
<1>2. ASSUME NEW c \in CPUs, Choose(c) PROVE PidsIncrease'
  BY <1>2 DEF Choose, InPass, IsFirst, Ahead, InState, table, sched, calls
<1>3. ASSUME NEW c \in CPUs, EndPass(c) PROVE PidsIncrease'
  BY <1>3 DEF EndPass, InPass, table, sched, calls
<1>4. ASSUME NEW c \in CPUs, RunAgain(c) PROVE PidsIncrease'
  BY <1>4 DEF RunAgain, SwitchedBack, table, sched, calls
<1>5. ASSUME NEW c \in CPUs, Leave(c) PROVE PidsIncrease'
  BY <1>5 DEF Leave, SwitchedBack, table, sched, calls
<1>6. ASSUME NEW c \in CPUs, NEW p \in Slots, Resume(c, p) PROVE PidsIncrease'
  BY <1>6 DEF Resume, Runs, table, sched, calls
<1>7. ASSUME NEW c \in CPUs, NEW p \in Slots, Yield(c, p) PROVE PidsIncrease'
  BY <1>7 DEF Yield, Executes, Runs, Acquire, table, sched, calls
<1>8. ASSUME NEW c \in CPUs, NEW p \in Slots, ForkFails(c, p) PROVE PidsIncrease'
  BY <1>8 DEF ForkFails, Executes, Runs, table, sched, calls
<1>9. ASSUME NEW c \in CPUs, NEW p \in Slots, SetParent(c, p) PROVE PidsIncrease'
  BY <1>9 DEF SetParent, Executes, Runs, table, sched, calls
<1>10. ASSUME NEW c \in CPUs, NEW p \in Slots, MakeRunnable(c, p) PROVE PidsIncrease'
  BY <1>10 DEF MakeRunnable, Executes, Runs, table, sched, calls
<1>11. ASSUME NEW c \in CPUs, NEW p \in Slots, KilledTrap(c, p) PROVE PidsIncrease'
  BY <1>11 DEF KilledTrap, Executes, Runs, table, sched, calls
<1>12. ASSUME NEW c \in CPUs, NEW p \in Slots, Exit(c, p) PROVE PidsIncrease'
  BY <1>12 DEF Exit, Executes, Runs, Acquire, WakeUp, ZombieChildren, Children, InState, table, sched, calls
<1>13. ASSUME NEW c \in CPUs, NEW p \in Slots, WaitReaps(c, p) PROVE PidsIncrease'
  BY <1>13 DEF WaitReaps, WaitLoop, Executes, Runs, IsFirst, ZombieChildren, Children, InState, table, sched, calls
<1>14. ASSUME NEW c \in CPUs, NEW p \in Slots, WaitFails(c, p) PROVE PidsIncrease'
  BY <1>14 DEF WaitFails, WaitLoop, Executes, Runs, ZombieChildren, Children, InState, table, sched, calls
<1>15. ASSUME NEW c \in CPUs, NEW p \in Slots, WaitSleeps(c, p) PROVE PidsIncrease'
  BY <1>15 DEF WaitSleeps, WaitLoop, Executes, Runs, ZombieChildren, Children, InState, table, sched, calls
<1>16. ASSUME NEW c \in CPUs, NEW p \in Slots, SetPrio(c, p) PROVE PidsIncrease'
  BY <1>16 DEF SetPrio, InUser, Executes, Runs, table, sched, calls
<1>17. ASSUME NEW c \in CPUs, NEW p \in Slots, AllocProc(c, p) PROVE PidsIncrease'
  BY <1>17 DEF AllocProc, InUser, Executes, Runs, IsFirst, InState, table, sched, calls
<1>18. ASSUME NEW c \in CPUs, NEW p \in Slots, ExitCall(c, p) PROVE PidsIncrease'
  BY <1>18 DEF ExitCall, InUser, Executes, Runs, table, sched, calls
<1>19. ASSUME NEW c \in CPUs, NEW p \in Slots, WaitCall(c, p) PROVE PidsIncrease'
  BY <1>19 DEF WaitCall, InUser, Executes, Runs, table, sched, calls
<1>20. ASSUME NEW c \in CPUs, NEW p \in Slots, Kill(c, p) PROVE PidsIncrease'
  BY <1>20 DEF Kill, InUser, Executes, Runs, IsFirst, WakeUp, table, sched, calls
<1>21. QED
  BY <1>0, <1>1, <1>2, <1>3, <1>4, <1>5, <1>6, <1>7, <1>8, <1>9, <1>10, <1>11, <1>12, <1>13, <1>14, <1>15, <1>16, <1>17, <1>18, <1>19, <1>20 DEF Next, Scheduler, Kernel, User

(* No wakeup is lost. *)
LEMMA SleepStep ==
  TypeOK /\ InitLives /\ ForkOwnsItsSlot /\ EveryoneHasAParent /\ SleepersWait /\ [Next]_vars => SleepersWait'
<1> SUFFICES ASSUME TypeOK, InitLives, ForkOwnsItsSlot, EveryoneHasAParent, SleepersWait, [Next]_vars PROVE SleepersWait'
  OBVIOUS
<1> USE InitProcIsASlot DEF TypeOK, InitLives, ForkOwnsItsSlot, Forking, InState, EveryoneHasAParent, SleepersWait, NoLostWakeup, Children, ZombieChildren, States, Places, Live
<1>0. CASE UNCHANGED vars
  BY <1>0 DEF vars, table, sched, calls
<1>1. ASSUME NEW c \in CPUs, StartPass(c) PROVE SleepersWait'
  BY <1>1 DEF StartPass, Acquire, table, sched, calls
<1>2. ASSUME NEW c \in CPUs, Choose(c) PROVE SleepersWait'
  BY <1>2 DEF Choose, InPass, IsFirst, Ahead, InState, table, sched, calls
<1>3. ASSUME NEW c \in CPUs, EndPass(c) PROVE SleepersWait'
  BY <1>3 DEF EndPass, InPass, table, sched, calls
<1>4. ASSUME NEW c \in CPUs, RunAgain(c) PROVE SleepersWait'
  BY <1>4 DEF RunAgain, SwitchedBack, table, sched, calls
<1>5. ASSUME NEW c \in CPUs, Leave(c) PROVE SleepersWait'
  BY <1>5 DEF Leave, SwitchedBack, table, sched, calls
<1>6. ASSUME NEW c \in CPUs, NEW p \in Slots, Resume(c, p) PROVE SleepersWait'
  BY <1>6 DEF Resume, Runs, table, sched, calls
<1>7. ASSUME NEW c \in CPUs, NEW p \in Slots, Yield(c, p) PROVE SleepersWait'
  BY <1>7 DEF Yield, Executes, Runs, Acquire, table, sched, calls
<1>8. ASSUME NEW c \in CPUs, NEW p \in Slots, ForkFails(c, p) PROVE SleepersWait'
  BY <1>8 DEF ForkFails, Executes, Runs, table, sched, calls
<1>9. ASSUME NEW c \in CPUs, NEW p \in Slots, SetParent(c, p) PROVE SleepersWait'
  BY <1>9 DEF SetParent, Executes, Runs, table, sched, calls
<1>10. ASSUME NEW c \in CPUs, NEW p \in Slots, MakeRunnable(c, p) PROVE SleepersWait'
  BY <1>10 DEF MakeRunnable, Executes, Runs, table, sched, calls
<1>11. ASSUME NEW c \in CPUs, NEW p \in Slots, KilledTrap(c, p) PROVE SleepersWait'
  BY <1>11 DEF KilledTrap, Executes, Runs, table, sched, calls
<1>12. ASSUME NEW c \in CPUs, NEW p \in Slots, Exit(c, p) PROVE SleepersWait'
  BY <1>12 DEF Exit, Executes, Runs, Acquire, WakeUp, ZombieChildren, Children, InState, table, sched, calls
<1>13. ASSUME NEW c \in CPUs, NEW p \in Slots, WaitReaps(c, p) PROVE SleepersWait'
  BY <1>13 DEF WaitReaps, WaitLoop, Executes, Runs, IsFirst, ZombieChildren, Children, InState, table, sched, calls
<1>14. ASSUME NEW c \in CPUs, NEW p \in Slots, WaitFails(c, p) PROVE SleepersWait'
  BY <1>14 DEF WaitFails, WaitLoop, Executes, Runs, ZombieChildren, Children, InState, table, sched, calls
<1>15. ASSUME NEW c \in CPUs, NEW p \in Slots, WaitSleeps(c, p) PROVE SleepersWait'
  BY <1>15 DEF WaitSleeps, WaitLoop, Executes, Runs, ZombieChildren, Children, InState, table, sched, calls
<1>16. ASSUME NEW c \in CPUs, NEW p \in Slots, SetPrio(c, p) PROVE SleepersWait'
  BY <1>16 DEF SetPrio, InUser, Executes, Runs, table, sched, calls
<1>17. ASSUME NEW c \in CPUs, NEW p \in Slots, AllocProc(c, p) PROVE SleepersWait'
  BY <1>17 DEF AllocProc, InUser, Executes, Runs, IsFirst, InState, table, sched, calls
<1>18. ASSUME NEW c \in CPUs, NEW p \in Slots, ExitCall(c, p) PROVE SleepersWait'
  BY <1>18 DEF ExitCall, InUser, Executes, Runs, table, sched, calls
<1>19. ASSUME NEW c \in CPUs, NEW p \in Slots, WaitCall(c, p) PROVE SleepersWait'
  BY <1>19 DEF WaitCall, InUser, Executes, Runs, table, sched, calls
<1>20. ASSUME NEW c \in CPUs, NEW p \in Slots, Kill(c, p) PROVE SleepersWait'
  BY <1>20 DEF Kill, InUser, Executes, Runs, IsFirst, WakeUp, table, sched, calls
<1>21. QED
  BY <1>0, <1>1, <1>2, <1>3, <1>4, <1>5, <1>6, <1>7, <1>8, <1>9, <1>10, <1>11, <1>12, <1>13, <1>14, <1>15, <1>16, <1>17, <1>18, <1>19, <1>20 DEF Next, Scheduler, Kernel, User

(* The invariant holds in every state of the process table. *)
THEOREM InductiveInvariant == Spec => []IInv
<1>1. IInv /\ [Next]_vars => IInv'
  BY TypeStep, InitStep, ForkStep, CPUStep, ParentStep, PidStep, SleepStep DEF IInv
<1>2. QED
  BY InitEstablishes, <1>1, PTL DEF Spec

(* The fields of the process table and every CPU's variables keep their    *)
(* types.                                                                  *)
THEOREM TypeCorrect == Spec => []TypeOK
BY InductiveInvariant, PTL DEF IInv

(* No process runs on two CPUs, or while a CPU still uses its stack.       *)
THEOREM CPUsCorrect == Spec => []OneCPUEach
BY InductiveInvariant, PTL DEF IInv

(* No process sleeps in wait past the exit of a child, its own or one init *)
(* inherits, or past a kill.                                               *)
THEOREM WakeupsCorrect == Spec => []NoLostWakeup
BY InductiveInvariant, PTL DEF IInv, SleepersWait

(* Every process that can become a zombie has a live parent.               *)
THEOREM ParentsCorrect == Spec => []EveryoneHasAParent
BY InductiveInvariant, PTL DEF IInv

(* A pid names one slot.                                                   *)
THEOREM PidsCorrect == Spec => []PidsAreUnique
BY InductiveInvariant, PTL DEF IInv, PidsIncrease

------------------------------------------------------------------------------
(* ProcTable implements ProcTree *)

(* A step that moves no process between alive, zombie and neither, and     *)
(* leaves these processes their pids and parents, is a stutter.            *)
LEMMA SameTree ==
  ASSUME TypeOK, EveryoneHasAParent,
         \A p \in Slots :
           /\ state'[p] \in Live <=> state[p] \in Live
           /\ state'[p] = "ZOMBIE" <=> state[p] = "ZOMBIE"
           /\ state[p] \in Live \cup {"ZOMBIE"} =>
                pid'[p] = pid[p] /\ (p # InitProc => parent'[p] = parent[p])
  PROVE  UNCHANGED <<AlivePids, ZombiePids, FamilyPids>>
<1>1. AlivePids' = AlivePids
  BY DEF AlivePids
<1>2. ZombiePids' = ZombiePids
  BY DEF ZombiePids
<1>3. \A p \in Slots \ {InitProc} : state[p] \in Live \cup {"ZOMBIE"} =>
        <<pid[p], pid[parent[p]]>>' = <<pid[p], pid[parent[p]]>>
  BY DEF EveryoneHasAParent, TypeOK
<1>4. FamilyPids' = FamilyPids
  BY <1>3 DEF FamilyPids
<1>5. QED
  BY <1>1, <1>2, <1>4


(* Every step of the table is a step of the tree or a stutter. *)
LEMMA TreeStep == IInv /\ [Next]_vars => [Tree!Next]_(Tree!vars)
<1> SUFFICES ASSUME IInv, [Next]_vars PROVE [Tree!Next]_(Tree!vars)
  OBVIOUS
<1> DEFINE Same == UNCHANGED <<AlivePids, ZombiePids, FamilyPids>>
<1> USE InitProcIsASlot DEF IInv
<1>0. CASE UNCHANGED vars
  BY <1>0 DEF vars, table, sched, calls, AlivePids, ZombiePids, FamilyPids, Tree!vars
<1>1. ASSUME NEW c \in CPUs, StartPass(c) PROVE Same
  BY <1>1, SameTree DEF StartPass, Acquire, TypeOK, States, Live, ForkOwnsItsSlot, Forking, InState, OneCPUEach, table, sched, calls
<1>2. ASSUME NEW c \in CPUs, Choose(c) PROVE Same
  BY <1>2, SameTree DEF Choose, InPass, IsFirst, Ahead, TypeOK, States, Live, ForkOwnsItsSlot, Forking, InState, OneCPUEach, table, sched, calls
<1>3. ASSUME NEW c \in CPUs, EndPass(c) PROVE Same
  BY <1>3, SameTree DEF EndPass, InPass, TypeOK, States, Live, ForkOwnsItsSlot, Forking, InState, OneCPUEach, table, sched, calls
<1>4. ASSUME NEW c \in CPUs, RunAgain(c) PROVE Same
  BY <1>4, SameTree DEF RunAgain, SwitchedBack, TypeOK, States, Live, ForkOwnsItsSlot, Forking, InState, OneCPUEach, table, sched, calls
<1>5. ASSUME NEW c \in CPUs, Leave(c) PROVE Same
  BY <1>5, SameTree DEF Leave, SwitchedBack, TypeOK, States, Live, ForkOwnsItsSlot, Forking, InState, OneCPUEach, table, sched, calls
<1>6. ASSUME NEW c \in CPUs, NEW p \in Slots, Resume(c, p) PROVE Same
  BY <1>6, SameTree DEF Resume, Runs, TypeOK, States, Live, ForkOwnsItsSlot, Forking, InState, OneCPUEach, table, sched, calls
<1>7. ASSUME NEW c \in CPUs, NEW p \in Slots, Yield(c, p) PROVE Same
  BY <1>7, SameTree DEF Yield, Executes, Runs, Acquire, TypeOK, States, Live, ForkOwnsItsSlot, Forking, InState, OneCPUEach, table, sched, calls
<1>8. ASSUME NEW c \in CPUs, NEW p \in Slots, ForkFails(c, p) PROVE Same
  BY <1>8, SameTree DEF ForkFails, Executes, Runs, TypeOK, States, Live, ForkOwnsItsSlot, Forking, InState, OneCPUEach, table, sched, calls
<1>9. ASSUME NEW c \in CPUs, NEW p \in Slots, SetParent(c, p) PROVE Same
  BY <1>9, SameTree DEF SetParent, Executes, Runs, TypeOK, States, Live, ForkOwnsItsSlot, Forking, InState, OneCPUEach, table, sched, calls
<1>10. ASSUME NEW c \in CPUs, NEW p \in Slots, MakeRunnable(c, p) PROVE Tree!Next
  <2> DEFINE n == pid[np[p]]
  <2>1. /\ np[p] \in Slots \ {InitProc} /\ state[np[p]] = "EMBRYO" /\ parent[np[p]] = p
        /\ state[p] = "RUNNING" /\ UNCHANGED <<pid, parent>>
        /\ state' = [state EXCEPT ![np[p]] = "RUNNABLE"]
    BY <1>10 DEF MakeRunnable, Executes, Runs, ForkOwnsItsSlot, Forking, InitLives, Live
  <2>2. pid[p] \in 1 .. MaxPid /\ n \in 1 .. MaxPid
    BY <2>1 DEF TypeOK, PidsIncrease
  <2>3. pid[p] \in AlivePids /\ n \notin AlivePids \cup ZombiePids
    BY <2>1, <2>2 DEF AlivePids, ZombiePids, Live, PidsIncrease, PidsAreUnique
  <2>4. AlivePids' = AlivePids \cup {n} /\ ZombiePids' = ZombiePids
    BY <2>1 DEF AlivePids, ZombiePids, Live, TypeOK
  <2>5. FamilyPids' = FamilyPids \cup {<<n, pid[p]>>}
    BY <2>1 DEF FamilyPids, Live, TypeOK
  <2>6. Tree!Fork(pid[p], n)
    BY <2>3, <2>4, <2>5 DEF Tree!Fork
  <2>7. QED
    BY <2>2, <2>6 DEF Tree!Next
<1>11. ASSUME NEW c \in CPUs, NEW p \in Slots, KilledTrap(c, p) PROVE Same
  BY <1>11, SameTree DEF KilledTrap, Executes, Runs, TypeOK, States, Live, ForkOwnsItsSlot, Forking, InState, OneCPUEach, table, sched, calls
<1>12. ASSUME NEW c \in CPUs, NEW p \in Slots, Exit(c, p) PROVE Tree!Next
  <2> DEFINE n == pid[p]
  <2>1. /\ p # InitProc /\ state[p] = "RUNNING" /\ UNCHANGED pid
        /\ parent' = [q \in Slots |-> IF parent[q] = p THEN InitProc ELSE parent[q]]
        /\ \A q \in Slots \ {p} : /\ state'[q] \in Live <=> state[q] \in Live
                                  /\ state'[q] = "ZOMBIE" <=> state[q] = "ZOMBIE"
        /\ state'[p] = "ZOMBIE"
    BY <1>12 DEF Exit, Executes, Runs, WakeUp, InitLives, Live, TypeOK, States
  <2>2. n \in 1 .. MaxPid /\ pid[InitProc] = 1
    BY <2>1 DEF TypeOK, PidsIncrease, InitLives
  <2>3. \A q \in Slots : pid[q] = n => q = p
    BY <2>2 DEF PidsIncrease, PidsAreUnique
  <2>4. n \in AlivePids \ {1} /\ AlivePids' = AlivePids \ {n}
    BY <2>1, <2>2, <2>3 DEF AlivePids, Live
  <2>5. ZombiePids' = ZombiePids \cup {n}
    BY <2>1 DEF ZombiePids
  <2>6. FamilyPids' = {e \in FamilyPids : e[2] # n}
                      \cup {<<e[1], 1>> : e \in {f \in FamilyPids : f[2] = n}}
    <3> DEFINE Born == {q \in Slots \ {InitProc} : state[q] \in Live \cup {"ZOMBIE"}}
    <3>1. FamilyPids = {<<pid[q], pid[parent[q]]>> : q \in Born}
      BY DEF FamilyPids
    <3>2. FamilyPids' = {<<pid[q], pid[parent'[q]]>> : q \in Born}
      BY <2>1 DEF FamilyPids, Live
    <3>3. \A q \in Born : /\ parent[q] \in Slots
                          /\ pid[parent[q]] = n <=> parent[q] = p
                          /\ pid[parent'[q]] = IF parent[q] = p THEN 1 ELSE pid[parent[q]]
      BY <2>1, <2>2, <2>3 DEF EveryoneHasAParent, TypeOK
    <3> HIDE DEF Born
    <3> DEFINE kept == {e \in FamilyPids : e[2] # n}
               moved == {<<e[1], 1>> : e \in {f \in FamilyPids : f[2] = n}}
    <3>4. ASSUME NEW q \in Born PROVE <<pid[q], pid[parent'[q]]>> \in kept \cup moved
      <4>1. CASE parent[q] = p
        <5>1. <<pid[q], n>> \in {f \in FamilyPids : f[2] = n}
          BY <3>1, <4>1
        <5>2. QED
          BY <5>1, <4>1, <3>3
      <4>2. CASE parent[q] # p
        BY <4>2, <3>1, <3>3
      <4>3. QED
        BY <4>1, <4>2
    <3>5. \A e \in kept : e \in FamilyPids'
      BY <3>1, <3>2, <3>3
    <3>6. \A f \in FamilyPids : f[2] = n => <<f[1], 1>> \in FamilyPids'
      BY <3>1, <3>2, <3>3
    <3>7. QED
      BY <3>2, <3>4, <3>5, <3>6
  <2>7. Tree!Exit(n)
    BY <2>4, <2>5, <2>6 DEF Tree!Exit
  <2>8. QED
    BY <2>2, <2>7 DEF Tree!Next
<1>13. ASSUME NEW c \in CPUs, NEW p \in Slots, WaitReaps(c, p) PROVE Tree!Next
  <2>1. PICK q \in Slots :
          /\ state[q] = "ZOMBIE" /\ parent[q] = p
          /\ pid' = [pid EXCEPT ![q] = 0]
          /\ parent' = [parent EXCEPT ![q] = Nobody]
          /\ state' = [state EXCEPT ![q] = "UNUSED"]
    BY <1>13 DEF WaitReaps, IsFirst, ZombieChildren, Children, InState
  <2> DEFINE n == pid[q]
  <2>2. q # InitProc /\ state[p] = "RUNNING" /\ p # q
    BY <1>13, <2>1 DEF WaitReaps, WaitLoop, Executes, Runs, InitLives, Live
  <2>3. pid[p] \in 1 .. MaxPid /\ n \in 1 .. MaxPid
    BY <2>1, <2>2 DEF TypeOK, PidsIncrease
  <2>4. \A r \in Slots : pid[r] = n => r = q
    BY <2>3 DEF PidsIncrease, PidsAreUnique
  <2>5. /\ pid[p] \in AlivePids /\ n \in ZombiePids /\ <<n, pid[p]>> \in FamilyPids
    BY <2>1, <2>2 DEF AlivePids, ZombiePids, FamilyPids, Live
  <2>6. AlivePids' = AlivePids
    BY <2>1, <2>2 DEF AlivePids, Live, TypeOK
  <2>7. ZombiePids' = ZombiePids \ {n}
    BY <2>1, <2>4 DEF ZombiePids, TypeOK
  <2>8. FamilyPids' = {e \in FamilyPids : e[1] # n}
    <3> DEFINE Born == {r \in Slots \ {InitProc} : state[r] \in Live \cup {"ZOMBIE"}}
    <3>1. FamilyPids = {<<pid[r], pid[parent[r]]>> : r \in Born}
      BY DEF FamilyPids
    <3>2. Born' = Born \ {q}
      BY <2>1, <2>2 DEF TypeOK, Live
    <3>3. FamilyPids' = {<<pid'[r], pid'[parent'[r]]>> : r \in Born \ {q}}
      BY <3>2 DEF FamilyPids
    <3>4. \A r \in Born \ {q} : pid'[r] = pid[r] /\ pid'[parent'[r]] = pid[parent[r]] /\ pid[r] # n
      BY <2>1, <2>2, <2>4 DEF EveryoneHasAParent, TypeOK, Live
    <3>5. q \in Born
      BY <2>1, <2>2
    <3> HIDE DEF Born
    <3>6. QED
      BY <3>1, <3>3, <3>4, <3>5
  <2>9. Tree!Reap(pid[p], n)
    BY <2>5, <2>6, <2>7, <2>8 DEF Tree!Reap
  <2>10. QED
    BY <2>3, <2>9 DEF Tree!Next
<1>14. ASSUME NEW c \in CPUs, NEW p \in Slots, WaitFails(c, p) PROVE Same
  BY <1>14, SameTree DEF WaitFails, WaitLoop, Executes, Runs, ZombieChildren, Children, TypeOK, States, Live, ForkOwnsItsSlot, Forking, InState, OneCPUEach, table, sched, calls
<1>15. ASSUME NEW c \in CPUs, NEW p \in Slots, WaitSleeps(c, p) PROVE Same
  BY <1>15, SameTree DEF WaitSleeps, WaitLoop, Executes, Runs, ZombieChildren, Children, TypeOK, States, Live, ForkOwnsItsSlot, Forking, InState, OneCPUEach, table, sched, calls
<1>16. ASSUME NEW c \in CPUs, NEW p \in Slots, SetPrio(c, p) PROVE Same
  BY <1>16, SameTree DEF SetPrio, InUser, Executes, Runs, TypeOK, States, Live, ForkOwnsItsSlot, Forking, InState, OneCPUEach, table, sched, calls
<1>17. ASSUME NEW c \in CPUs, NEW p \in Slots, AllocProc(c, p) PROVE Same
  BY <1>17, SameTree DEF AllocProc, InUser, Executes, Runs, IsFirst, TypeOK, States, Live, ForkOwnsItsSlot, Forking, InState, OneCPUEach, table, sched, calls
<1>18. ASSUME NEW c \in CPUs, NEW p \in Slots, ExitCall(c, p) PROVE Same
  BY <1>18, SameTree DEF ExitCall, InUser, Executes, Runs, TypeOK, States, Live, ForkOwnsItsSlot, Forking, InState, OneCPUEach, table, sched, calls
<1>19. ASSUME NEW c \in CPUs, NEW p \in Slots, WaitCall(c, p) PROVE Same
  BY <1>19, SameTree DEF WaitCall, InUser, Executes, Runs, TypeOK, States, Live, ForkOwnsItsSlot, Forking, InState, OneCPUEach, table, sched, calls
<1>20. ASSUME NEW c \in CPUs, NEW p \in Slots, Kill(c, p) PROVE Same
  BY <1>20, SameTree DEF Kill, InUser, Executes, Runs, IsFirst, WakeUp, TypeOK, States, Live, ForkOwnsItsSlot, Forking, InState, OneCPUEach, table, sched, calls
<1>21. QED
  BY <1>0, <1>1, <1>2, <1>3, <1>4, <1>5, <1>6, <1>7, <1>8, <1>9, <1>10, <1>11, <1>12, <1>13, <1>14, <1>15, <1>16, <1>17, <1>18, <1>19, <1>20
  DEF Next, Scheduler, Kernel, User, Tree!vars

(* The process table implements the tree of processes.                     *)
THEOREM ImplementsTree == Spec => TreeSpec
<1>1. Init => Tree!Init
  BY InitProcIsASlot DEF Init, Tree!Init, AlivePids, ZombiePids, FamilyPids, Live
<1>2. QED
  BY <1>1, InductiveInvariant, TreeStep, PTL DEF Spec, TreeSpec, Tree!Spec
=============================================================================
