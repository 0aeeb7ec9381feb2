------------------------------ MODULE PsProofs ------------------------------
(***************************************************************************)
(* Proofs about Ps, for any table, clock, programs and number of pids.     *)
(*                                                                         *)
(* The inductive invariant has one part for each of: where a process may   *)
(* be in each of its states, the slot a fork has in hand, pids, parents,   *)
(* the fields ps shows, sleeping on the clock, and the listing.            *)
(***************************************************************************)
EXTENDS Ps, FiniteSetTheorems, WellFoundedInduction, TLAPS

(* A slot nobody runs in is at the end of exit, or as fork leaves it; who  *)
(* sleeps is in wait or in sys_sleep.                                      *)
PlaceOK(p) ==
  /\ state[p] \in {"UNUSED", "EMBRYO"} => pc[p] \in {"user", "exit"}
  /\ state[p] = "ZOMBIE" => pc[p] = "exit"
  /\ state[p] = "SLEEPING" => pc[p] \in {"waiting", "asleep"}
  /\ pc[p] = "waiting" => state[p] \in {"SLEEPING", "RUNNABLE"}
  /\ chan[p] = TicksChan =>
       pc[p] = "asleep" /\ state[p] \in {"SLEEPING", "RUNNABLE"}

PlacesOK == \A p \in Slots : PlaceOK(p)

(* The slot under construction is one fork's own.                          *)
ForksOK ==
  \A p \in Slots :
    /\ pc[p] \in {"embryo", "forked"} =>
         np[p] \in Slots /\ state[np[p]] = "EMBRYO" /\ switches[np[p]] = 0
    /\ pc[p] = "forked" => parent[np[p]] = p /\ nrswitch[np[p]] = 0
    /\ \A q \in Slots : pc[p] \in {"embryo", "forked"}
                          /\ pc[q] \in {"embryo", "forked"} /\ np[p] = np[q]
                        => p = q

(* Pids are given once; a slot without one is not in use.                  *)
PidsOK ==
  /\ \A p \in Slots : pid[p] < nextpid /\ (pid[p] = 0 => state[p] = "UNUSED")
  /\ \A p, q \in Slots : pid[p] = pid[q] /\ pid[p] # 0 => p = q

(* init lives for ever, and so does everybody's parent as long as it has   *)
(* children.                                                               *)
ParentsOK ==
  /\ InitProc \in Slots
  /\ state[InitProc] \in Live /\ pid[InitProc] = 1 /\ ~killed[InitProc]
  /\ pc[InitProc] \in {"user", "embryo", "forked", "wait", "waiting"}
  /\ \A p \in Slots : p \in InTable /\ p # InitProc =>
       parent[p] \in Slots /\ state[parent[p]] \in Live

(* The fields ps shows.                                                    *)
FieldsOK ==
  \A p \in Slots :
    /\ pc[p] = "exit" => ofile[p] = 0
    /\ p \in InTable => nrswitch[p] = switches[p]

(* tickslock is held from the test of sys_sleep to its sleep.              *)
ClockOK ==
  \A p \in Slots :
    /\ pc[p] \in {"test", "doze"} => tickslock = p
    /\ pc[p] = "doze" => ~Enough(p)

(* elapsed counts what ticks - ticks0 shows until the clock is round.      *)
ElapsedOK ==
  \A p \in InSleep :
    elapsed[p] = UintValues \/ elapsed[p] = uint(ticks - ticks0[p])

(* The action of NeverEarly.                                               *)
LongEnough ==
  \A p \in Slots :
    pc[p] = "test" /\ pc'[p] = "user" /\ ~killed[p] => elapsed[p] >= uint(n[p])

(* Only a killed process has had its nap.                                  *)
NapsOK ==
  \A p \in Slots :
    /\ naps[p] \in {0, 1}
    /\ naps[p] = 1 => pc[p] # "doze" /\ (killed[p] \/ state[p] = "UNUSED")

(* One ps at a time; whom it must list is in the table and within its      *)
(* range, and listed once the loop is past it.                             *)
ListingOK ==
  /\ \A p, q \in InPs : p = q
  /\ InPs = {} => maxPid = 0 /\ next = 0 /\ listed = {} /\ present = {}
  /\ \A k \in present :
       /\ k <= maxPid
       /\ \E q \in InTable : pid[q] = k
       /\ k < next => k \in listed

IInv ==
  /\ TypeOK /\ PlacesOK /\ ForksOK /\ PidsOK /\ ParentsOK /\ FieldsOK
  /\ ClockOK /\ NobodyOversleeps /\ ElapsedOK /\ NapsOK /\ ListingOK

------------------------------------------------------------------------------
(* Arithmetic *)

(* The clock's arithmetic, where uint is taken of what the code adds and   *)
(* subtracts.                                                              *)
LEMMA UintArith ==
  /\ \A k \in Int : uint(k) \in Uints
  /\ \A k \in Uints : uint(k) = k
  /\ \A a \in Uints : uint(a + 1) = IF a + 1 = UintValues THEN 0 ELSE a + 1
  /\ \A a, b \in Uints :
       uint(a - b) = IF b <= a THEN a - b ELSE a - b + UintValues
<1> DEFINE U == UintValues
<1>0. U \in Nat /\ U > 0
  BY PsAssumption
<1>1. \A k \in Int : k % U \in Int /\ 0 <= k % U /\ k % U < U
  BY <1>0
<1>2. \A k \in Int : 0 <= k /\ k < U => k % U = k
  BY <1>0
<1>3. U % U = 0
  BY <1>0
<1>4. \A k \in Int : -U < k /\ k < 0 => k % U = k + U
  BY <1>0
<1> HIDE DEF U
<1>5. QED
  BY <1>0, <1>1, <1>2, <1>3, <1>4 DEF uint, Uints, U

(* One tick later the difference of two clock values is one more, if it    *)
(* was not about to come round.                                            *)
LEMMA OneTickMore ==
  ASSUME NEW t \in Uints, NEW t0 \in Uints
  PROVE  \/ uint(t - t0) + 1 = UintValues
         \/ uint(uint(t + 1) - t0) = uint(t - t0) + 1
<1> DEFINE U == UintValues
           d == uint(t - t0)
           u == uint(t + 1)
<1>1. /\ t \in Int /\ 0 <= t /\ t < U
      /\ t0 \in Int /\ 0 <= t0 /\ t0 < U /\ U \in Int
  BY PsAssumption DEF Uints
<1>2. u \in Uints /\ u = IF t + 1 = U THEN 0 ELSE t + 1
  BY <1>1, UintArith
<1>3. d = IF t0 <= t THEN t - t0 ELSE t - t0 + U
  BY UintArith
<1>4. uint(u - t0) = IF t0 <= u THEN u - t0 ELSE u - t0 + U
  BY <1>2, UintArith
<1>5. u = IF t + 1 = U THEN 0 ELSE t + 1
  BY <1>2
<1> HIDE DEF U, d, u
<1>6. d + 1 = U \/ uint(u - t0) = d + 1
  BY <1>1, <1>3, <1>4, <1>5
<1>7. QED
  BY <1>6 DEF U, d, u

(* A set of numbers up to m has a smallest and a greatest element, for     *)
(* among finite sets (0 .. k, or k .. m) inclusion is well-founded.        *)
LEMMA SmallestExists ==
  ASSUME NEW m \in Nat, NEW S, S \subseteq 0 .. m, S # {}
  PROVE  \E k \in S : \A j \in S : k <= j
<1> DEFINE D == 0 .. m
           T == {0 .. k : k \in S}
           R == StrictSubsetOrdering(D)
<1>1. IsWellFoundedOn(R, SUBSET D)
  <2>1. IsFiniteSet(D)
    BY FS_Interval
  <2> HIDE DEF D
  <2>2. FiniteSubsetsOf(D) = SUBSET D
    BY <2>1, FS_FiniteSubsetsOfFinite
  <2>3. QED
    BY <2>1, <2>2, FS_StrictSubsetOrderingWellFounded
<1>2. T \subseteq SUBSET D /\ T # {}
  <2>1. \A k \in S : 0 .. k \subseteq 0 .. m
    OBVIOUS
  <2>2. \A k \in S : 0 .. k \in T
    OBVIOUS
  <2>3. QED
    BY <2>1, <2>2
<1>3. PICK t \in T : \A u \in T : ~(<<u, t>> \in R)
  BY <1>1, <1>2, WFMin
<1>4. PICK k \in S : t = 0 .. k
  BY <1>3
<1>5. ASSUME NEW j \in S, j < k PROVE FALSE
  <2>1. /\ 0 .. j \in T /\ 0 .. j \subseteq 0 .. k
        /\ k \in 0 .. k /\ k \notin 0 .. j
    BY <1>5
  <2>2. <<0 .. j, t>> \in R
    BY <1>2, <1>4, <2>1 DEF StrictSubsetOrdering
  <2>3. QED
    BY <1>3, <2>1, <2>2
<1>6. QED
  BY <1>5

(* The greatest element. *)
LEMMA GreatestExists ==
  ASSUME NEW m \in Nat, NEW S, S \subseteq 0 .. m, S # {}
  PROVE  \E k \in S : \A j \in S : j <= k
<1> DEFINE T == {m - k : k \in S}
<1>1. T \subseteq 0 .. m /\ T # {}
  <2>1. \A k \in S : m - k \in 0 .. m
    OBVIOUS
  <2>2. \A k \in S : m - k \in T
    OBVIOUS
  <2>3. QED
    BY <2>1, <2>2
<1>2. PICK t \in T : \A u \in T : t <= u
  BY <1>1, SmallestExists
<1>3. PICK k \in S : t = m - k
  BY <1>2
<1>4. \A j \in S : m - k <= m - j
  BY <1>2, <1>3
<1>5. QED
  BY <1>4

(* A set of slots has a first one. *)
LEMMA FirstExists ==
  ASSUME NEW S, S \subseteq Slots, S # {}
  PROVE  \E q \in Slots : IsFirst(q, S)
<1>1. NPROC \in Nat /\ S \subseteq 0 .. NPROC
  BY PsAssumption DEF Slots
<1>2. QED
  BY <1>1, SmallestExists DEF IsFirst

(* getMaxPid returns the greatest pid in use, if any slot is. *)
LEMMA MaxPidIsMax ==
  ASSUME TypeOK, Used # {}
  PROVE  /\ getMaxPid \in 0 .. MaxPid
         /\ \E q \in Used : getMaxPid = pid[q]
         /\ \A q \in Used : pid[q] <= getMaxPid
<1> DEFINE S == {pid[q] : q \in Used}
<1>1. S \subseteq 0 .. MaxPid /\ S # {} /\ MaxPid \in Nat
  BY PsAssumption DEF TypeOK, Used
<1>2. \E k \in S : \A j \in S : j <= k
  BY <1>1, GreatestExists
<1>3. \E k \in S : \A q \in Used : pid[q] <= k
  BY <1>2
<1>4. getMaxPid \in S /\ \A q \in Used : pid[q] <= getMaxPid
  BY <1>3 DEF getMaxPid
<1>5. QED
  BY <1>1, <1>4

(* What the assumption says of the constants. *)
LEMMA Constants ==
  /\ NPROC \in Nat /\ NPROC > 0 /\ NOFILE \in Nat
  /\ MaxPid \in Nat /\ MaxPid > 0 /\ MaxSwitches \in Nat
  /\ UintValues \in Nat /\ UintValues > 0
  /\ InitProc \in Slots /\ Nobody \notin Slots /\ Slots \subseteq 1 .. NPROC
  /\ Timer \notin Slots /\ TicksChan \notin Slots /\ TicksChan # NoChan
  /\ Timer # Nobody
  /\ Durations \subseteq Int
BY PsAssumption DEF InitProc, Nobody, Timer, NoChan, TicksChan,
  Slots

(* The members the actions put into the ranges of TypeOK.                  *)
LEMMA InRange ==
  /\ \A p \in Slots : p \in 0 .. Timer /\ p \in 0 .. TicksChan
  /\ Nobody \in 0 .. Timer /\ Timer \in 0 .. Timer
  /\ NoChan \in 0 .. TicksChan /\ TicksChan \in 0 .. TicksChan
  /\ 0 \in 0 .. NOFILE /\ 0 \in 0 .. MaxPid /\ 0 \in 0 .. MaxSwitches
  /\ 0 \in 0 .. MaxPid + 1 /\ 0 \in Uints /\ 0 \in 0 .. UintValues
BY Constants DEF Nobody, Timer, NoChan, TicksChan, Uints, Slots

(* The counts of switches stay within their bound. *)
LEMMA CountSwitchType ==
  ASSUME TypeOK, NEW p \in Slots, CountSwitch(p)
  PROVE  /\ nrswitch' \in [Slots -> 0 .. MaxSwitches]
         /\ switches' \in [Slots -> 0 .. MaxSwitches]
<1>1. \A k \in 0 .. MaxSwitches :
        (IF k < MaxSwitches THEN k + 1 ELSE k) \in 0 .. MaxSwitches
  BY Constants
<1>2. QED
  BY <1>1 DEF TypeOK, CountSwitch

(* What closing the files leaves in ofile and pc has its type. *)
LEMMA CloseAllType ==
  ASSUME TypeOK, NEW p \in Slots, CloseAll(p)
  PROVE  ofile' \in [Slots -> 0 .. NOFILE] /\ pc' \in [Slots -> Places]
BY InRange DEF TypeOK, CloseAll, Goto, Places

(* The return from sys_sleep keeps the types. *)
LEMMA LeaveSleepType ==
  ASSUME TypeOK, NEW p \in Slots, LeaveSleep(p)
  PROVE  TypeOK'
<1>1. n' \in [Slots -> Durations \cup {0}] /\ ticks0' \in [Slots -> Uints]
  BY InRange DEF TypeOK, LeaveSleep
<1>2. elapsed' \in [Slots -> 0 .. UintValues] /\ tickslock' \in 0 .. Timer
  BY InRange DEF TypeOK, LeaveSleep
<1>3. pc' \in [Slots -> Places]
  BY DEF TypeOK, LeaveSleep, Goto, Places
<1>4. QED
  BY <1>1, <1>2, <1>3 DEF TypeOK, LeaveSleep, family, listing, counts

------------------------------------------------------------------------------

(* sleep's argument is a number, negative ones included. *)
LEMMA ArgumentType ==
  ASSUME TypeOK, NEW p \in Slots
  PROVE  n[p] \in Int
<1>1. n[p] \in Durations \cup {0}
  BY DEF TypeOK
<1>2. Durations \subseteq Int /\ 0 \in Int
  BY Constants
<1> DEFINE k == n[p]
<1> HIDE DEF k
<1>3. k \in Durations \cup {0} => k \in Int
  BY <1>2
<1>4. QED
  BY <1>1, <1>3 DEF k

(* Types are preserved. *)
LEMMA TypeStep ==
  ASSUME TypeOK, PidsOK, [Next]_vars
  PROVE  TypeOK'
<1> USE DEF TypeOK
<1>0. CASE UNCHANGED vars
  BY <1>0 DEF vars, family, sleeping, listing, counts
<1>1. ASSUME NEW p \in Slots, Switch(p) PROVE TypeOK'
  BY <1>1, CountSwitchType, InRange DEF Switch, States, family, sleeping,
      listing
<1>2. ASSUME NEW p \in Slots, Yield(p) PROVE TypeOK'
  BY <1>2 DEF Yield, family, sleeping, listing, counts, States
<1>3. ASSUME NEW p \in Slots, AllocProc(p) PROVE TypeOK'
  BY <1>3, Constants DEF AllocProc, Calls, At, Goto, IsFirst, InState, family,
      sleeping, listing, counts, States, Places
<1>4. ASSUME NEW p \in Slots, ForkFails(p) PROVE TypeOK'
  BY <1>4 DEF ForkFails, At, Goto, family, sleeping, listing, counts, States,
      Places, Nobody
<1>5. ASSUME NEW p \in Slots, Copy(p) PROVE TypeOK'
  <2>1. /\ parent' \in [Slots -> Slots \cup {Nobody}]
        /\ ofile' \in [Slots -> 0 .. NOFILE]
        /\ nrswitch' \in [Slots -> 0 .. MaxSwitches]
    BY <1>5, InRange DEF Copy
  <2>2. QED
    BY <1>5, <2>1 DEF Copy, Places, sleeping, listing
<1>6. ASSUME NEW p \in Slots, MakeRunnable(p) PROVE TypeOK'
  BY <1>6 DEF MakeRunnable, At, Goto, family, sleeping, listing, counts,
      States, Places, Nobody
<1>7. ASSUME NEW p \in Slots, Open(p) PROVE TypeOK'
  <2>1. ofile[p] + 1 \in 0 .. NOFILE
    BY <1>7, Constants DEF Open
  <2>2. ofile' \in [Slots -> 0 .. NOFILE]
    BY <1>7, <2>1 DEF Open
  <2>3. QED
    BY <1>7, <2>2 DEF Open, family, sleeping, listing
<1>8. ASSUME NEW p \in Slots, Close(p) PROVE TypeOK'
  <2>1. ofile[p] - 1 \in 0 .. NOFILE
    BY <1>8, Constants DEF Close
  <2>2. ofile' \in [Slots -> 0 .. NOFILE]
    BY <1>8, <2>1 DEF Close
  <2>3. QED
    BY <1>8, <2>2 DEF Close, family, sleeping, listing
<1>9. ASSUME NEW p \in Slots, ExitCall(p) PROVE TypeOK'
  BY <1>9, CloseAllType DEF ExitCall, CloseAll, family, sleeping, listing
<1>10. ASSUME NEW p \in Slots, KilledTrap(p) PROVE TypeOK'
  <2>1. maxPid' \in 0 .. MaxPid /\ next' \in 0 .. MaxPid + 1
    BY <1>10, InRange DEF KilledTrap, EndListing, listing
  <2>2. listed' \subseteq 0 .. MaxPid /\ present' \subseteq 1 .. MaxPid
    BY <1>10 DEF KilledTrap, EndListing, listing
  <2>3. QED
    BY <1>10, <2>1, <2>2, CloseAllType DEF KilledTrap, CloseAll, family,
      sleeping
<1>11. ASSUME NEW p \in Slots, Exit(p) PROVE TypeOK'
  BY <1>11, Constants DEF Exit, At, WakeUp, family, sleeping, listing, counts,
      States
<1>12. ASSUME NEW p \in Slots, WaitCall(p) PROVE TypeOK'
  BY <1>12 DEF WaitCall, Calls, At, Goto, family, sleeping, listing, counts,
      Places
<1>13. ASSUME NEW p \in Slots, WaitReaps(p) PROVE TypeOK'
  <2>1. /\ nrswitch' \in [Slots -> 0 .. MaxSwitches]
        /\ switches' \in [Slots -> 0 .. MaxSwitches]
    BY <1>13, CountSwitchType DEF WaitReaps, WaitLoop
  <2>2. state' \in [Slots -> States] /\ pid' \in [Slots -> 0 .. MaxPid]
    BY <1>13, InRange DEF WaitReaps, States
  <2>3. /\ parent' \in [Slots -> Slots \cup {Nobody}]
        /\ killed' \in [Slots -> BOOLEAN] /\ present' \subseteq 1 .. MaxPid
    BY <1>13 DEF WaitReaps
  <2>4. chan' \in [Slots -> 0 .. TicksChan] /\ pc' \in [Slots -> Places]
    BY <1>13, InRange DEF WaitReaps, Goto, Places
  <2>5. QED
    BY <1>13, <2>1, <2>2, <2>3, <2>4 DEF WaitReaps, sleeping
<1>14. ASSUME NEW p \in Slots, WaitFails(p) PROVE TypeOK'
  <2>1. /\ nrswitch' \in [Slots -> 0 .. MaxSwitches]
        /\ switches' \in [Slots -> 0 .. MaxSwitches]
    BY <1>14, CountSwitchType DEF WaitFails, WaitLoop
  <2>2. chan' \in [Slots -> 0 .. TicksChan] /\ pc' \in [Slots -> Places]
    BY <1>14, InRange DEF WaitFails, Goto, Places
  <2>3. state' \in [Slots -> States]
    BY <1>14 DEF WaitFails, States
  <2>4. QED
    BY <1>14, <2>1, <2>2, <2>3 DEF WaitFails, family, sleeping, listing
<1>15. ASSUME NEW p \in Slots, WaitSleeps(p) PROVE TypeOK'
  <2>1. /\ nrswitch' \in [Slots -> 0 .. MaxSwitches]
        /\ switches' \in [Slots -> 0 .. MaxSwitches]
    BY <1>15, CountSwitchType DEF WaitSleeps, WaitLoop
  <2>2. chan' \in [Slots -> 0 .. TicksChan] /\ pc' \in [Slots -> Places]
    BY <1>15, InRange DEF WaitSleeps, Goto, Places
  <2>3. state' \in [Slots -> States]
    BY <1>15 DEF WaitSleeps, States
  <2>4. QED
    BY <1>15, <2>1, <2>2, <2>3 DEF WaitSleeps, family, sleeping, listing
<1>16. ASSUME NEW p \in Slots, Kill(p) PROVE TypeOK'
  BY <1>16, Constants DEF Kill, Calls, At, family, sleeping, listing, counts,
      States
<1>17. ASSUME NEW p \in Slots, SleepCall(p) PROVE TypeOK'
  BY <1>17 DEF SleepCall, Calls, At, Goto, family, sleeping, listing, counts,
      Places
<1>18. ASSUME NEW p \in Slots, SleepStart(p) PROVE TypeOK'
  <2>1. tickslock' \in 0 .. Timer /\ ticks0' \in [Slots -> Uints]
    BY <1>18, InRange DEF SleepStart
  <2>2. elapsed' \in [Slots -> 0 .. UintValues]
    BY <1>18, InRange DEF SleepStart
  <2>3. QED
    BY <1>18, <2>1, <2>2 DEF SleepStart, Goto, Places, family, listing, counts
<1>19. ASSUME NEW p \in Slots, SleepReturns(p) PROVE TypeOK'
  BY <1>19, LeaveSleepType DEF SleepReturns
<1>20. ASSUME NEW p \in Slots, SleepKilled(p) PROVE TypeOK'
  BY <1>20, LeaveSleepType DEF SleepKilled
<1>21. ASSUME NEW p \in Slots, SleepOn(p) PROVE TypeOK'
  BY <1>21 DEF SleepOn, At, Goto, family, sleeping, listing, counts, Places
<1>22. ASSUME NEW p \in Slots, Doze(p) PROVE TypeOK'
  <2>1. tickslock' \in 0 .. Timer /\ chan' \in [Slots -> 0 .. TicksChan]
    BY <1>22, InRange DEF Doze
  <2>2. naps' \in [Slots -> Nat]
    BY <1>22 DEF Doze
  <2>3. state' \in [Slots -> States] /\ pc' \in [Slots -> Places]
    BY <1>22 DEF Doze, Goto, States, Places
  <2>4. QED
    BY <1>22, <2>1, <2>2, <2>3 DEF Doze, family, listing, counts
<1>23. ASSUME NEW p \in Slots, Relock(p) PROVE TypeOK'
  <2>1. tickslock' \in 0 .. Timer
    BY <1>23, InRange DEF Relock
  <2>2. QED
    BY <1>23, <2>1 DEF Relock, Goto, Places, family, listing, counts
<1>24. ASSUME NEW p \in Slots, PsMaxPid(p) PROVE TypeOK'
  <2>1. p \in Used
    BY <1>24 DEF PsMaxPid, Calls, At, Used, InState
  <2>2. maxPid' \in 0 .. MaxPid
    BY <1>24, <2>1, MaxPidIsMax DEF PsMaxPid
  <2>3. \A q \in InTable : pid[q] \in 1 .. MaxPid
    BY Constants DEF PidsOK, InTable, Live
  <2>4. present' \subseteq 1 .. MaxPid
    BY <1>24, <2>3 DEF PsMaxPid
  <2>5. QED
    BY <1>24, <2>2, <2>4 DEF PsMaxPid, Goto, Places, family, sleeping, counts
<1>25. ASSUME NEW p \in Slots, PsNumProc(p) PROVE TypeOK'
  BY <1>25 DEF PsNumProc, At, Goto, family, sleeping, listing, counts, Places
<1>26. ASSUME NEW p \in Slots, PsRow(p) PROVE TypeOK'
  <2>1. next \in 0 .. MaxPid /\ next + 1 \in 0 .. MaxPid + 1
    BY <1>26, Constants DEF PsRow
  <2>2. listed' \subseteq 0 .. MaxPid /\ next' \in 0 .. MaxPid + 1
    BY <1>26, <2>1 DEF PsRow
  <2>3. QED
    BY <1>26, <2>2 DEF PsRow, family, sleeping, counts
<1>27. ASSUME NEW p \in Slots, PsEnd(p) PROVE TypeOK'
  <2>1. maxPid' \in 0 .. MaxPid /\ next' \in 0 .. MaxPid + 1
    BY <1>27, InRange DEF PsEnd, EndListing
  <2>2. listed' \subseteq 0 .. MaxPid /\ present' \subseteq 1 .. MaxPid
    BY <1>27 DEF PsEnd, EndListing
  <2>3. QED
    BY <1>27, <2>1, <2>2, CloseAllType DEF PsEnd, CloseAll, family, sleeping
<1>28. CASE Tick
  <2>1. tickslock' \in 0 .. Timer
    BY <1>28, InRange DEF Tick
  <2>2. \A k \in 0 .. UintValues : k < UintValues => k + 1 \in 0 .. UintValues
    BY Constants
  <2>3. elapsed' \in [Slots -> 0 .. UintValues]
    BY <1>28, <2>2 DEF Tick, InSleep
  <2>4. ticks' \in Uints
    BY <1>28, UintArith DEF Tick, Uints
  <2>5. QED
    BY <1>28, <2>1, <2>3, <2>4 DEF Tick, family, listing, counts
<1>29. CASE TickWakeup
  <2>1. tickslock' \in 0 .. Timer
    BY <1>29, InRange DEF TickWakeup
  <2>2. state' \in [Slots -> States]
    BY <1>29 DEF TickWakeup, WakeUp, States
  <2>3. QED
    BY <1>29, <2>1, <2>2 DEF TickWakeup, family, listing, counts
<1>30. QED
  BY <1>0, <1>1, <1>2, <1>3, <1>4, <1>5, <1>6, <1>7, <1>8, <1>9, <1>10, <1>11,
      <1>12, <1>13, <1>14, <1>15, <1>16, <1>17, <1>18, <1>19, <1>20, <1>21,
      <1>22, <1>23, <1>24, <1>25, <1>26, <1>27, <1>28, <1>29 DEF Next,
      Scheduler, Kernel, User

(* Places go with states. *)
LEMMA PlacesStep ==
  ASSUME TypeOK, PlacesOK, ForksOK, [Next]_vars
  PROVE  PlacesOK'
<1> USE Constants DEF PlacesOK, PlaceOK, TypeOK
<1>0. CASE UNCHANGED vars
  BY <1>0 DEF vars, family, sleeping, listing, counts
<1>1. ASSUME NEW p \in Slots, Switch(p) PROVE PlacesOK'
  BY <1>1 DEF Switch, CountSwitch, family, sleeping, listing, counts
<1>2. ASSUME NEW p \in Slots, Yield(p) PROVE PlacesOK'
  BY <1>2 DEF Yield, family, sleeping, listing, counts
<1>3. ASSUME NEW p \in Slots, AllocProc(p) PROVE PlacesOK'
  BY <1>3 DEF AllocProc, Calls, At, Goto, IsFirst, InState, family, sleeping,
      listing, counts
<1>4. ASSUME NEW p \in Slots, ForkFails(p) PROVE PlacesOK'
  BY <1>4 DEF ForksOK, ForkFails, At, Goto, family, sleeping, listing, counts
<1>5. ASSUME NEW p \in Slots, Copy(p) PROVE PlacesOK'
  BY <1>5 DEF ForksOK, Copy, At, family, sleeping, listing
<1>6. ASSUME NEW p \in Slots, MakeRunnable(p) PROVE PlacesOK'
  BY <1>6 DEF MakeRunnable, At, Goto, family, sleeping, listing, counts
<1>7. ASSUME NEW p \in Slots, Open(p) PROVE PlacesOK'
  BY <1>7 DEF Open, Calls, At, family, sleeping, listing, counts
<1>8. ASSUME NEW p \in Slots, Close(p) PROVE PlacesOK'
  BY <1>8 DEF Close, Calls, At, family, sleeping, listing, counts
<1>9. ASSUME NEW p \in Slots, ExitCall(p) PROVE PlacesOK'
  BY <1>9 DEF ExitCall, Calls, At, CloseAll, Goto, family, sleeping, listing,
      counts
<1>10. ASSUME NEW p \in Slots, KilledTrap(p) PROVE PlacesOK'
  BY <1>10 DEF KilledTrap, CloseAll, EndListing, Goto, family, sleeping,
      listing, counts
<1>11. ASSUME NEW p \in Slots, Exit(p) PROVE PlacesOK'
  BY <1>11 DEF Exit, At, WakeUp, family, sleeping, listing, counts
<1>12. ASSUME NEW p \in Slots, WaitCall(p) PROVE PlacesOK'
  BY <1>12 DEF WaitCall, Calls, At, Goto, family, sleeping, listing, counts
<1>13. ASSUME NEW p \in Slots, WaitReaps(p) PROVE PlacesOK'
  BY <1>13 DEF WaitReaps, WaitLoop, CountSwitch, At, Goto, family, sleeping,
      listing, counts, ZombieChildren, InState, IsFirst
<1>14. ASSUME NEW p \in Slots, WaitFails(p) PROVE PlacesOK'
  BY <1>14 DEF WaitFails, WaitLoop, CountSwitch, At, Goto, family, sleeping,
      listing, counts
<1>15. ASSUME NEW p \in Slots, WaitSleeps(p) PROVE PlacesOK'
  BY <1>15 DEF WaitSleeps, WaitLoop, CountSwitch, At, Goto, family, sleeping,
      listing, counts
<1>16. ASSUME NEW p \in Slots, Kill(p) PROVE PlacesOK'
  BY <1>16 DEF Kill, Calls, At, family, sleeping, listing, counts
<1>17. ASSUME NEW p \in Slots, SleepCall(p) PROVE PlacesOK'
  BY <1>17 DEF SleepCall, Calls, At, Goto, family, sleeping, listing, counts
<1>18. ASSUME NEW p \in Slots, SleepStart(p) PROVE PlacesOK'
  BY <1>18 DEF SleepStart, At, Goto, family, sleeping, listing, counts
<1>19. ASSUME NEW p \in Slots, SleepReturns(p) PROVE PlacesOK'
  BY <1>19 DEF SleepReturns, LeaveSleep, At, Goto, family, sleeping, listing,
      counts
<1>20. ASSUME NEW p \in Slots, SleepKilled(p) PROVE PlacesOK'
  BY <1>20 DEF SleepKilled, LeaveSleep, At, Goto, family, sleeping, listing,
      counts
<1>21. ASSUME NEW p \in Slots, SleepOn(p) PROVE PlacesOK'
  BY <1>21 DEF SleepOn, At, Goto, family, sleeping, listing, counts
<1>22. ASSUME NEW p \in Slots, Doze(p) PROVE PlacesOK'
  BY <1>22 DEF Doze, At, Goto, family, sleeping, listing, counts
<1>23. ASSUME NEW p \in Slots, Relock(p) PROVE PlacesOK'
  BY <1>23 DEF Relock, At, Goto, family, sleeping, listing, counts
<1>24. ASSUME NEW p \in Slots, PsMaxPid(p) PROVE PlacesOK'
  BY <1>24 DEF PsMaxPid, Calls, At, Goto, family, sleeping, listing, counts
<1>25. ASSUME NEW p \in Slots, PsNumProc(p) PROVE PlacesOK'
  BY <1>25 DEF PsNumProc, At, Goto, family, sleeping, listing, counts
<1>26. ASSUME NEW p \in Slots, PsRow(p) PROVE PlacesOK'
  BY <1>26 DEF PsRow, At, family, sleeping, listing, counts
<1>27. ASSUME NEW p \in Slots, PsEnd(p) PROVE PlacesOK'
  BY <1>27 DEF PsEnd, At, CloseAll, EndListing, Goto, family, sleeping,
      listing, counts
<1>28. CASE Tick
  BY <1>28 DEF Tick, family, sleeping, listing, counts
<1>29. CASE TickWakeup
  BY <1>29 DEF TickWakeup, WakeUp, family, sleeping, listing, counts, InState
<1>30. QED
  BY <1>0, <1>1, <1>2, <1>3, <1>4, <1>5, <1>6, <1>7, <1>8, <1>9, <1>10, <1>11,
      <1>12, <1>13, <1>14, <1>15, <1>16, <1>17, <1>18, <1>19, <1>20, <1>21,
      <1>22, <1>23, <1>24, <1>25, <1>26, <1>27, <1>28, <1>29 DEF Next,
      Scheduler, Kernel, User

(* Each fork keeps its slot. *)
LEMMA ForksStep ==
  ASSUME TypeOK, PlacesOK, ForksOK, [Next]_vars
  PROVE  ForksOK'
<1> USE DEF PlacesOK, PlaceOK, ForksOK, TypeOK
<1>0. CASE UNCHANGED vars
  BY <1>0 DEF vars, family, sleeping, listing, counts
<1>1. ASSUME NEW p \in Slots, Switch(p) PROVE ForksOK'
  BY <1>1 DEF Switch, CountSwitch, family, sleeping, listing, counts
<1>2. ASSUME NEW p \in Slots, Yield(p) PROVE ForksOK'
  BY <1>2 DEF Yield, family, sleeping, listing, counts
<1>3. ASSUME NEW p \in Slots, AllocProc(p) PROVE ForksOK'
  BY <1>3 DEF AllocProc, Calls, At, Goto, IsFirst, InState, family, sleeping,
      listing, counts
<1>4. ASSUME NEW p \in Slots, ForkFails(p) PROVE ForksOK'
  BY <1>4 DEF ForkFails, At, Goto, family, sleeping, listing, counts
<1>5. ASSUME NEW p \in Slots, Copy(p) PROVE ForksOK'
  <2>1. np[p] \in Slots /\ pc[p] = "embryo" /\ pc[np[p]] \in {"user", "exit"}
    BY <1>5 DEF Copy, At
  <2>2. /\ pc' = [pc EXCEPT ![p] = "forked", ![np[p]] = "user"]
        /\ parent' = [parent EXCEPT ![np[p]] = p]
        /\ nrswitch' = [nrswitch EXCEPT ![np[p]] = 0]
        /\ state' = state /\ np' = np /\ switches' = switches
    BY <1>5 DEF Copy
  <2>3. QED
    BY <2>1, <2>2
<1>6. ASSUME NEW p \in Slots, MakeRunnable(p) PROVE ForksOK'
  BY <1>6 DEF MakeRunnable, At, Goto, family, sleeping, listing, counts
<1>7. ASSUME NEW p \in Slots, Open(p) PROVE ForksOK'
  BY <1>7 DEF Open, Calls, At, family, sleeping, listing, counts
<1>8. ASSUME NEW p \in Slots, Close(p) PROVE ForksOK'
  BY <1>8 DEF Close, Calls, At, family, sleeping, listing, counts
<1>9. ASSUME NEW p \in Slots, ExitCall(p) PROVE ForksOK'
  BY <1>9 DEF ExitCall, Calls, At, CloseAll, Goto, family, sleeping, listing,
      counts
<1>10. ASSUME NEW p \in Slots, KilledTrap(p) PROVE ForksOK'
  BY <1>10 DEF KilledTrap, CloseAll, EndListing, Goto, family, sleeping,
      listing, counts
<1>11. ASSUME NEW p \in Slots, Exit(p) PROVE ForksOK'
  BY <1>11 DEF Exit, At, WakeUp, family, sleeping, listing, counts
<1>12. ASSUME NEW p \in Slots, WaitCall(p) PROVE ForksOK'
  BY <1>12 DEF WaitCall, Calls, At, Goto, family, sleeping, listing, counts
<1>13. ASSUME NEW p \in Slots, WaitReaps(p) PROVE ForksOK'
  BY <1>13 DEF WaitReaps, WaitLoop, CountSwitch, At, Goto, family, sleeping,
      listing, counts, ZombieChildren, InState, IsFirst
<1>14. ASSUME NEW p \in Slots, WaitFails(p) PROVE ForksOK'
  BY <1>14 DEF WaitFails, WaitLoop, CountSwitch, At, Goto, family, sleeping,
      listing, counts
<1>15. ASSUME NEW p \in Slots, WaitSleeps(p) PROVE ForksOK'
  BY <1>15 DEF WaitSleeps, WaitLoop, CountSwitch, At, Goto, family, sleeping,
      listing, counts
<1>16. ASSUME NEW p \in Slots, Kill(p) PROVE ForksOK'
  BY <1>16 DEF Kill, Calls, At, family, sleeping, listing, counts
<1>17. ASSUME NEW p \in Slots, SleepCall(p) PROVE ForksOK'
  BY <1>17 DEF SleepCall, Calls, At, Goto, family, sleeping, listing, counts
<1>18. ASSUME NEW p \in Slots, SleepStart(p) PROVE ForksOK'
  BY <1>18 DEF SleepStart, At, Goto, family, sleeping, listing, counts
<1>19. ASSUME NEW p \in Slots, SleepReturns(p) PROVE ForksOK'
  BY <1>19 DEF SleepReturns, LeaveSleep, At, Goto, family, sleeping, listing,
      counts
<1>20. ASSUME NEW p \in Slots, SleepKilled(p) PROVE ForksOK'
  BY <1>20 DEF SleepKilled, LeaveSleep, At, Goto, family, sleeping, listing,
      counts
<1>21. ASSUME NEW p \in Slots, SleepOn(p) PROVE ForksOK'
  BY <1>21 DEF SleepOn, At, Goto, family, sleeping, listing, counts
<1>22. ASSUME NEW p \in Slots, Doze(p) PROVE ForksOK'
  BY <1>22 DEF Doze, At, Goto, family, sleeping, listing, counts
<1>23. ASSUME NEW p \in Slots, Relock(p) PROVE ForksOK'
  BY <1>23 DEF Relock, At, Goto, family, sleeping, listing, counts
<1>24. ASSUME NEW p \in Slots, PsMaxPid(p) PROVE ForksOK'
  BY <1>24 DEF PsMaxPid, Calls, At, Goto, family, sleeping, listing, counts
<1>25. ASSUME NEW p \in Slots, PsNumProc(p) PROVE ForksOK'
  BY <1>25 DEF PsNumProc, At, Goto, family, sleeping, listing, counts
<1>26. ASSUME NEW p \in Slots, PsRow(p) PROVE ForksOK'
  BY <1>26 DEF PsRow, At, family, sleeping, listing, counts
<1>27. ASSUME NEW p \in Slots, PsEnd(p) PROVE ForksOK'
  BY <1>27 DEF PsEnd, At, CloseAll, EndListing, Goto, family, sleeping,
      listing, counts
<1>28. CASE Tick
  BY <1>28 DEF Tick, family, sleeping, listing, counts
<1>29. CASE TickWakeup
  BY <1>29 DEF TickWakeup, WakeUp, family, sleeping, listing, counts
<1>30. QED
  BY <1>0, <1>1, <1>2, <1>3, <1>4, <1>5, <1>6, <1>7, <1>8, <1>9, <1>10, <1>11,
      <1>12, <1>13, <1>14, <1>15, <1>16, <1>17, <1>18, <1>19, <1>20, <1>21,
      <1>22, <1>23, <1>24, <1>25, <1>26, <1>27, <1>28, <1>29 DEF Next,
      Scheduler, Kernel, User

(* Pids stay unique. *)
LEMMA PidsStep ==
  ASSUME TypeOK, PlacesOK, ForksOK, PidsOK, [Next]_vars
  PROVE  PidsOK'
<1> USE DEF PidsOK, TypeOK
<1>0. CASE UNCHANGED vars
  BY <1>0 DEF vars, family, sleeping, listing, counts
<1>1. ASSUME NEW p \in Slots, Switch(p) PROVE PidsOK'
  BY <1>1 DEF Switch, CountSwitch, family, sleeping, listing, counts
<1>2. ASSUME NEW p \in Slots, Yield(p) PROVE PidsOK'
  BY <1>2 DEF Yield, family, sleeping, listing, counts
<1>3. ASSUME NEW p \in Slots, AllocProc(p) PROVE PidsOK'
  BY <1>3, Constants DEF AllocProc, Calls, At, Goto, IsFirst, InState, family,
      sleeping, listing, counts
<1>4. ASSUME NEW p \in Slots, ForkFails(p) PROVE PidsOK'
  BY <1>4 DEF ForkFails, At, Goto, family, sleeping, listing, counts
<1>5. ASSUME NEW p \in Slots, Copy(p) PROVE PidsOK'
  BY <1>5 DEF Copy, At, family, sleeping, listing, counts
<1>6. ASSUME NEW p \in Slots, MakeRunnable(p) PROVE PidsOK'
  BY <1>6 DEF MakeRunnable, At, Goto, family, sleeping, listing, counts,
      ForksOK
<1>7. ASSUME NEW p \in Slots, Open(p) PROVE PidsOK'
  BY <1>7 DEF Open, Calls, At, family, sleeping, listing, counts
<1>8. ASSUME NEW p \in Slots, Close(p) PROVE PidsOK'
  BY <1>8 DEF Close, Calls, At, family, sleeping, listing, counts
<1>9. ASSUME NEW p \in Slots, ExitCall(p) PROVE PidsOK'
  BY <1>9 DEF ExitCall, Calls, At, CloseAll, Goto, family, sleeping, listing,
      counts
<1>10. ASSUME NEW p \in Slots, KilledTrap(p) PROVE PidsOK'
  BY <1>10 DEF KilledTrap, CloseAll, EndListing, Goto, family, sleeping,
      listing, counts
<1>11. ASSUME NEW p \in Slots, Exit(p) PROVE PidsOK'
  BY <1>11 DEF Exit, At, WakeUp, family, sleeping, listing, counts
<1>12. ASSUME NEW p \in Slots, WaitCall(p) PROVE PidsOK'
  BY <1>12 DEF WaitCall, Calls, At, Goto, family, sleeping, listing, counts
<1>13. ASSUME NEW p \in Slots, WaitReaps(p) PROVE PidsOK'
  BY <1>13 DEF WaitReaps, WaitLoop, CountSwitch, At, Goto, family, sleeping,
      listing, counts, ZombieChildren, InState, IsFirst
<1>14. ASSUME NEW p \in Slots, WaitFails(p) PROVE PidsOK'
  BY <1>14 DEF WaitFails, WaitLoop, CountSwitch, At, Goto, family, sleeping,
      listing, counts
<1>15. ASSUME NEW p \in Slots, WaitSleeps(p) PROVE PidsOK'
  BY <1>15 DEF WaitSleeps, WaitLoop, CountSwitch, At, Goto, family, sleeping,
      listing, counts
<1>16. ASSUME NEW p \in Slots, Kill(p) PROVE PidsOK'
  BY <1>16 DEF Kill, Calls, At, family, sleeping, listing, counts
<1>17. ASSUME NEW p \in Slots, SleepCall(p) PROVE PidsOK'
  BY <1>17 DEF SleepCall, Calls, At, Goto, family, sleeping, listing, counts
<1>18. ASSUME NEW p \in Slots, SleepStart(p) PROVE PidsOK'
  BY <1>18 DEF SleepStart, At, Goto, family, sleeping, listing, counts
<1>19. ASSUME NEW p \in Slots, SleepReturns(p) PROVE PidsOK'
  BY <1>19 DEF SleepReturns, LeaveSleep, At, Goto, family, sleeping, listing,
      counts
<1>20. ASSUME NEW p \in Slots, SleepKilled(p) PROVE PidsOK'
  BY <1>20 DEF SleepKilled, LeaveSleep, At, Goto, family, sleeping, listing,
      counts
<1>21. ASSUME NEW p \in Slots, SleepOn(p) PROVE PidsOK'
  BY <1>21 DEF SleepOn, At, Goto, family, sleeping, listing, counts
<1>22. ASSUME NEW p \in Slots, Doze(p) PROVE PidsOK'
  BY <1>22 DEF Doze, At, Goto, family, sleeping, listing, counts
<1>23. ASSUME NEW p \in Slots, Relock(p) PROVE PidsOK'
  BY <1>23 DEF Relock, At, Goto, family, sleeping, listing, counts
<1>24. ASSUME NEW p \in Slots, PsMaxPid(p) PROVE PidsOK'
  BY <1>24 DEF PsMaxPid, Calls, At, Goto, family, sleeping, listing, counts
<1>25. ASSUME NEW p \in Slots, PsNumProc(p) PROVE PidsOK'
  BY <1>25 DEF PsNumProc, At, Goto, family, sleeping, listing, counts
<1>26. ASSUME NEW p \in Slots, PsRow(p) PROVE PidsOK'
  BY <1>26 DEF PsRow, At, family, sleeping, listing, counts
<1>27. ASSUME NEW p \in Slots, PsEnd(p) PROVE PidsOK'
  BY <1>27 DEF PsEnd, At, CloseAll, EndListing, Goto, family, sleeping,
      listing, counts
<1>28. CASE Tick
  BY <1>28 DEF Tick, family, sleeping, listing, counts
<1>29. CASE TickWakeup
  BY <1>29 DEF TickWakeup, WakeUp, family, sleeping, listing, counts
<1>30. QED
  BY <1>0, <1>1, <1>2, <1>3, <1>4, <1>5, <1>6, <1>7, <1>8, <1>9, <1>10, <1>11,
      <1>12, <1>13, <1>14, <1>15, <1>16, <1>17, <1>18, <1>19, <1>20, <1>21,
      <1>22, <1>23, <1>24, <1>25, <1>26, <1>27, <1>28, <1>29 DEF Next,
      Scheduler, Kernel, User

(* Whoever has children lives. *)
LEMMA ParentsStep ==
  ASSUME TypeOK, PlacesOK, ForksOK, ParentsOK, [Next]_vars
  PROVE  ParentsOK'
<1> USE DEF PlacesOK, PlaceOK, ForksOK, ParentsOK, InTable, Live, TypeOK
<1>0. CASE UNCHANGED vars
  BY <1>0 DEF vars, family, sleeping, listing, counts
<1>1. ASSUME NEW p \in Slots, Switch(p) PROVE ParentsOK'
  BY <1>1 DEF Switch, CountSwitch, family, sleeping, listing, counts
<1>2. ASSUME NEW p \in Slots, Yield(p) PROVE ParentsOK'
  BY <1>2 DEF Yield, family, sleeping, listing, counts
<1>3. ASSUME NEW p \in Slots, AllocProc(p) PROVE ParentsOK'
  BY <1>3 DEF AllocProc, Calls, At, Goto, IsFirst, InState, family, sleeping,
      listing, counts
<1>4. ASSUME NEW p \in Slots, ForkFails(p) PROVE ParentsOK'
  BY <1>4 DEF ForkFails, At, Goto, family, sleeping, listing, counts
<1>5. ASSUME NEW p \in Slots, Copy(p) PROVE ParentsOK'
  BY <1>5 DEF Copy, At, family, sleeping, listing, counts
<1>6. ASSUME NEW p \in Slots, MakeRunnable(p) PROVE ParentsOK'
  BY <1>6 DEF MakeRunnable, At, Goto, family, sleeping, listing, counts
<1>7. ASSUME NEW p \in Slots, Open(p) PROVE ParentsOK'
  BY <1>7 DEF Open, Calls, At, family, sleeping, listing, counts
<1>8. ASSUME NEW p \in Slots, Close(p) PROVE ParentsOK'
  BY <1>8 DEF Close, Calls, At, family, sleeping, listing, counts
<1>9. ASSUME NEW p \in Slots, ExitCall(p) PROVE ParentsOK'
  BY <1>9 DEF ExitCall, Calls, At, CloseAll, Goto, family, sleeping, listing,
      counts
<1>10. ASSUME NEW p \in Slots, KilledTrap(p) PROVE ParentsOK'
  BY <1>10 DEF KilledTrap, CloseAll, EndListing, Goto, family, sleeping,
      listing, counts
<1>11. ASSUME NEW p \in Slots, Exit(p) PROVE ParentsOK'
  BY <1>11 DEF Exit, At, WakeUp, family, sleeping, listing, counts
<1>12. ASSUME NEW p \in Slots, WaitCall(p) PROVE ParentsOK'
  BY <1>12 DEF WaitCall, Calls, At, Goto, family, sleeping, listing, counts
<1>13. ASSUME NEW p \in Slots, WaitReaps(p) PROVE ParentsOK'
  BY <1>13 DEF WaitReaps, WaitLoop, CountSwitch, At, Goto, family, sleeping,
      listing, counts, ZombieChildren, Children, InState, IsFirst
<1>14. ASSUME NEW p \in Slots, WaitFails(p) PROVE ParentsOK'
  BY <1>14 DEF WaitFails, WaitLoop, CountSwitch, At, Goto, family, sleeping,
      listing, counts
<1>15. ASSUME NEW p \in Slots, WaitSleeps(p) PROVE ParentsOK'
  BY <1>15 DEF WaitSleeps, WaitLoop, CountSwitch, At, Goto, family, sleeping,
      listing, counts
<1>16. ASSUME NEW p \in Slots, Kill(p) PROVE ParentsOK'
  BY <1>16 DEF Kill, Calls, At, family, sleeping, listing, counts, IsFirst
<1>17. ASSUME NEW p \in Slots, SleepCall(p) PROVE ParentsOK'
  BY <1>17 DEF SleepCall, Calls, At, Goto, family, sleeping, listing, counts
<1>18. ASSUME NEW p \in Slots, SleepStart(p) PROVE ParentsOK'
  BY <1>18 DEF SleepStart, At, Goto, family, sleeping, listing, counts
<1>19. ASSUME NEW p \in Slots, SleepReturns(p) PROVE ParentsOK'
  BY <1>19 DEF SleepReturns, LeaveSleep, At, Goto, family, sleeping, listing,
      counts
<1>20. ASSUME NEW p \in Slots, SleepKilled(p) PROVE ParentsOK'
  BY <1>20 DEF SleepKilled, LeaveSleep, At, Goto, family, sleeping, listing,
      counts
<1>21. ASSUME NEW p \in Slots, SleepOn(p) PROVE ParentsOK'
  BY <1>21 DEF SleepOn, At, Goto, family, sleeping, listing, counts
<1>22. ASSUME NEW p \in Slots, Doze(p) PROVE ParentsOK'
  BY <1>22 DEF Doze, At, Goto, family, sleeping, listing, counts
<1>23. ASSUME NEW p \in Slots, Relock(p) PROVE ParentsOK'
  BY <1>23 DEF Relock, At, Goto, family, sleeping, listing, counts
<1>24. ASSUME NEW p \in Slots, PsMaxPid(p) PROVE ParentsOK'
  BY <1>24 DEF PsMaxPid, Calls, At, Goto, family, sleeping, listing, counts
<1>25. ASSUME NEW p \in Slots, PsNumProc(p) PROVE ParentsOK'
  BY <1>25 DEF PsNumProc, At, Goto, family, sleeping, listing, counts
<1>26. ASSUME NEW p \in Slots, PsRow(p) PROVE ParentsOK'
  BY <1>26 DEF PsRow, At, family, sleeping, listing, counts
<1>27. ASSUME NEW p \in Slots, PsEnd(p) PROVE ParentsOK'
  BY <1>27 DEF PsEnd, At, CloseAll, EndListing, Goto, family, sleeping,
      listing, counts
<1>28. CASE Tick
  BY <1>28 DEF Tick, family, sleeping, listing, counts
<1>29. CASE TickWakeup
  BY <1>29 DEF TickWakeup, WakeUp, family, sleeping, listing, counts
<1>30. QED
  BY <1>0, <1>1, <1>2, <1>3, <1>4, <1>5, <1>6, <1>7, <1>8, <1>9, <1>10, <1>11,
      <1>12, <1>13, <1>14, <1>15, <1>16, <1>17, <1>18, <1>19, <1>20, <1>21,
      <1>22, <1>23, <1>24, <1>25, <1>26, <1>27, <1>28, <1>29 DEF Next,
      Scheduler, Kernel, User

(* The fields ps shows are right. *)
LEMMA FieldsStep ==
  ASSUME TypeOK, PlacesOK, ForksOK, FieldsOK, [Next]_vars
  PROVE  FieldsOK'
<1> USE DEF PlacesOK, PlaceOK, ForksOK, FieldsOK, InTable, Live, TypeOK
<1>0. CASE UNCHANGED vars
  BY <1>0 DEF vars, family, sleeping, listing, counts
<1>1. ASSUME NEW p \in Slots, Switch(p) PROVE FieldsOK'
  BY <1>1 DEF Switch, CountSwitch, family, sleeping, listing, counts
<1>2. ASSUME NEW p \in Slots, Yield(p) PROVE FieldsOK'
  BY <1>2 DEF Yield, family, sleeping, listing, counts
<1>3. ASSUME NEW p \in Slots, AllocProc(p) PROVE FieldsOK'
  BY <1>3 DEF AllocProc, Calls, At, Goto, IsFirst, InState, family, sleeping,
      listing, counts
<1>4. ASSUME NEW p \in Slots, ForkFails(p) PROVE FieldsOK'
  BY <1>4 DEF ForkFails, At, Goto, family, sleeping, listing, counts
<1>5. ASSUME NEW p \in Slots, Copy(p) PROVE FieldsOK'
  BY <1>5 DEF Copy, At, family, sleeping, listing, counts
<1>6. ASSUME NEW p \in Slots, MakeRunnable(p) PROVE FieldsOK'
  BY <1>6 DEF MakeRunnable, At, Goto, family, sleeping, listing, counts
<1>7. ASSUME NEW p \in Slots, Open(p) PROVE FieldsOK'
  BY <1>7 DEF Open, Calls, At, family, sleeping, listing, counts
<1>8. ASSUME NEW p \in Slots, Close(p) PROVE FieldsOK'
  BY <1>8 DEF Close, Calls, At, family, sleeping, listing, counts
<1>9. ASSUME NEW p \in Slots, ExitCall(p) PROVE FieldsOK'
  BY <1>9 DEF ExitCall, Calls, At, CloseAll, Goto, family, sleeping, listing,
      counts
<1>10. ASSUME NEW p \in Slots, KilledTrap(p) PROVE FieldsOK'
  BY <1>10 DEF KilledTrap, CloseAll, EndListing, Goto, family, sleeping,
      listing, counts
<1>11. ASSUME NEW p \in Slots, Exit(p) PROVE FieldsOK'
  BY <1>11 DEF Exit, At, WakeUp, family, sleeping, listing, counts
<1>12. ASSUME NEW p \in Slots, WaitCall(p) PROVE FieldsOK'
  BY <1>12 DEF WaitCall, Calls, At, Goto, family, sleeping, listing, counts
<1>13. ASSUME NEW p \in Slots, WaitReaps(p) PROVE FieldsOK'
  BY <1>13 DEF WaitReaps, WaitLoop, CountSwitch, At, Goto, family, sleeping,
      listing, counts, ZombieChildren, Children, InState, IsFirst
<1>14. ASSUME NEW p \in Slots, WaitFails(p) PROVE FieldsOK'
  BY <1>14 DEF WaitFails, WaitLoop, CountSwitch, At, Goto, family, sleeping,
      listing, counts
<1>15. ASSUME NEW p \in Slots, WaitSleeps(p) PROVE FieldsOK'
  BY <1>15 DEF WaitSleeps, WaitLoop, CountSwitch, At, Goto, family, sleeping,
      listing, counts
<1>16. ASSUME NEW p \in Slots, Kill(p) PROVE FieldsOK'
  BY <1>16 DEF Kill, Calls, At, family, sleeping, listing, counts
<1>17. ASSUME NEW p \in Slots, SleepCall(p) PROVE FieldsOK'
  BY <1>17 DEF SleepCall, Calls, At, Goto, family, sleeping, listing, counts
<1>18. ASSUME NEW p \in Slots, SleepStart(p) PROVE FieldsOK'
  BY <1>18 DEF SleepStart, At, Goto, family, sleeping, listing, counts
<1>19. ASSUME NEW p \in Slots, SleepReturns(p) PROVE FieldsOK'
  BY <1>19 DEF SleepReturns, LeaveSleep, At, Goto, family, sleeping, listing,
      counts
<1>20. ASSUME NEW p \in Slots, SleepKilled(p) PROVE FieldsOK'
  BY <1>20 DEF SleepKilled, LeaveSleep, At, Goto, family, sleeping, listing,
      counts
<1>21. ASSUME NEW p \in Slots, SleepOn(p) PROVE FieldsOK'
  BY <1>21 DEF SleepOn, At, Goto, family, sleeping, listing, counts
<1>22. ASSUME NEW p \in Slots, Doze(p) PROVE FieldsOK'
  BY <1>22 DEF Doze, At, Goto, family, sleeping, listing, counts
<1>23. ASSUME NEW p \in Slots, Relock(p) PROVE FieldsOK'
  BY <1>23 DEF Relock, At, Goto, family, sleeping, listing, counts
<1>24. ASSUME NEW p \in Slots, PsMaxPid(p) PROVE FieldsOK'
  BY <1>24 DEF PsMaxPid, Calls, At, Goto, family, sleeping, listing, counts
<1>25. ASSUME NEW p \in Slots, PsNumProc(p) PROVE FieldsOK'
  BY <1>25 DEF PsNumProc, At, Goto, family, sleeping, listing, counts
<1>26. ASSUME NEW p \in Slots, PsRow(p) PROVE FieldsOK'
  BY <1>26 DEF PsRow, At, family, sleeping, listing, counts
<1>27. ASSUME NEW p \in Slots, PsEnd(p) PROVE FieldsOK'
  BY <1>27 DEF PsEnd, At, CloseAll, EndListing, Goto, family, sleeping,
      listing, counts
<1>28. CASE Tick
  BY <1>28 DEF Tick, family, sleeping, listing, counts
<1>29. CASE TickWakeup
  BY <1>29 DEF TickWakeup, WakeUp, family, sleeping, listing, counts
<1>30. QED
  BY <1>0, <1>1, <1>2, <1>3, <1>4, <1>5, <1>6, <1>7, <1>8, <1>9, <1>10, <1>11,
      <1>12, <1>13, <1>14, <1>15, <1>16, <1>17, <1>18, <1>19, <1>20, <1>21,
      <1>22, <1>23, <1>24, <1>25, <1>26, <1>27, <1>28, <1>29 DEF Next,
      Scheduler, Kernel, User

(* tickslock is held from the test to the sleep. *)
LEMMA ClockStep ==
  ASSUME TypeOK, PlacesOK, ForksOK, ClockOK, [Next]_vars
  PROVE  ClockOK'
<1> USE Constants DEF PlacesOK, PlaceOK, ForksOK, ClockOK, Enough, TypeOK
<1>0. CASE UNCHANGED vars
  BY <1>0 DEF vars, family, sleeping, listing, counts
<1>1. ASSUME NEW p \in Slots, Switch(p) PROVE ClockOK'
  BY <1>1 DEF Switch, CountSwitch, family, sleeping, listing, counts
<1>2. ASSUME NEW p \in Slots, Yield(p) PROVE ClockOK'
  BY <1>2 DEF Yield, family, sleeping, listing, counts
<1>3. ASSUME NEW p \in Slots, AllocProc(p) PROVE ClockOK'
  BY <1>3 DEF AllocProc, Calls, At, Goto, IsFirst, InState, family, sleeping,
      listing, counts
<1>4. ASSUME NEW p \in Slots, ForkFails(p) PROVE ClockOK'
  BY <1>4 DEF ForkFails, At, Goto, family, sleeping, listing, counts
<1>5. ASSUME NEW p \in Slots, Copy(p) PROVE ClockOK'
  BY <1>5 DEF Copy, At, family, sleeping, listing, counts
<1>6. ASSUME NEW p \in Slots, MakeRunnable(p) PROVE ClockOK'
  BY <1>6 DEF MakeRunnable, At, Goto, family, sleeping, listing, counts
<1>7. ASSUME NEW p \in Slots, Open(p) PROVE ClockOK'
  BY <1>7 DEF Open, Calls, At, family, sleeping, listing, counts
<1>8. ASSUME NEW p \in Slots, Close(p) PROVE ClockOK'
  BY <1>8 DEF Close, Calls, At, family, sleeping, listing, counts
<1>9. ASSUME NEW p \in Slots, ExitCall(p) PROVE ClockOK'
  BY <1>9 DEF ExitCall, Calls, At, CloseAll, Goto, family, sleeping, listing,
      counts
<1>10. ASSUME NEW p \in Slots, KilledTrap(p) PROVE ClockOK'
  BY <1>10 DEF KilledTrap, CloseAll, EndListing, Goto, family, sleeping,
      listing, counts
<1>11. ASSUME NEW p \in Slots, Exit(p) PROVE ClockOK'
  BY <1>11 DEF Exit, At, WakeUp, family, sleeping, listing, counts
<1>12. ASSUME NEW p \in Slots, WaitCall(p) PROVE ClockOK'
  BY <1>12 DEF WaitCall, Calls, At, Goto, family, sleeping, listing, counts
<1>13. ASSUME NEW p \in Slots, WaitReaps(p) PROVE ClockOK'
  BY <1>13 DEF WaitReaps, WaitLoop, CountSwitch, At, Goto, family, sleeping,
      listing, counts, ZombieChildren, Children, InState, IsFirst
<1>14. ASSUME NEW p \in Slots, WaitFails(p) PROVE ClockOK'
  BY <1>14 DEF WaitFails, WaitLoop, CountSwitch, At, Goto, family, sleeping,
      listing, counts
<1>15. ASSUME NEW p \in Slots, WaitSleeps(p) PROVE ClockOK'
  BY <1>15 DEF WaitSleeps, WaitLoop, CountSwitch, At, Goto, family, sleeping,
      listing, counts
<1>16. ASSUME NEW p \in Slots, Kill(p) PROVE ClockOK'
  BY <1>16 DEF Kill, Calls, At, family, sleeping, listing, counts
<1>17. ASSUME NEW p \in Slots, SleepCall(p) PROVE ClockOK'
  BY <1>17 DEF SleepCall, Calls, At, Goto, family, sleeping, listing, counts
<1>18. ASSUME NEW p \in Slots, SleepStart(p) PROVE ClockOK'
  BY <1>18 DEF SleepStart, At, Goto, family, sleeping, listing, counts
<1>19. ASSUME NEW p \in Slots, SleepReturns(p) PROVE ClockOK'
  BY <1>19 DEF SleepReturns, LeaveSleep, At, Goto, family, sleeping, listing,
      counts
<1>20. ASSUME NEW p \in Slots, SleepKilled(p) PROVE ClockOK'
  BY <1>20 DEF SleepKilled, LeaveSleep, At, Goto, family, sleeping, listing,
      counts
<1>21. ASSUME NEW p \in Slots, SleepOn(p) PROVE ClockOK'
  BY <1>21 DEF SleepOn, At, Goto, family, sleeping, listing, counts
<1>22. ASSUME NEW p \in Slots, Doze(p) PROVE ClockOK'
  BY <1>22 DEF Doze, At, Goto, family, sleeping, listing, counts
<1>23. ASSUME NEW p \in Slots, Relock(p) PROVE ClockOK'
  BY <1>23 DEF Relock, At, Goto, family, sleeping, listing, counts
<1>24. ASSUME NEW p \in Slots, PsMaxPid(p) PROVE ClockOK'
  BY <1>24 DEF PsMaxPid, Calls, At, Goto, family, sleeping, listing, counts
<1>25. ASSUME NEW p \in Slots, PsNumProc(p) PROVE ClockOK'
  BY <1>25 DEF PsNumProc, At, Goto, family, sleeping, listing, counts
<1>26. ASSUME NEW p \in Slots, PsRow(p) PROVE ClockOK'
  BY <1>26 DEF PsRow, At, family, sleeping, listing, counts
<1>27. ASSUME NEW p \in Slots, PsEnd(p) PROVE ClockOK'
  BY <1>27 DEF PsEnd, At, CloseAll, EndListing, Goto, family, sleeping,
      listing, counts
<1>28. CASE Tick
  <2>1. tickslock = Nobody /\ pc' = pc
    BY <1>28 DEF Tick
  <2>2. \A p \in Slots : pc[p] \notin {"test", "doze"}
    BY <2>1
  <2>3. QED
    BY <2>1, <2>2
<1>29. CASE TickWakeup
  BY <1>29 DEF TickWakeup, WakeUp, family, sleeping, listing, counts
<1>30. QED
  BY <1>0, <1>1, <1>2, <1>3, <1>4, <1>5, <1>6, <1>7, <1>8, <1>9, <1>10, <1>11,
      <1>12, <1>13, <1>14, <1>15, <1>16, <1>17, <1>18, <1>19, <1>20, <1>21,
      <1>22, <1>23, <1>24, <1>25, <1>26, <1>27, <1>28, <1>29 DEF Next,
      Scheduler, Kernel, User

(* Nobody misses the wakeup. *)
LEMMA OversleepStep ==
  ASSUME TypeOK, PlacesOK, ForksOK, ClockOK, NobodyOversleeps, [Next]_vars
  PROVE  NobodyOversleeps'
<1> USE Constants DEF PlacesOK, PlaceOK, ForksOK, ClockOK, NobodyOversleeps,
      Enough, InState, TypeOK
<1>0. CASE UNCHANGED vars
  BY <1>0 DEF vars, family, sleeping, listing, counts
<1>1. ASSUME NEW p \in Slots, Switch(p) PROVE NobodyOversleeps'
  BY <1>1 DEF Switch, CountSwitch, family, sleeping, listing, counts
<1>2. ASSUME NEW p \in Slots, Yield(p) PROVE NobodyOversleeps'
  BY <1>2 DEF Yield, family, sleeping, listing, counts
<1>3. ASSUME NEW p \in Slots, AllocProc(p) PROVE NobodyOversleeps'
  BY <1>3 DEF AllocProc, Calls, At, Goto, IsFirst, InState, family, sleeping,
      listing, counts
<1>4. ASSUME NEW p \in Slots, ForkFails(p) PROVE NobodyOversleeps'
  BY <1>4 DEF ForkFails, At, Goto, family, sleeping, listing, counts
<1>5. ASSUME NEW p \in Slots, Copy(p) PROVE NobodyOversleeps'
  BY <1>5 DEF Copy, At, family, sleeping, listing, counts
<1>6. ASSUME NEW p \in Slots, MakeRunnable(p) PROVE NobodyOversleeps'
  BY <1>6 DEF MakeRunnable, At, Goto, family, sleeping, listing, counts
<1>7. ASSUME NEW p \in Slots, Open(p) PROVE NobodyOversleeps'
  BY <1>7 DEF Open, Calls, At, family, sleeping, listing, counts
<1>8. ASSUME NEW p \in Slots, Close(p) PROVE NobodyOversleeps'
  BY <1>8 DEF Close, Calls, At, family, sleeping, listing, counts
<1>9. ASSUME NEW p \in Slots, ExitCall(p) PROVE NobodyOversleeps'
  BY <1>9 DEF ExitCall, Calls, At, CloseAll, Goto, family, sleeping, listing,
      counts
<1>10. ASSUME NEW p \in Slots, KilledTrap(p) PROVE NobodyOversleeps'
  BY <1>10 DEF KilledTrap, CloseAll, EndListing, Goto, family, sleeping,
      listing, counts
<1>11. ASSUME NEW p \in Slots, Exit(p) PROVE NobodyOversleeps'
  BY <1>11 DEF Exit, At, WakeUp, family, sleeping, listing, counts
<1>12. ASSUME NEW p \in Slots, WaitCall(p) PROVE NobodyOversleeps'
  BY <1>12 DEF WaitCall, Calls, At, Goto, family, sleeping, listing, counts
<1>13. ASSUME NEW p \in Slots, WaitReaps(p) PROVE NobodyOversleeps'
  BY <1>13 DEF WaitReaps, WaitLoop, CountSwitch, At, Goto, family, sleeping,
      listing, counts
<1>14. ASSUME NEW p \in Slots, WaitFails(p) PROVE NobodyOversleeps'
  BY <1>14 DEF WaitFails, WaitLoop, CountSwitch, At, Goto, family, sleeping,
      listing, counts
<1>15. ASSUME NEW p \in Slots, WaitSleeps(p) PROVE NobodyOversleeps'
  BY <1>15 DEF WaitSleeps, WaitLoop, CountSwitch, At, Goto, family, sleeping,
      listing, counts
<1>16. ASSUME NEW p \in Slots, Kill(p) PROVE NobodyOversleeps'
  BY <1>16 DEF Kill, Calls, At, family, sleeping, listing, counts
<1>17. ASSUME NEW p \in Slots, SleepCall(p) PROVE NobodyOversleeps'
  BY <1>17 DEF SleepCall, Calls, At, Goto, family, sleeping, listing, counts
<1>18. ASSUME NEW p \in Slots, SleepStart(p) PROVE NobodyOversleeps'
  BY <1>18 DEF SleepStart, At, Goto, family, sleeping, listing, counts
<1>19. ASSUME NEW p \in Slots, SleepReturns(p) PROVE NobodyOversleeps'
  BY <1>19 DEF SleepReturns, LeaveSleep, At, Goto, family, sleeping, listing,
      counts
<1>20. ASSUME NEW p \in Slots, SleepKilled(p) PROVE NobodyOversleeps'
  BY <1>20 DEF SleepKilled, LeaveSleep, At, Goto, family, sleeping, listing,
      counts
<1>21. ASSUME NEW p \in Slots, SleepOn(p) PROVE NobodyOversleeps'
  BY <1>21 DEF SleepOn, At, Goto, family, sleeping, listing, counts
<1>22. ASSUME NEW p \in Slots, Doze(p) PROVE NobodyOversleeps'
  BY <1>22 DEF Doze, At, Goto, family, sleeping, listing, counts
<1>23. ASSUME NEW p \in Slots, Relock(p) PROVE NobodyOversleeps'
  BY <1>23 DEF Relock, At, Goto, family, sleeping, listing, counts
<1>24. ASSUME NEW p \in Slots, PsMaxPid(p) PROVE NobodyOversleeps'
  BY <1>24 DEF PsMaxPid, Calls, At, Goto, family, sleeping, listing, counts
<1>25. ASSUME NEW p \in Slots, PsNumProc(p) PROVE NobodyOversleeps'
  BY <1>25 DEF PsNumProc, At, Goto, family, sleeping, listing, counts
<1>26. ASSUME NEW p \in Slots, PsRow(p) PROVE NobodyOversleeps'
  BY <1>26 DEF PsRow, At, family, sleeping, listing, counts
<1>27. ASSUME NEW p \in Slots, PsEnd(p) PROVE NobodyOversleeps'
  BY <1>27 DEF PsEnd, At, CloseAll, EndListing, Goto, family, sleeping,
      listing, counts
<1>28. CASE Tick
  BY <1>28 DEF Tick, family, sleeping, listing, counts
<1>29. CASE TickWakeup
  BY <1>29 DEF TickWakeup, WakeUp, family, sleeping, listing, counts
<1>30. QED
  BY <1>0, <1>1, <1>2, <1>3, <1>4, <1>5, <1>6, <1>7, <1>8, <1>9, <1>10, <1>11,
      <1>12, <1>13, <1>14, <1>15, <1>16, <1>17, <1>18, <1>19, <1>20, <1>21,
      <1>22, <1>23, <1>24, <1>25, <1>26, <1>27, <1>28, <1>29 DEF Next,
      Scheduler, Kernel, User

(* Only a killed process has had its nap. *)
LEMMA NapsStep ==
  ASSUME TypeOK, PlacesOK, ForksOK, NapsOK, [Next]_vars
  PROVE  NapsOK'
<1> USE DEF PlacesOK, PlaceOK, ForksOK, NapsOK, TypeOK
<1>0. CASE UNCHANGED vars
  BY <1>0 DEF vars, family, sleeping, listing, counts
<1>1. ASSUME NEW p \in Slots, Switch(p) PROVE NapsOK'
  BY <1>1 DEF Switch, CountSwitch, family, sleeping, listing, counts
<1>2. ASSUME NEW p \in Slots, Yield(p) PROVE NapsOK'
  BY <1>2 DEF Yield, family, sleeping, listing, counts
<1>3. ASSUME NEW p \in Slots, AllocProc(p) PROVE NapsOK'
  BY <1>3 DEF AllocProc, Calls, At, Goto, IsFirst, InState, family, sleeping,
      listing, counts
<1>4. ASSUME NEW p \in Slots, ForkFails(p) PROVE NapsOK'
  BY <1>4 DEF ForkFails, At, Goto, family, sleeping, listing, counts
<1>5. ASSUME NEW p \in Slots, Copy(p) PROVE NapsOK'
  BY <1>5 DEF Copy, At, family, sleeping, listing, counts
<1>6. ASSUME NEW p \in Slots, MakeRunnable(p) PROVE NapsOK'
  BY <1>6 DEF MakeRunnable, At, Goto, family, sleeping, listing, counts
<1>7. ASSUME NEW p \in Slots, Open(p) PROVE NapsOK'
  BY <1>7 DEF Open, Calls, At, family, sleeping, listing, counts
<1>8. ASSUME NEW p \in Slots, Close(p) PROVE NapsOK'
  BY <1>8 DEF Close, Calls, At, family, sleeping, listing, counts
<1>9. ASSUME NEW p \in Slots, ExitCall(p) PROVE NapsOK'
  BY <1>9 DEF ExitCall, Calls, At, CloseAll, Goto, family, sleeping, listing,
      counts
<1>10. ASSUME NEW p \in Slots, KilledTrap(p) PROVE NapsOK'
  BY <1>10 DEF KilledTrap, CloseAll, EndListing, Goto, family, sleeping,
      listing, counts
<1>11. ASSUME NEW p \in Slots, Exit(p) PROVE NapsOK'
  BY <1>11 DEF Exit, At, WakeUp, family, sleeping, listing, counts
<1>12. ASSUME NEW p \in Slots, WaitCall(p) PROVE NapsOK'
  BY <1>12 DEF WaitCall, Calls, At, Goto, family, sleeping, listing, counts
<1>13. ASSUME NEW p \in Slots, WaitReaps(p) PROVE NapsOK'
  BY <1>13 DEF WaitReaps, WaitLoop, CountSwitch, At, Goto, family, sleeping,
      listing, counts, ZombieChildren, Children, InState, IsFirst
<1>14. ASSUME NEW p \in Slots, WaitFails(p) PROVE NapsOK'
  BY <1>14 DEF WaitFails, WaitLoop, CountSwitch, At, Goto, family, sleeping,
      listing, counts
<1>15. ASSUME NEW p \in Slots, WaitSleeps(p) PROVE NapsOK'
  BY <1>15 DEF WaitSleeps, WaitLoop, CountSwitch, At, Goto, family, sleeping,
      listing, counts
<1>16. ASSUME NEW p \in Slots, Kill(p) PROVE NapsOK'
  BY <1>16 DEF Kill, Calls, At, family, sleeping, listing, counts
<1>17. ASSUME NEW p \in Slots, SleepCall(p) PROVE NapsOK'
  BY <1>17 DEF SleepCall, Calls, At, Goto, family, sleeping, listing, counts
<1>18. ASSUME NEW p \in Slots, SleepStart(p) PROVE NapsOK'
  BY <1>18 DEF SleepStart, At, Goto, family, sleeping, listing, counts
<1>19. ASSUME NEW p \in Slots, SleepReturns(p) PROVE NapsOK'
  BY <1>19 DEF SleepReturns, LeaveSleep, At, Goto, family, sleeping, listing,
      counts
<1>20. ASSUME NEW p \in Slots, SleepKilled(p) PROVE NapsOK'
  BY <1>20 DEF SleepKilled, LeaveSleep, At, Goto, family, sleeping, listing,
      counts
<1>21. ASSUME NEW p \in Slots, SleepOn(p) PROVE NapsOK'
  BY <1>21 DEF SleepOn, At, Goto, family, sleeping, listing, counts
<1>22. ASSUME NEW p \in Slots, Doze(p) PROVE NapsOK'
  BY <1>22 DEF Doze, At, Goto, family, sleeping, listing, counts
<1>23. ASSUME NEW p \in Slots, Relock(p) PROVE NapsOK'
  BY <1>23 DEF Relock, At, Goto, family, sleeping, listing, counts
<1>24. ASSUME NEW p \in Slots, PsMaxPid(p) PROVE NapsOK'
  BY <1>24 DEF PsMaxPid, Calls, At, Goto, family, sleeping, listing, counts
<1>25. ASSUME NEW p \in Slots, PsNumProc(p) PROVE NapsOK'
  BY <1>25 DEF PsNumProc, At, Goto, family, sleeping, listing, counts
<1>26. ASSUME NEW p \in Slots, PsRow(p) PROVE NapsOK'
  BY <1>26 DEF PsRow, At, family, sleeping, listing, counts
<1>27. ASSUME NEW p \in Slots, PsEnd(p) PROVE NapsOK'
  BY <1>27 DEF PsEnd, At, CloseAll, EndListing, Goto, family, sleeping,
      listing, counts
<1>28. CASE Tick
  BY <1>28 DEF Tick, family, sleeping, listing, counts
<1>29. CASE TickWakeup
  BY <1>29 DEF TickWakeup, WakeUp, family, sleeping, listing, counts
<1>30. QED
  BY <1>0, <1>1, <1>2, <1>3, <1>4, <1>5, <1>6, <1>7, <1>8, <1>9, <1>10, <1>11,
      <1>12, <1>13, <1>14, <1>15, <1>16, <1>17, <1>18, <1>19, <1>20, <1>21,
      <1>22, <1>23, <1>24, <1>25, <1>26, <1>27, <1>28, <1>29 DEF Next,
      Scheduler, Kernel, User

(* elapsed follows the clock. *)
LEMMA ElapsedStep ==
  ASSUME TypeOK, PlacesOK, ForksOK, ElapsedOK, [Next]_vars
  PROVE  ElapsedOK'
<1> USE DEF PlacesOK, PlaceOK, ForksOK, ElapsedOK, InSleep, TypeOK
<1>0. CASE UNCHANGED vars
  BY <1>0 DEF vars, family, sleeping, listing, counts
<1>1. ASSUME NEW p \in Slots, Switch(p) PROVE ElapsedOK'
  BY <1>1 DEF Switch, CountSwitch, family, sleeping, listing, counts
<1>2. ASSUME NEW p \in Slots, Yield(p) PROVE ElapsedOK'
  BY <1>2 DEF Yield, family, sleeping, listing, counts
<1>3. ASSUME NEW p \in Slots, AllocProc(p) PROVE ElapsedOK'
  BY <1>3 DEF AllocProc, Calls, At, Goto, IsFirst, InState, family, sleeping,
      listing, counts
<1>4. ASSUME NEW p \in Slots, ForkFails(p) PROVE ElapsedOK'
  BY <1>4 DEF ForkFails, At, Goto, family, sleeping, listing, counts
<1>5. ASSUME NEW p \in Slots, Copy(p) PROVE ElapsedOK'
  BY <1>5 DEF Copy, At, family, sleeping, listing, counts
<1>6. ASSUME NEW p \in Slots, MakeRunnable(p) PROVE ElapsedOK'
  BY <1>6 DEF MakeRunnable, At, Goto, family, sleeping, listing, counts
<1>7. ASSUME NEW p \in Slots, Open(p) PROVE ElapsedOK'
  BY <1>7 DEF Open, Calls, At, family, sleeping, listing, counts
<1>8. ASSUME NEW p \in Slots, Close(p) PROVE ElapsedOK'
  BY <1>8 DEF Close, Calls, At, family, sleeping, listing, counts
<1>9. ASSUME NEW p \in Slots, ExitCall(p) PROVE ElapsedOK'
  BY <1>9 DEF ExitCall, Calls, At, CloseAll, Goto, family, sleeping, listing,
      counts
<1>10. ASSUME NEW p \in Slots, KilledTrap(p) PROVE ElapsedOK'
  BY <1>10 DEF KilledTrap, CloseAll, EndListing, Goto, family, sleeping,
      listing, counts
<1>11. ASSUME NEW p \in Slots, Exit(p) PROVE ElapsedOK'
  BY <1>11 DEF Exit, At, WakeUp, family, sleeping, listing, counts
<1>12. ASSUME NEW p \in Slots, WaitCall(p) PROVE ElapsedOK'
  BY <1>12 DEF WaitCall, Calls, At, Goto, family, sleeping, listing, counts
<1>13. ASSUME NEW p \in Slots, WaitReaps(p) PROVE ElapsedOK'
  BY <1>13 DEF WaitReaps, WaitLoop, CountSwitch, At, Goto, family, sleeping,
      listing, counts
<1>14. ASSUME NEW p \in Slots, WaitFails(p) PROVE ElapsedOK'
  BY <1>14 DEF WaitFails, WaitLoop, CountSwitch, At, Goto, family, sleeping,
      listing, counts
<1>15. ASSUME NEW p \in Slots, WaitSleeps(p) PROVE ElapsedOK'
  BY <1>15 DEF WaitSleeps, WaitLoop, CountSwitch, At, Goto, family, sleeping,
      listing, counts
<1>16. ASSUME NEW p \in Slots, Kill(p) PROVE ElapsedOK'
  BY <1>16 DEF Kill, Calls, At, family, sleeping, listing, counts
<1>17. ASSUME NEW p \in Slots, SleepCall(p) PROVE ElapsedOK'
  BY <1>17 DEF SleepCall, Calls, At, Goto, family, sleeping, listing, counts
<1>18. ASSUME NEW p \in Slots, SleepStart(p) PROVE ElapsedOK'
  <2>1. ticks \in Int /\ ticks - ticks = 0 /\ uint(0) = 0
    BY UintArith, InRange, Constants DEF Uints
  <2>2. QED
    BY <1>18, <2>1 DEF SleepStart, Goto
<1>19. ASSUME NEW p \in Slots, SleepReturns(p) PROVE ElapsedOK'
  BY <1>19 DEF SleepReturns, LeaveSleep, At, Goto, family, sleeping, listing,
      counts
<1>20. ASSUME NEW p \in Slots, SleepKilled(p) PROVE ElapsedOK'
  BY <1>20 DEF SleepKilled, LeaveSleep, At, Goto, family, sleeping, listing,
      counts
<1>21. ASSUME NEW p \in Slots, SleepOn(p) PROVE ElapsedOK'
  BY <1>21 DEF SleepOn, At, Goto, family, sleeping, listing, counts
<1>22. ASSUME NEW p \in Slots, Doze(p) PROVE ElapsedOK'
  BY <1>22 DEF Doze, At, Goto, family, sleeping, listing, counts
<1>23. ASSUME NEW p \in Slots, Relock(p) PROVE ElapsedOK'
  BY <1>23 DEF Relock, At, Goto, family, sleeping, listing, counts
<1>24. ASSUME NEW p \in Slots, PsMaxPid(p) PROVE ElapsedOK'
  BY <1>24 DEF PsMaxPid, Calls, At, Goto, family, sleeping, listing, counts
<1>25. ASSUME NEW p \in Slots, PsNumProc(p) PROVE ElapsedOK'
  BY <1>25 DEF PsNumProc, At, Goto, family, sleeping, listing, counts
<1>26. ASSUME NEW p \in Slots, PsRow(p) PROVE ElapsedOK'
  BY <1>26 DEF PsRow, At, family, sleeping, listing, counts
<1>27. ASSUME NEW p \in Slots, PsEnd(p) PROVE ElapsedOK'
  BY <1>27 DEF PsEnd, At, CloseAll, EndListing, Goto, family, sleeping,
      listing, counts
<1>28. CASE Tick
  <2> SUFFICES ASSUME NEW p \in InSleep
               PROVE  \/ elapsed'[p] = UintValues
                      \/ elapsed'[p] = uint(ticks' - ticks0[p])
    BY <1>28 DEF Tick
  <2>1. /\ p \in Slots /\ ticks \in Uints /\ ticks0[p] \in Uints
        /\ ticks' = uint(ticks + 1)
        /\ elapsed[p] = UintValues \/ elapsed[p] = uint(ticks - ticks0[p])
    BY <1>28 DEF Tick
  <2> HIDE DEF InSleep, TypeOK, ElapsedOK
  <2>2. elapsed'[p] = IF elapsed[p] < UintValues THEN elapsed[p] + 1
                                                 ELSE elapsed[p]
    BY <1>28, <2>1 DEF Tick
  <2>3. uint(ticks - ticks0[p]) < UintValues
    <3>1. ticks - ticks0[p] \in Int
      BY <2>1, Constants DEF Uints
    <3>2. uint(ticks - ticks0[p]) \in Uints
      BY <3>1, UintArith
    <3>3. QED
      BY <3>2, Constants DEF Uints
  <2>4. QED
    BY <2>1, <2>2, <2>3, OneTickMore, Constants
<1>29. CASE TickWakeup
  BY <1>29 DEF TickWakeup, WakeUp, family, sleeping, listing, counts
<1>30. QED
  BY <1>0, <1>1, <1>2, <1>3, <1>4, <1>5, <1>6, <1>7, <1>8, <1>9, <1>10, <1>11,
      <1>12, <1>13, <1>14, <1>15, <1>16, <1>17, <1>18, <1>19, <1>20, <1>21,
      <1>22, <1>23, <1>24, <1>25, <1>26, <1>27, <1>28, <1>29 DEF Next,
      Scheduler, Kernel, User

(* Nobody leaves the test of sys_sleep too early. *)
LEMMA NeverEarlyStep ==
  ASSUME TypeOK, PlacesOK, ForksOK, ElapsedOK, [Next]_vars
  PROVE  LongEnough
<1> USE DEF PlacesOK, PlaceOK, ForksOK, LongEnough, TypeOK
<1>0. CASE UNCHANGED vars
  BY <1>0 DEF vars, family, sleeping, listing, counts
<1>1. ASSUME NEW p \in Slots, Switch(p) PROVE LongEnough
  BY <1>1 DEF Switch, CountSwitch, family, sleeping, listing, counts
<1>2. ASSUME NEW p \in Slots, Yield(p) PROVE LongEnough
  BY <1>2 DEF Yield, family, sleeping, listing, counts
<1>3. ASSUME NEW p \in Slots, AllocProc(p) PROVE LongEnough
  BY <1>3 DEF AllocProc, Calls, At, Goto, IsFirst, InState, family, sleeping,
      listing, counts
<1>4. ASSUME NEW p \in Slots, ForkFails(p) PROVE LongEnough
  BY <1>4 DEF ForkFails, At, Goto, family, sleeping, listing, counts
<1>5. ASSUME NEW p \in Slots, Copy(p) PROVE LongEnough
  BY <1>5 DEF Copy, At, family, sleeping, listing, counts
<1>6. ASSUME NEW p \in Slots, MakeRunnable(p) PROVE LongEnough
  BY <1>6 DEF MakeRunnable, At, Goto, family, sleeping, listing, counts
<1>7. ASSUME NEW p \in Slots, Open(p) PROVE LongEnough
  BY <1>7 DEF Open, Calls, At, family, sleeping, listing, counts
<1>8. ASSUME NEW p \in Slots, Close(p) PROVE LongEnough
  BY <1>8 DEF Close, Calls, At, family, sleeping, listing, counts
<1>9. ASSUME NEW p \in Slots, ExitCall(p) PROVE LongEnough
  BY <1>9 DEF ExitCall, Calls, At, CloseAll, Goto, family, sleeping, listing,
      counts
<1>10. ASSUME NEW p \in Slots, KilledTrap(p) PROVE LongEnough
  BY <1>10 DEF KilledTrap, CloseAll, EndListing, Goto, family, sleeping,
      listing, counts
<1>11. ASSUME NEW p \in Slots, Exit(p) PROVE LongEnough
  BY <1>11 DEF Exit, At, WakeUp, family, sleeping, listing, counts
<1>12. ASSUME NEW p \in Slots, WaitCall(p) PROVE LongEnough
  BY <1>12 DEF WaitCall, Calls, At, Goto, family, sleeping, listing, counts
<1>13. ASSUME NEW p \in Slots, WaitReaps(p) PROVE LongEnough
  BY <1>13 DEF WaitReaps, WaitLoop, CountSwitch, At, Goto, family, sleeping,
      listing, counts
<1>14. ASSUME NEW p \in Slots, WaitFails(p) PROVE LongEnough
  BY <1>14 DEF WaitFails, WaitLoop, CountSwitch, At, Goto, family, sleeping,
      listing, counts
<1>15. ASSUME NEW p \in Slots, WaitSleeps(p) PROVE LongEnough
  BY <1>15 DEF WaitSleeps, WaitLoop, CountSwitch, At, Goto, family, sleeping,
      listing, counts
<1>16. ASSUME NEW p \in Slots, Kill(p) PROVE LongEnough
  BY <1>16 DEF Kill, Calls, At, family, sleeping, listing, counts
<1>17. ASSUME NEW p \in Slots, SleepCall(p) PROVE LongEnough
  BY <1>17 DEF SleepCall, Calls, At, Goto, family, sleeping, listing, counts
<1>18. ASSUME NEW p \in Slots, SleepStart(p) PROVE LongEnough
  BY <1>18 DEF SleepStart, At, Goto, family, sleeping, listing, counts
<1>19. ASSUME NEW p \in Slots, SleepReturns(p) PROVE LongEnough
  <2>2. p \in InSleep /\ uint(ticks - ticks0[p]) >= uint(n[p])
    BY <1>19 DEF SleepReturns, Enough, At, InSleep
  <2>6. uint(n[p]) \in Uints
    BY ArgumentType, UintArith
  <2>3. UintValues >= uint(n[p])
    BY <2>6, Constants DEF Uints
  <2>4. elapsed[p] >= uint(n[p])
    BY <2>2, <2>3 DEF ElapsedOK
  <2>5. QED
    BY <1>19, <2>4 DEF SleepReturns, LeaveSleep, Goto
<1>20. ASSUME NEW p \in Slots, SleepKilled(p) PROVE LongEnough
  BY <1>20 DEF SleepKilled, LeaveSleep, At, Goto, family, sleeping, listing,
      counts
<1>21. ASSUME NEW p \in Slots, SleepOn(p) PROVE LongEnough
  BY <1>21 DEF SleepOn, At, Goto, family, sleeping, listing, counts
<1>22. ASSUME NEW p \in Slots, Doze(p) PROVE LongEnough
  BY <1>22 DEF Doze, At, Goto, family, sleeping, listing, counts
<1>23. ASSUME NEW p \in Slots, Relock(p) PROVE LongEnough
  BY <1>23 DEF Relock, At, Goto, family, sleeping, listing, counts
<1>24. ASSUME NEW p \in Slots, PsMaxPid(p) PROVE LongEnough
  BY <1>24 DEF PsMaxPid, Calls, At, Goto, family, sleeping, listing, counts
<1>25. ASSUME NEW p \in Slots, PsNumProc(p) PROVE LongEnough
  BY <1>25 DEF PsNumProc, At, Goto, family, sleeping, listing, counts
<1>26. ASSUME NEW p \in Slots, PsRow(p) PROVE LongEnough
  BY <1>26 DEF PsRow, At, family, sleeping, listing, counts
<1>27. ASSUME NEW p \in Slots, PsEnd(p) PROVE LongEnough
  BY <1>27 DEF PsEnd, At, CloseAll, EndListing, Goto, family, sleeping,
      listing, counts
<1>28. CASE Tick
  BY <1>28 DEF Tick, family, sleeping, listing, counts
<1>29. CASE TickWakeup
  BY <1>29 DEF TickWakeup, WakeUp, family, sleeping, listing, counts
<1>30. QED
  BY <1>0, <1>1, <1>2, <1>3, <1>4, <1>5, <1>6, <1>7, <1>8, <1>9, <1>10, <1>11,
      <1>12, <1>13, <1>14, <1>15, <1>16, <1>17, <1>18, <1>19, <1>20, <1>21,
      <1>22, <1>23, <1>24, <1>25, <1>26, <1>27, <1>28, <1>29 DEF Next,
      Scheduler, Kernel, User

(* Whom ps must list stays in its range. *)
LEMMA ListingStep ==
  ASSUME TypeOK, PlacesOK, ForksOK, PidsOK, ListingOK, [Next]_vars
  PROVE  ListingOK'
<1> USE DEF PlacesOK, PlaceOK, ForksOK, ListingOK, InTable, InPs, Live, TypeOK
<1>0. CASE UNCHANGED vars
  BY <1>0 DEF vars, family, sleeping, listing, counts
<1>1. ASSUME NEW p \in Slots, Switch(p) PROVE ListingOK'
  BY <1>1 DEF Switch, CountSwitch, family, sleeping, listing, counts
<1>2. ASSUME NEW p \in Slots, Yield(p) PROVE ListingOK'
  BY <1>2 DEF Yield, family, sleeping, listing, counts
<1>3. ASSUME NEW p \in Slots, AllocProc(p) PROVE ListingOK'
  BY <1>3 DEF AllocProc, Calls, At, Goto, IsFirst, InState, family, sleeping,
      listing, counts
<1>4. ASSUME NEW p \in Slots, ForkFails(p) PROVE ListingOK'
  BY <1>4 DEF ForkFails, At, Goto, family, sleeping, listing, counts
<1>5. ASSUME NEW p \in Slots, Copy(p) PROVE ListingOK'
  BY <1>5 DEF Copy, At, family, sleeping, listing, counts
<1>6. ASSUME NEW p \in Slots, MakeRunnable(p) PROVE ListingOK'
  BY <1>6 DEF MakeRunnable, At, Goto, family, sleeping, listing, counts
<1>7. ASSUME NEW p \in Slots, Open(p) PROVE ListingOK'
  BY <1>7 DEF Open, Calls, At, family, sleeping, listing, counts
<1>8. ASSUME NEW p \in Slots, Close(p) PROVE ListingOK'
  BY <1>8 DEF Close, Calls, At, family, sleeping, listing, counts
<1>9. ASSUME NEW p \in Slots, ExitCall(p) PROVE ListingOK'
  BY <1>9 DEF ExitCall, Calls, At, CloseAll, Goto, family, sleeping, listing,
      counts
<1>10. ASSUME NEW p \in Slots, KilledTrap(p) PROVE ListingOK'
  <2>1. InTable' = InTable /\ pid' = pid
    BY <1>10 DEF KilledTrap, CloseAll, family
  <2>2. pc' = [pc EXCEPT ![p] = "exit"]
    BY <1>10 DEF KilledTrap, CloseAll, Goto
  <2>3. CASE p \in InPs
    <3>1. InPs' = {}
      BY <2>2, <2>3
    <3>2. maxPid' = 0 /\ next' = 0 /\ listed' = {} /\ present' = {}
      BY <1>10, <2>3 DEF KilledTrap, EndListing
    <3>3. QED
      BY <3>1, <3>2
  <2>4. CASE p \notin InPs
    <3>1. InPs' = InPs
      BY <2>2, <2>4
    <3>2. UNCHANGED listing
      BY <1>10, <2>4 DEF KilledTrap
    <3>3. QED
      BY <2>1, <3>1, <3>2 DEF listing
  <2>5. QED
    BY <2>3, <2>4
<1>11. ASSUME NEW p \in Slots, Exit(p) PROVE ListingOK'
  <2>1. InTable' = InTable
    BY <1>11 DEF Exit, At, WakeUp
  <2>2. InPs' = InPs /\ pid' = pid /\ UNCHANGED listing
    BY <1>11 DEF Exit
  <2> HIDE DEF InTable, InPs
  <2>3. QED
    BY <2>1, <2>2 DEF listing
<1>12. ASSUME NEW p \in Slots, WaitCall(p) PROVE ListingOK'
  BY <1>12 DEF WaitCall, Calls, At, Goto, family, sleeping, listing, counts
<1>13. ASSUME NEW p \in Slots, WaitReaps(p) PROVE ListingOK'
  <2>1. PICK q \in Slots :
          /\ q \in ZombieChildren(p)
          /\ pid' = [pid EXCEPT ![q] = 0]
          /\ state' = [state EXCEPT ![q] = "UNUSED", ![p] = "RUNNING"]
          /\ present' = present \ {pid[q]}
    BY <1>13 DEF WaitReaps, IsFirst
  <2>2. /\ pc' = [pc EXCEPT ![p] = "user"] /\ pc[p] \in {"wait", "waiting"}
        /\ state[p] \in {"RUNNING", "RUNNABLE"}
        /\ UNCHANGED <<maxPid, next, listed>>
    BY <1>13 DEF WaitReaps, WaitLoop, At, Goto
  <2>3. state[q] = "ZOMBIE"
    BY <2>1 DEF ZombieChildren, InState
  <2>4. InPs' = InPs
    BY <2>2
  <2>5. ASSUME NEW k \in present' PROVE \E r \in InTable' : pid'[r] = k
    <3>1. PICK r \in InTable : pid[r] = k
      BY <2>1, <2>5
    <3>2. r # q
      BY <2>1, <2>5, <3>1
    <3>3. r \in InTable' /\ pid'[r] = k
      BY <2>1, <2>2, <2>3, <3>1, <3>2
    <3>4. QED
      BY <3>3
  <2>6. present' \subseteq present
    BY <2>1
  <2>8. InPs = {} => present' = {}
    BY <2>6
  <2>7. QED
    BY <2>2, <2>4, <2>5, <2>6, <2>8
<1>14. ASSUME NEW p \in Slots, WaitFails(p) PROVE ListingOK'
  BY <1>14 DEF WaitFails, WaitLoop, CountSwitch, At, Goto, family, sleeping,
      listing, counts
<1>15. ASSUME NEW p \in Slots, WaitSleeps(p) PROVE ListingOK'
  BY <1>15 DEF WaitSleeps, WaitLoop, CountSwitch, At, Goto, family, sleeping,
      listing, counts
<1>16. ASSUME NEW p \in Slots, Kill(p) PROVE ListingOK'
  BY <1>16 DEF Kill, Calls, At, family, sleeping, listing, counts
<1>17. ASSUME NEW p \in Slots, SleepCall(p) PROVE ListingOK'
  BY <1>17 DEF SleepCall, Calls, At, Goto, family, sleeping, listing, counts
<1>18. ASSUME NEW p \in Slots, SleepStart(p) PROVE ListingOK'
  BY <1>18 DEF SleepStart, At, Goto, family, sleeping, listing, counts
<1>19. ASSUME NEW p \in Slots, SleepReturns(p) PROVE ListingOK'
  BY <1>19 DEF SleepReturns, LeaveSleep, At, Goto, family, sleeping, listing,
      counts
<1>20. ASSUME NEW p \in Slots, SleepKilled(p) PROVE ListingOK'
  BY <1>20 DEF SleepKilled, LeaveSleep, At, Goto, family, sleeping, listing,
      counts
<1>21. ASSUME NEW p \in Slots, SleepOn(p) PROVE ListingOK'
  BY <1>21 DEF SleepOn, At, Goto, family, sleeping, listing, counts
<1>22. ASSUME NEW p \in Slots, Doze(p) PROVE ListingOK'
  BY <1>22 DEF Doze, At, Goto, family, sleeping, listing, counts
<1>23. ASSUME NEW p \in Slots, Relock(p) PROVE ListingOK'
  BY <1>23 DEF Relock, At, Goto, family, sleeping, listing, counts
<1>24. ASSUME NEW p \in Slots, PsMaxPid(p) PROVE ListingOK'
  <2>1. InTable \subseteq Used /\ Used # {}
    BY <1>24 DEF PsMaxPid, Calls, At, Used, InState
  <2>2. \A q \in InTable : pid[q] <= getMaxPid
    BY <2>1, MaxPidIsMax
  <2>3. present' = {pid[q] : q \in InTable} /\ maxPid' = getMaxPid
    BY <1>24 DEF PsMaxPid
  <2>4. \A k \in present' : k <= maxPid' /\ \E q \in InTable : pid[q] = k
    BY <2>2, <2>3
  <2>5. InTable' = InTable /\ pid' = pid
    BY <1>24 DEF PsMaxPid, family
  <2>6. next' = 0 /\ \A k \in present' : k \notin {j \in Int : j < 0}
    BY <1>24, <2>3 DEF PsMaxPid, Calls
  <2>7. InPs' = {p}
    BY <1>24 DEF PsMaxPid, Calls, Goto
  <2>8. QED
    BY <2>4, <2>5, <2>6, <2>7
<1>25. ASSUME NEW p \in Slots, PsNumProc(p) PROVE ListingOK'
  BY <1>25 DEF PsNumProc, At, Goto, family, sleeping, listing, counts
<1>26. ASSUME NEW p \in Slots, PsRow(p) PROVE ListingOK'
  <2>1. ASSUME next \in present PROVE getProcInfo(next) # {}
    <3>1. {s \in Slots : pid[s] = next} # {}
      BY <2>1
    <3>2. \E q \in Slots : IsFirst(q, {s \in Slots : pid[s] = next})
      BY <3>1, FirstExists
    <3>3. PICK q \in Slots : IsFirst(q, {s \in Slots : pid[s] = next})
      BY <3>2
    <3>4. Row(q) \in getProcInfo(next)
      BY <3>3 DEF getProcInfo
    <3>5. QED
      BY <3>4
  <2>2. listed \subseteq listed' /\ (next \in present => next \in listed')
    BY <1>26, <2>1 DEF PsRow
  <2>3. \A k \in present : k \in Int /\ next \in Int
    OBVIOUS
  <2>4. /\ next' = next + 1 /\ maxPid' = maxPid /\ present' = present
        /\ state' = state /\ pid' = pid /\ pc' = pc /\ p \in InPs
    BY <1>26 DEF PsRow, At, family
  <2>5. \A k \in present : k < next + 1 => k < next \/ k = next
    BY <2>3
  <2>6. QED
    BY <2>2, <2>4, <2>5
<1>27. ASSUME NEW p \in Slots, PsEnd(p) PROVE ListingOK'
  BY <1>27 DEF PsEnd, At, CloseAll, EndListing, Goto, family, sleeping,
      listing, counts
<1>28. CASE Tick
  BY <1>28 DEF Tick, family, sleeping, listing, counts
<1>29. CASE TickWakeup
  BY <1>29 DEF TickWakeup, WakeUp, family, sleeping, listing, counts
<1>30. QED
  BY <1>0, <1>1, <1>2, <1>3, <1>4, <1>5, <1>6, <1>7, <1>8, <1>9, <1>10, <1>11,
      <1>12, <1>13, <1>14, <1>15, <1>16, <1>17, <1>18, <1>19, <1>20, <1>21,
      <1>22, <1>23, <1>24, <1>25, <1>26, <1>27, <1>28, <1>29 DEF Next,
      Scheduler, Kernel, User

------------------------------------------------------------------------------
(* The invariant holds at the start. *)
LEMMA InitEstablishes == Init => IInv
<1> SUFFICES ASSUME Init PROVE IInv
  OBVIOUS
<1>1. TypeOK
  <2>1. /\ state \in [Slots -> States] /\ pc \in [Slots -> Places]
        /\ parent \in [Slots -> Slots \cup {Nobody}]
        /\ np \in [Slots -> Slots \cup {Nobody}]
        /\ killed \in [Slots -> BOOLEAN] /\ calls \in Programs
    BY DEF Init, States, Places
  <2>2. \A p \in Slots : (IF p = InitProc THEN 1 ELSE 0) \in 0 .. MaxPid
    BY Constants
  <2>3. pid \in [Slots -> 0 .. MaxPid]
    BY <2>2 DEF Init
  <2>4. nextpid \in 1 .. MaxPid + 1
    BY Constants DEF Init
  <2>5. /\ chan \in [Slots -> 0 .. TicksChan]
        /\ ofile \in [Slots -> 0 .. NOFILE]
        /\ nrswitch \in [Slots -> 0 .. MaxSwitches]
        /\ switches \in [Slots -> 0 .. MaxSwitches]
    BY InRange DEF Init
  <2>6. /\ ticks \in Uints /\ tickslock \in 0 .. Timer
        /\ n \in [Slots -> Durations \cup {0}] /\ ticks0 \in [Slots -> Uints]
        /\ elapsed \in [Slots -> 0 .. UintValues] /\ naps \in [Slots -> Nat]
    BY InRange DEF Init
  <2>7. /\ maxPid \in 0 .. MaxPid /\ next \in 0 .. MaxPid + 1
        /\ listed \subseteq 0 .. MaxPid /\ present \subseteq 1 .. MaxPid
    BY InRange DEF Init
  <2>8. QED
    BY <2>1, <2>3, <2>4, <2>5, <2>6, <2>7 DEF TypeOK
<1>2. PlacesOK /\ ForksOK /\ FieldsOK
  BY Constants DEF Init, PlacesOK, PlaceOK, ForksOK, FieldsOK
<1>3. PidsOK /\ ParentsOK
  BY Constants DEF Init, PidsOK, ParentsOK, InTable, Live
<1>4. ClockOK /\ NobodyOversleeps /\ NapsOK
  BY DEF Init, ClockOK, NobodyOversleeps, InState, NapsOK
<1>5. ElapsedOK
  BY DEF Init, ElapsedOK, InSleep
<1>6. ListingOK
  BY DEF Init, ListingOK, InPs
<1>7. QED
  BY <1>1, <1>2, <1>3, <1>4, <1>5, <1>6 DEF IInv

(* Every step preserves the invariant. *)
LEMMA Step == IInv /\ [Next]_vars => IInv'
<1> SUFFICES ASSUME IInv, [Next]_vars PROVE IInv'
  OBVIOUS
<1>1. TypeOK' /\ PlacesOK' /\ ForksOK'
  BY TypeStep, PlacesStep, ForksStep DEF IInv
<1>2. PidsOK' /\ ParentsOK' /\ FieldsOK'
  BY PidsStep, ParentsStep, FieldsStep DEF IInv
<1>3. ClockOK' /\ NobodyOversleeps' /\ ElapsedOK' /\ NapsOK'
  BY ClockStep, OversleepStep, ElapsedStep, NapsStep DEF IInv
<1>4. ListingOK'
  BY ListingStep DEF IInv
<1>5. QED
  BY <1>1, <1>2, <1>3, <1>4 DEF IInv

(* The invariant holds in every state of the machine. *)
THEOREM InductiveInvariant == Spec => []IInv
BY InitEstablishes, Step, PTL DEF Spec

(* Every variable keeps its type: pids stay in the range given out, fork's *)
(* np and parent are slots, ps asks for no pid beyond the greatest.        *)
THEOREM TypeCorrect == Spec => []TypeOK
BY InductiveInvariant, PTL DEF IInv

(* No process is asleep on ticks when its time has come, except while the  *)
(* timer is on its way to wake it: no wakeup of sys_sleep is lost.         *)
THEOREM SleepersCorrect == Spec => []NobodyOversleeps
BY InductiveInvariant, PTL DEF IInv

(* A process that is killed between its test of killed and its sleep       *)
(* sleeps once more, never twice.                                          *)
THEOREM NapsCorrect == Spec => []KilledNapOnce
<1>1. IInv => KilledNapOnce
  BY DEF IInv, NapsOK, KilledNapOnce
<1>2. QED
  BY InductiveInvariant, <1>1, PTL

(* A sleep that is not killed lasts as many ticks as asked, wherever the   *)
(* clock wraps and for every argument, read as an unsigned number.         *)
THEOREM SleepsCorrect == Spec => NeverEarly
<1>1. IInv /\ [Next]_vars => [LongEnough]_vars
  BY NeverEarlyStep DEF IInv
<1>2. QED
  BY InductiveInvariant, <1>1, PTL DEF Spec, NeverEarly, LongEnough

(* Who is in the table all the time from ps's getMaxPid to its last        *)
(* getProcInfo has a row.                                                  *)
THEOREM ListingCorrect == Spec => []StayersAreListed
<1>1. IInv => StayersAreListed
  <2> SUFFICES ASSUME IInv, next > maxPid, NEW k \in present
               PROVE  k \in listed
    BY DEF StayersAreListed
  <2>1. k \in Int /\ next \in Int /\ maxPid \in Int
    BY DEF IInv, TypeOK
  <2>2. k <= maxPid /\ (k < next => k \in listed)
    BY DEF IInv, ListingOK
  <2>3. QED
    BY <2>1, <2>2
<1>2. QED
  BY InductiveInvariant, <1>1, PTL

(* getProcInfo finds the slot of a pid that has been given out, and no     *)
(* other.                                                                  *)
LEMMA ProcInfoOf ==
  ASSUME TypeOK, PidsOK, NEW q \in Slots, pid[q] # 0
  PROVE  getProcInfo(pid[q]) = {Row(q)}
<1> DEFINE S == {s \in Slots : pid[s] = pid[q]}
<1>1. S = {q}
  BY DEF PidsOK
<1>2. {r \in Slots : IsFirst(r, S)} = {q}
  BY <1>1 DEF IsFirst, Slots
<1>3. QED
  BY <1>2 DEF getProcInfo

(* The rows ps would print for processes are as many as the total it       *)
(* prints: a row for each pid in use, and pids are given once.             *)
THEOREM TotalsCorrect == Spec => []TotalsAgree
<1>1. IInv => TotalsAgree
  <2> SUFFICES ASSUME IInv PROVE TotalsAgree
    OBVIOUS
  <2> DEFINE K == {k \in 0 .. getMaxPid :
                     \E r \in getProcInfo(k) : r.state # "UNUSED"}
             f == [q \in Used |-> pid[q]]
  <2>1. TypeOK /\ PidsOK /\ InitProc \in Used /\ Used \subseteq Slots
    BY DEF IInv, ParentsOK, Used, InState, Live
  <2>2. \A q \in Used : pid[q] \in 0 .. getMaxPid /\ pid[q] # 0
    <3>1. \A q \in Used : pid[q] <= getMaxPid /\ getMaxPid \in Int
      BY <2>1, MaxPidIsMax
    <3>2. \A q \in Used : pid[q] \in Int /\ 0 <= pid[q] /\ pid[q] # 0
      BY <2>1 DEF TypeOK, PidsOK, Used, InState
    <3>3. QED
      BY <3>1, <3>2
  <2>3. ASSUME NEW q \in Used PROVE pid[q] \in K
    <3>1. Row(q) \in getProcInfo(pid[q])
      BY <2>1, <2>2, ProcInfoOf
    <3>2. Row(q).state # "UNUSED"
      BY <2>1 DEF Row, Used, InState
    <3>3. QED
      BY <2>2, <3>1, <3>2
  <2>4. ASSUME NEW k \in K PROVE \E q \in Used : pid[q] = k
    <3>1. PICK q \in Slots : pid[q] = k /\ Row(q).state # "UNUSED"
      BY DEF getProcInfo, IsFirst
    <3>2. QED
      BY <3>1 DEF Row, Used, InState
  <2>5. f \in Bijection(Used, K)
    <3>1. f \in [Used -> K]
      BY <2>3
    <3>2. \A p, q \in Used : f[p] = f[q] => p = q
      BY <2>1, <2>2 DEF PidsOK
    <3>3. \A k \in K : \E q \in Used : f[q] = k
      BY <2>4
    <3> HIDE DEF f, K
    <3>4. QED
      BY <3>1, <3>2, <3>3 DEF Bijection, Injection, Surjection, IsInjective
  <2>6. IsFiniteSet(Used)
    <3>1. NPROC \in Int
      BY Constants
    <3>2. IsFiniteSet(Slots)
      BY <3>1, FS_Interval DEF Slots
    <3>3. QED
      BY <2>1, <3>2, FS_Subset
  <2>7. Cardinality(K) = Cardinality(Used)
    <3> HIDE DEF f, K
    <3>1. QED
      BY <2>5, <2>6, FS_Bijection DEF ExistsBijection
  <2>8. QED
    BY <2>7 DEF TotalsAgree, getNumProc
<1>2. QED
  BY InductiveInvariant, <1>1, PTL

(* The row of a process shows a living parent, no files of a zombie and    *)
(* the process' own switches.                                              *)
THEOREM RowsCorrect == Spec => []RowsAreCurrent
<1>1. IInv => RowsAreCurrent
  <2> SUFFICES ASSUME IInv, NEW q \in InTable, pid[q] \in 2 .. MaxPid,
                      NEW r \in getProcInfo(pid[q])
               PROVE  /\ \E s \in getProcInfo(r.ppid) : s.state \in Live
                      /\ r.state = "ZOMBIE" => r.nfd = 0
                      /\ r.nrswitch = switches[q]
    BY DEF RowsAreCurrent
  <2>1. TypeOK /\ PidsOK /\ q \in Slots /\ pid[q] # 0
    BY DEF IInv, InTable
  <2>2. r = Row(q)
    BY <2>1, ProcInfoOf
  <2>3. q # InitProc
    BY DEF IInv, ParentsOK
  <2>4. parent[q] \in Slots /\ state[parent[q]] \in Live
    BY <2>3, <2>1 DEF IInv, ParentsOK
  <2>5. pid[parent[q]] # 0
    BY <2>1, <2>4 DEF PidsOK, Live
  <2>6. Row(parent[q]) \in getProcInfo(pid[parent[q]])
    BY <2>1, <2>4, <2>5, ProcInfoOf
  <2>7. r.ppid = pid[parent[q]] /\ Row(parent[q]).state \in Live
    BY <2>2, <2>4, Constants DEF Row
  <2>8. r.state = "ZOMBIE" => r.nfd = 0
    BY <2>1, <2>2 DEF IInv, PlacesOK, PlaceOK, FieldsOK, Row
  <2>9. r.nrswitch = switches[q]
    BY <2>1, <2>2 DEF IInv, FieldsOK, Row
  <2>10. QED
    BY <2>6, <2>7, <2>8, <2>9
<1>2. QED
  BY InductiveInvariant, <1>1, PTL
=============================================================================
