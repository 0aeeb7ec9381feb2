---------------------------- MODULE ShellProofs ----------------------------
(***************************************************************************)
(* Proofs about Shell, for any size of the table and any set of pids.      *)
(*                                                                         *)
(* The inductive invariant says where a child may be while the shell is    *)
(* between two prompts: not yet in the table when it has just been forked, *)
(* in a slot the scan has still to reach when it had ended before.         *)
(***************************************************************************)
EXTENDS ShellLines, FiniteSetTheorems, SequenceTheorems, TLAPS

(* A child just forked is nobody in the table, and one that runs an        *)
(* external command in the background will find a slot.                    *)
ForkedIsNew ==
  /\ pc \in {"wait", "add"} =>
       pid \in Pids /\ child[pid] # "none" /\ pid \notin Listed
  /\ pc \in {"fork", "add"} /\ cmd.background /\ cmd.kind = "external" =>
       num_processes < MAX_PROCESSES
  /\ pc = "wait" => ~cmd.background
  /\ pc = "add" => cmd.background
  /\ pc \in {"wait", "add"} /\ pid \in externals => cmd.kind = "external"

ListedOnce == ListedAreChildren /\ FilesAreClosed

(* Where the external commands' children are.                              *)
ExternalsAreSomewhere ==
  \A p \in externals : child[p] # "none" =>
    \/ pc \in {"wait", "add"} /\ p = pid
    \/ pc \notin {"kill", "exited", "failed"} /\ p \in Listed
    \/ pc = "kill" /\ \E s \in Slots : s >= i /\ processes[s] = p
    \/ pc = "failed"

(* A process that had ended before the command was read is not reaped, if  *)
(* it is listed, and not behind the scan.                                  *)
EndedAreAhead ==
  /\ pc \in {"external", "internal", "fork", "wait", "add"} =>
       \A p \in ended : child[p] = "zombie"
  /\ pc \in {"wait", "add"} => pid \notin ended
  /\ pc = "clean" =>
       /\ \A p \in ended \cap Listed : child[p] = "zombie"
       /\ \A s \in Slots : s < i => processes[s] \notin ended
  /\ EndsAreReported

IInv ==
  /\ TypeOK /\ CountIsExact /\ ForkedIsNew /\ ListedOnce
  /\ ExternalsAreSomewhere /\ EndedAreAhead

(* The occupied slots can be counted. *)
LEMMA OccupiedFinite ==
  /\ IsFiniteSet(Occupied) /\ Cardinality(Occupied) \in Nat
  /\ \A s \in Slots :
       /\ s \in Occupied => Cardinality(Occupied \ {s}) = Cardinality(Occupied) - 1
       /\ s \in Occupied => Cardinality(Occupied) > 0
       /\ s \notin Occupied => Cardinality(Occupied \cup {s}) = Cardinality(Occupied) + 1
<1>1. IsFiniteSet(Slots)
  BY FS_Interval, ShellAssumption DEF Slots
<1>2. IsFiniteSet(Occupied)
  BY <1>1, FS_Subset DEF Occupied
<1>3. \A s \in Slots : s \in Occupied =>
         Cardinality(Occupied \ {s}) = Cardinality(Occupied) - 1 /\ Cardinality(Occupied) > 0
  BY <1>2, FS_RemoveElement, FS_EmptySet, FS_CardinalityType
<1>4. QED
  BY <1>2, <1>3, FS_AddElement, FS_CardinalityType

(* The invariant holds at the start. *)
LEMMA InitEstablishes == Init => IInv
<1> SUFFICES ASSUME Init PROVE IInv
  OBVIOUS
<1>1. Occupied = {} /\ Listed = {}
  BY DEF Init, Occupied, Listed
<1>2. TypeOK
  BY ShellAssumption DEF Init, TypeOK, Commands, Kinds, Slots
<1>3. QED
  BY <1>1, <1>2, FS_EmptySet DEF Init, IInv, CountIsExact, ForkedIsNew, ListedOnce,
    ListedAreChildren, FilesAreClosed, ExternalsAreSomewhere, EndedAreAhead, EndsAreReported

(* Types are preserved. *)
LEMMA TypeStep ==
  TypeOK /\ CountIsExact /\ ForkedIsNew /\ [Next]_vars => TypeOK'
<1> SUFFICES ASSUME TypeOK, CountIsExact, ForkedIsNew, [Next]_vars PROVE TypeOK'
  OBVIOUS
<1> USE ShellAssumption, OccupiedFinite DEF TypeOK, Commands, Kinds, Slots, CountIsExact, ForkedIsNew
<1>0. CASE UNCHANGED vars
  BY <1>0 DEF vars, table, system
<1>1. CASE ReadCommand
  BY <1>1 DEF ReadCommand, Go, table, system
<1>2. CASE Refuse
  BY <1>2 DEF Refuse, Go, table, system
<1>3. CASE StartExternal
  BY <1>3 DEF StartExternal, Go, IsFull, table, system
<1>4. CASE RunInternal
  BY <1>4 DEF RunInternal, Go, table, system
<1>5. CASE StartInternal
  BY <1>5 DEF StartInternal, Go, table, system
<1>6. CASE Fork
  BY <1>6 DEF Fork, Go, table, system
<1>7. CASE ForkFails
  BY <1>7 DEF ForkFails, Go, table, system
<1>8. CASE OpenFails
  BY <1>8 DEF OpenFails, Go, table, system
<1>9. CASE WaitForeground
  BY <1>9 DEF WaitForeground, Go, table, system
<1>10. CASE AddProcess
  BY <1>10 DEF AddProcess, Go, IsFirst, Free, table, system
<1>11. CASE CleanEnded
  <2>1. i \in Occupied
    BY <1>11 DEF CleanEnded, Occupied
  <2>2. num_processes \in Nat /\ num_processes > 0
    BY <2>1, OccupiedFinite DEF Occupied
  <2> HIDE OccupiedFinite
  <2>3. num_processes - 1 \in 0 .. MAX_PROCESSES
    BY <2>2
  <2>4. QED
    BY <1>11, <2>3 DEF CleanEnded, Next_i
<1>12. CASE CleanOther
  BY <1>12 DEF CleanOther, Next_i, table, system
<1>13. CASE Cleaned
  BY <1>13 DEF Cleaned, Go, table, system
<1>14. CASE Exit
  BY <1>14 DEF Exit, Go, table, system
<1>15. CASE KillSlot
  BY <1>15 DEF KillSlot, Next_i, table, system
<1>16. CASE Killed
  BY <1>16 DEF Killed, Go, table, system
<1>17. CASE ChildEnds
  BY <1>17 DEF ChildEnds, table, system
<1>18. QED
  BY <1>0, <1>1, <1>2, <1>3, <1>4, <1>5, <1>6, <1>7, <1>8, <1>9, <1>10,
    <1>11, <1>12, <1>13, <1>14, <1>15, <1>16, <1>17 DEF Next, ShellStep

(* The count stays exact. *)
LEMMA CountStep ==
  TypeOK /\ CountIsExact /\ ForkedIsNew /\ [Next]_vars => CountIsExact'
<1> SUFFICES ASSUME TypeOK, CountIsExact, ForkedIsNew, [Next]_vars PROVE CountIsExact'
  OBVIOUS
<1> USE OccupiedFinite DEF TypeOK, CountIsExact
<1>0. CASE UNCHANGED vars
  BY <1>0 DEF vars, table, system, Occupied
<1>1. CASE ReadCommand
  BY <1>1 DEF ReadCommand, Go, table, system, Occupied
<1>2. CASE Refuse
  BY <1>2 DEF Refuse, Go, table, system, Occupied
<1>3. CASE StartExternal
  BY <1>3 DEF StartExternal, Go, IsFull, table, system, Occupied
<1>4. CASE RunInternal
  BY <1>4 DEF RunInternal, Go, table, system, Occupied
<1>5. CASE StartInternal
  BY <1>5 DEF StartInternal, Go, table, system, Occupied
<1>6. CASE Fork
  BY <1>6 DEF Fork, Go, table, system, Occupied
<1>7. CASE ForkFails
  BY <1>7 DEF ForkFails, Go, table, system, Occupied
<1>8. CASE OpenFails
  BY <1>8 DEF OpenFails, Go, table, system, Occupied
<1>9. CASE WaitForeground
  BY <1>9 DEF WaitForeground, Go, table, system, Occupied
<1>10. CASE AddProcess
  <2>1. CASE num_processes < MAX_PROCESSES
    <3>1. PICK s \in Slots : /\ s \in Free /\ processes' = [processes EXCEPT ![s] = pid]
                             /\ num_processes' = num_processes + 1
      BY <1>10, <2>1 DEF AddProcess, IsFirst
    <3>2. pid # None
      BY <1>10, ShellAssumption DEF AddProcess, ForkedIsNew
    <3>3. Occupied' = Occupied \cup {s} /\ s \notin Occupied
      BY <3>1, <3>2 DEF Occupied, Free
    <3>4. QED
      BY <3>1, <3>3
  <2>2. CASE ~(num_processes < MAX_PROCESSES)
    BY <1>10, <2>2 DEF AddProcess, table, Occupied
  <2>3. QED
    BY <2>1, <2>2
<1>11. CASE CleanEnded
  <2>1. Occupied' = Occupied \ {i} /\ i \in Occupied
    BY <1>11 DEF CleanEnded, Occupied
  <2>2. QED
    BY <1>11, <2>1 DEF CleanEnded
<1>12. CASE CleanOther
  BY <1>12 DEF CleanOther, Next_i, table, system, Occupied
<1>13. CASE Cleaned
  BY <1>13 DEF Cleaned, Go, table, system, Occupied
<1>14. CASE Exit
  BY <1>14 DEF Exit, Go, table, system, Occupied
<1>15. CASE KillSlot
  BY <1>15 DEF KillSlot, Next_i, table, system, Occupied
<1>16. CASE Killed
  BY <1>16 DEF Killed, Go, table, system, Occupied
<1>17. CASE ChildEnds
  BY <1>17 DEF ChildEnds, table, system, Occupied
<1>18. QED
  BY <1>0, <1>1, <1>2, <1>3, <1>4, <1>5, <1>6, <1>7, <1>8, <1>9, <1>10,
    <1>11, <1>12, <1>13, <1>14, <1>15, <1>16, <1>17 DEF Next, ShellStep

(* A forked child is new. *)
LEMMA ForkedStep ==
  TypeOK /\ ForkedIsNew /\ ListedOnce /\ [Next]_vars => ForkedIsNew'
<1> SUFFICES ASSUME TypeOK, ForkedIsNew, ListedOnce, [Next]_vars PROVE ForkedIsNew'
  OBVIOUS
<1> USE ShellAssumption DEF TypeOK, ForkedIsNew, ListedOnce, ListedAreChildren, Listed, Commands, Kinds
<1>0. CASE UNCHANGED vars
  BY <1>0 DEF vars, table, system
<1>1. CASE ReadCommand
  BY <1>1 DEF ReadCommand, Go, table, system
<1>2. CASE Refuse
  BY <1>2 DEF Refuse, Go, table, system
<1>3. CASE StartExternal
  BY <1>3 DEF StartExternal, Go, IsFull, table, system
<1>4. CASE RunInternal
  BY <1>4 DEF RunInternal, Go, table, system
<1>5. CASE StartInternal
  BY <1>5 DEF StartInternal, Go, table, system
<1>6. CASE Fork
  BY <1>6 DEF Fork, Go, table, system
<1>7. CASE ForkFails
  BY <1>7 DEF ForkFails, Go, table, system
<1>8. CASE OpenFails
  BY <1>8 DEF OpenFails, Go, table, system
<1>9. CASE WaitForeground
  BY <1>9 DEF WaitForeground, Go, table, system
<1>10. CASE AddProcess
  BY <1>10 DEF AddProcess, Go, IsFirst, Free, table, system
<1>11. CASE CleanEnded
  BY <1>11 DEF CleanEnded, Next_i, table, system
<1>12. CASE CleanOther
  BY <1>12 DEF CleanOther, Next_i, table, system
<1>13. CASE Cleaned
  BY <1>13 DEF Cleaned, Go, table, system
<1>14. CASE Exit
  BY <1>14 DEF Exit, Go, table, system
<1>15. CASE KillSlot
  BY <1>15 DEF KillSlot, Next_i, table, system
<1>16. CASE Killed
  BY <1>16 DEF Killed, Go, table, system
<1>17. CASE ChildEnds
  BY <1>17 DEF ChildEnds, table, system
<1>18. QED
  BY <1>0, <1>1, <1>2, <1>3, <1>4, <1>5, <1>6, <1>7, <1>8, <1>9, <1>10,
    <1>11, <1>12, <1>13, <1>14, <1>15, <1>16, <1>17 DEF Next, ShellStep

(* Listed processes are children. *)
LEMMA ListedStep ==
  TypeOK /\ ForkedIsNew /\ ListedOnce /\ [Next]_vars => ListedOnce'
<1> SUFFICES ASSUME TypeOK, ForkedIsNew, ListedOnce, [Next]_vars PROVE ListedOnce'
  OBVIOUS
<1> USE ShellAssumption DEF TypeOK, ForkedIsNew, ListedOnce, ListedAreChildren, FilesAreClosed, Listed
<1>0. CASE UNCHANGED vars
  BY <1>0 DEF vars, table, system
<1>1. CASE ReadCommand
  BY <1>1 DEF ReadCommand, Go, table, system
<1>2. CASE Refuse
  BY <1>2 DEF Refuse, Go, table, system
<1>3. CASE StartExternal
  BY <1>3 DEF StartExternal, Go, IsFull, table, system
<1>4. CASE RunInternal
  BY <1>4 DEF RunInternal, Go, table, system
<1>5. CASE StartInternal
  BY <1>5 DEF StartInternal, Go, table, system
<1>6. CASE Fork
  BY <1>6 DEF Fork, Go, table, system
<1>7. CASE ForkFails
  BY <1>7 DEF ForkFails, Go, table, system
<1>8. CASE OpenFails
  BY <1>8 DEF OpenFails, Go, table, system
<1>9. CASE WaitForeground
  BY <1>9 DEF WaitForeground, Go, table, system
<1>10. CASE AddProcess
  BY <1>10 DEF AddProcess, Go, IsFirst, Free, table, system
<1>11. CASE CleanEnded
  BY <1>11 DEF CleanEnded, Next_i, table, system
<1>12. CASE CleanOther
  BY <1>12 DEF CleanOther, Next_i, table, system
<1>13. CASE Cleaned
  BY <1>13 DEF Cleaned, Go, table, system
<1>14. CASE Exit
  BY <1>14 DEF Exit, Go, table, system
<1>15. CASE KillSlot
  BY <1>15 DEF KillSlot, Next_i, table, system
<1>16. CASE Killed
  BY <1>16 DEF Killed, Go, table, system
<1>17. CASE ChildEnds
  BY <1>17 DEF ChildEnds, table, system
<1>18. QED
  BY <1>0, <1>1, <1>2, <1>3, <1>4, <1>5, <1>6, <1>7, <1>8, <1>9, <1>10,
    <1>11, <1>12, <1>13, <1>14, <1>15, <1>16, <1>17 DEF Next, ShellStep

(* External commands stay listed. *)
LEMMA ExternalsStep ==
  TypeOK /\ ForkedIsNew /\ ListedOnce /\ ExternalsAreSomewhere /\ [Next]_vars => ExternalsAreSomewhere'
<1> SUFFICES ASSUME TypeOK, ForkedIsNew, ListedOnce, ExternalsAreSomewhere, [Next]_vars PROVE ExternalsAreSomewhere'
  OBVIOUS
<1> USE ShellAssumption DEF TypeOK, ForkedIsNew, ListedOnce, ListedAreChildren, ExternalsAreSomewhere, Listed, Slots, Commands
<1>0. CASE UNCHANGED vars
  BY <1>0 DEF vars, table, system
<1>1. CASE ReadCommand
  BY <1>1 DEF ReadCommand, Go, table, system
<1>2. CASE Refuse
  BY <1>2 DEF Refuse, Go, table, system
<1>3. CASE StartExternal
  BY <1>3 DEF StartExternal, Go, IsFull, table, system
<1>4. CASE RunInternal
  BY <1>4 DEF RunInternal, Go, table, system
<1>5. CASE StartInternal
  BY <1>5 DEF StartInternal, Go, table, system
<1>6. CASE Fork
  BY <1>6 DEF Fork, Go, table, system
<1>7. CASE ForkFails
  BY <1>7 DEF ForkFails, Go, table, system
<1>8. CASE OpenFails
  BY <1>8 DEF OpenFails, Go, table, system
<1>9. CASE WaitForeground
  BY <1>9 DEF WaitForeground, Go, table, system
<1>10. CASE AddProcess
  <2>1. CASE num_processes < MAX_PROCESSES
    <3>1. PICK s \in Slots : processes[s] = None /\ processes' = [processes EXCEPT ![s] = pid]
      BY <1>10, <2>1 DEF AddProcess, IsFirst, Free
    <3>2. Listed' = Listed \cup {pid}
      BY <3>1, <1>10 DEF AddProcess
    <3>3. QED
      BY <3>2, <1>10 DEF AddProcess, Go, system
  <2>2. CASE ~(num_processes < MAX_PROCESSES)
    BY <1>10, <2>2 DEF AddProcess, Go, system, table
  <2>3. QED
    BY <2>1, <2>2
<1>11. CASE CleanEnded
  BY <1>11 DEF CleanEnded, Next_i, table, system
<1>12. CASE CleanOther
  BY <1>12 DEF CleanOther, Next_i, table, system
<1>13. CASE Cleaned
  BY <1>13 DEF Cleaned, Go, table, system
<1>14. CASE Exit
  BY <1>14 DEF Exit, Go, table, system
<1>15. CASE KillSlot
  BY <1>15 DEF KillSlot, Next_i, table, system
<1>16. CASE Killed
  BY <1>16 DEF Killed, Go, table, system
<1>17. CASE ChildEnds
  BY <1>17 DEF ChildEnds, table, system
<1>18. QED
  BY <1>0, <1>1, <1>2, <1>3, <1>4, <1>5, <1>6, <1>7, <1>8, <1>9, <1>10,
    <1>11, <1>12, <1>13, <1>14, <1>15, <1>16, <1>17 DEF Next, ShellStep

(* Ended processes are ahead of the scan. *)
LEMMA EndedStep ==
  TypeOK /\ ForkedIsNew /\ ListedOnce /\ EndedAreAhead /\ [Next]_vars => EndedAreAhead'
<1> SUFFICES ASSUME TypeOK, ForkedIsNew, ListedOnce, EndedAreAhead, [Next]_vars PROVE EndedAreAhead'
  OBVIOUS
<1> USE ShellAssumption DEF TypeOK, ForkedIsNew, ListedOnce, ListedAreChildren, EndedAreAhead, EndsAreReported, Listed, Slots
<1>0. CASE UNCHANGED vars
  BY <1>0 DEF vars, table, system
<1>1. CASE ReadCommand
  BY <1>1 DEF ReadCommand, Go, table, system
<1>2. CASE Refuse
  BY <1>2 DEF Refuse, Go, table, system
<1>3. CASE StartExternal
  BY <1>3 DEF StartExternal, Go, IsFull, table, system
<1>4. CASE RunInternal
  BY <1>4 DEF RunInternal, Go, table, system
<1>5. CASE StartInternal
  BY <1>5 DEF StartInternal, Go, table, system
<1>6. CASE Fork
  BY <1>6 DEF Fork, Go, table, system
<1>7. CASE ForkFails
  BY <1>7 DEF ForkFails, Go, table, system
<1>8. CASE OpenFails
  BY <1>8 DEF OpenFails, Go, table, system
<1>9. CASE WaitForeground
  BY <1>9 DEF WaitForeground, Go, table, system
<1>10. CASE AddProcess
  BY <1>10 DEF AddProcess, Go, IsFirst, Free, table, system
<1>11. CASE CleanEnded
  BY <1>11 DEF CleanEnded, Next_i, table, system
<1>12. CASE CleanOther
  BY <1>12 DEF CleanOther, Next_i, table, system
<1>13. CASE Cleaned
  BY <1>13 DEF Cleaned, Go, table, system
<1>14. CASE Exit
  BY <1>14 DEF Exit, Go, table, system
<1>15. CASE KillSlot
  BY <1>15 DEF KillSlot, Next_i, table, system
<1>16. CASE Killed
  BY <1>16 DEF Killed, Go, table, system
<1>17. CASE ChildEnds
  BY <1>17 DEF ChildEnds, table, system
<1>18. QED
  BY <1>0, <1>1, <1>2, <1>3, <1>4, <1>5, <1>6, <1>7, <1>8, <1>9, <1>10,
    <1>11, <1>12, <1>13, <1>14, <1>15, <1>16, <1>17 DEF Next, ShellStep

(* The invariant holds in every state of the shell. *)
THEOREM InductiveInvariant == Spec => []IInv
<1>1. IInv /\ [Next]_vars => IInv'
  BY TypeStep, CountStep, ForkedStep, ListedStep, ExternalsStep, EndedStep DEF IInv
<1>2. QED
  BY InitEstablishes, <1>1, PTL DEF Spec

(* The shell's variables keep their types; in particular the count stays   *)
(* between 0 and the size of the table.                                    *)
THEOREM TypeCorrect == Spec => []TypeOK
BY InductiveInvariant, PTL DEF IInv

(* num_processes counts the occupied slots.                                *)
THEOREM CountCorrect == Spec => []CountIsExact
BY InductiveInvariant, PTL DEF IInv

(* A listed pid is a child that has not been reaped, listed once.          *)
THEOREM ListCorrect == Spec => []ListedAreChildren
BY InductiveInvariant, PTL DEF IInv, ListedOnce

(* No file stays open for a child that has been reaped.                    *)
THEOREM FilesCorrect == Spec => []FilesAreClosed
BY InductiveInvariant, PTL DEF IInv, ListedOnce

(* External commands in the background are in the table until reaped.      *)
THEOREM BackgroundCorrect == Spec => []BackgroundIsListed
<1>1. IInv => BackgroundIsListed
  BY DEF IInv, ExternalsAreSomewhere, BackgroundIsListed
<1>2. QED
  BY InductiveInvariant, <1>1, PTL

(* Each end is reported by the next valid command.                         *)
THEOREM ReportsCorrect == Spec => []EndsAreReported
BY InductiveInvariant, PTL DEF IInv, EndedAreAhead

(* exit leaves no external command behind.                                 *)
THEOREM ExitCorrect == Spec => []NobodyIsLeft
<1>1. IInv => NobodyIsLeft
  BY DEF IInv, ExternalsAreSomewhere, NobodyIsLeft
<1>2. QED
  BY InductiveInvariant, <1>1, PTL

(* Whatever lines are typed, and whatever they leave in redirect_file and  *)
(* open, the shell takes the steps of Shell: all of the above is true of   *)
(* it too.                                                                 *)
THEOREM LinesAreCommands == LinesSpec => Spec
<1>1. LinesInit => Init
  BY DEF LinesInit
<1>2. ASSUME LinesNext PROVE [Next]_vars
  <2>1. CASE ReadLine
    BY <2>1 DEF ReadLine, Next, ShellStep
  <2>2. CASE InternalLine
    BY <2>2 DEF InternalLine, Next, ShellStep
  <2>3. CASE InBackground
    BY <2>3 DEF InBackground, Next, ShellStep
  <2>4. CASE OpenAndFork
    BY <2>4 DEF OpenAndFork, Next, ShellStep
  <2>5. CASE Others
    BY <2>5 DEF Others, Next, ShellStep
  <2>6. QED
    BY <1>2, <2>1, <2>2, <2>3, <2>4, <2>5 DEF LinesNext
<1>3. UNCHANGED lineVars => UNCHANGED vars
  BY DEF lineVars
<1>4. QED
  BY <1>1, <1>2, <1>3, PTL DEF LinesSpec, Spec

(* However many descriptors the shell has left open, stdout is put back.   *)
THEOREM StdoutCorrect == LinesSpec => []StdoutIsBack
<1> DEFINE Inv == dups \in Nat /\ stdout = "terminal"
<1>1. LinesInit => Inv
  BY DEF LinesInit
<1>2. ASSUME Inv, [LinesNext]_lineVars PROVE Inv'
  <2>1. CASE ReadLine
    BY <1>2, <2>1 DEF ReadLine, descriptors
  <2>2. CASE InternalLine
    BY <1>2, <2>2 DEF InternalLine, RunRedirected, Dup
  <2>3. CASE InBackground
    BY <1>2, <2>3 DEF InBackground, Dup
  <2>4. CASE OpenAndFork
    BY <1>2, <2>4 DEF OpenAndFork, descriptors
  <2>5. CASE Others
    BY <1>2, <2>5 DEF Others, descriptors
  <2>6. CASE UNCHANGED lineVars
    BY <1>2, <2>6 DEF lineVars, descriptors
  <2>7. QED
    BY <1>2, <2>1, <2>2, <2>3, <2>4, <2>5, <2>6 DEF LinesNext
<1>3. Inv => StdoutIsBack
  BY DEF StdoutIsBack
<1>4. QED
  BY <1>1, <1>2, <1>3, PTL DEF LinesSpec

(* Sequences of one word and of two.                                       *)
LEMMA OneOrTwo ==
  ASSUME NEW S, NEW x \in S, NEW y \in S
  PROVE  /\ <<x>> \in Seq(S) /\ Len(<<x>>) = 1 /\ <<x>>[1] = x
         /\ <<x, y>> \in Seq(S) /\ Len(<<x, y>>) = 2 /\ <<x, y>>[1] = x /\ <<x, y>>[2] = y
OBVIOUS

(* A sequence, and what was appended to it.                                *)
LEMMA Appended ==
  ASSUME NEW a \in Seq(Words), NEW c \in Seq(Words), NEW d, d = a \o c
  PROVE  /\ d \in Seq(Words) /\ Len(d) = Len(a) + Len(c)
         /\ Len(a) \in Nat /\ Len(c) \in Nat /\ DOMAIN d = 1 .. Len(d)
         /\ \A j \in 1 .. Len(a) : d[j] = a[j]
         /\ \A j \in 1 .. Len(c) : d[Len(a) + j] = c[j]
         /\ SubSeq(d, 1, Len(a)) = a
<1>1. /\ d \in Seq(Words) /\ Len(d) = Len(a) + Len(c)
      /\ \A j \in 1 .. Len(a) + Len(c) :
           d[j] = IF j <= Len(a) THEN a[j] ELSE c[j - Len(a)]
  BY ConcatProperties
<1>2. Len(a) \in Nat /\ Len(c) \in Nat /\ DOMAIN d = 1 .. Len(d)
  BY <1>1, LenProperties
<1>3. ASSUME NEW j \in 1 .. Len(a) PROVE d[j] = a[j]
  BY <1>1, <1>2
<1>4. ASSUME NEW j \in 1 .. Len(c) PROVE d[Len(a) + j] = c[j]
  BY <1>1, <1>2
<1>5. SubSeq(d, 1, Len(a)) = a
  <2> DEFINE e == SubSeq(d, 1, Len(a))
  <2>1. \A j \in 1 .. Len(a) : d[j] \in Words
    BY <1>1, <1>2, ElementOfSeq
  <2>2. /\ e \in Seq(Words) /\ Len(e) = Len(a)
        /\ \A j \in 1 .. Len(a) : e[j] = d[j]
    <3>1. /\ SubSeq(d, 1, Len(a)) \in Seq(Words)
          /\ Len(SubSeq(d, 1, Len(a))) = IF 1 <= Len(a) THEN Len(a) - 1 + 1 ELSE 0
          /\ \A j \in 1 .. Len(a) - 1 + 1 : SubSeq(d, 1, Len(a))[j] = d[1 + j - 1]
      BY <2>1, <1>2, SubSeqProperties
    <3>2. QED
      BY <3>1, <1>2
  <2>3. \A j \in 1 .. Len(e) : e[j] = a[j]
    BY <2>2, <1>3
  <2> HIDE DEF e
  <2>4. e = a
    BY <2>2, <2>3, SeqEqual
  <2>5. QED
    BY <2>4 DEF e
<1>6. QED
  BY <1>1, <1>2, <1>3, <1>4, <1>5

(* The & at the end of a line is taken off.                                *)
LEMMA AmpTakenOff ==
  ASSUME NEW a \in Seq(Words), NEW l, l = a \o <<"&">>
  PROVE  WithoutAmp(l) = a /\ is_background_command(l)
<1>0. "&" \in Words
  BY LinesAssumption
<1>1. <<"&">> \in Seq(Words) /\ Len(<<"&">>) = 1 /\ <<"&">>[1] = "&"
  BY <1>0, OneOrTwo
<1>2. /\ l \in Seq(Words) /\ Len(l) = Len(a) + 1 /\ Len(a) \in Nat
      /\ DOMAIN l = 1 .. Len(l)
      /\ l[Len(a) + 1] = "&" /\ SubSeq(l, 1, Len(a)) = a
  BY <1>1, Appended
<1>3. l # <<>>
  BY <1>2, EmptySeq
<1>4. Len(l) - 1 = Len(a)
  BY <1>2
<1>5. QED
  BY <1>2, <1>3, <1>4 DEF WithoutAmp, is_background_command

(* A line without > is left alone.                                         *)
LEMMA NoArrow ==
  ASSUME NEW a \in Seq(Words), Plain(a)
  PROVE  Args(a) = a /\ ~Redirect(a) /\ ~is_background_command(a)
<1>1. Arrows(a) = {}
  BY DEF Arrows, Plain
<1>2. ~is_background_command(a)
  <2>1. Len(a) \in Nat /\ DOMAIN a = 1 .. Len(a)
    BY LenProperties
  <2>2. a # <<>> => Len(a) # 0
    BY EmptySeq
  <2>3. a # <<>> => Len(a) \in DOMAIN a
    BY <2>1, <2>2
  <2>4. QED
    BY <2>3 DEF is_background_command, Plain
<1>3. QED
  BY <1>1, <1>2 DEF Args, Redirect

(* The redirection at the end of a line is taken off, its file copied.     *)
LEMMA ArrowTakenOff ==
  ASSUME NEW a \in Seq(Words), Plain(a), NEW file \in Words, file \notin {">", "&"},
         NEW b, b = a \o <<">", file>>
  PROVE  /\ b \in Seq(Words) /\ ~is_background_command(b)
         /\ Args(b) = a /\ Redirect(b) /\ RedirectFile(b) = file
<1> DEFINE k == Len(a)
<1>0. ">" \in Words
  BY LinesAssumption
<1>1. /\ <<">", file>> \in Seq(Words) /\ Len(<<">", file>>) = 2
      /\ <<">", file>>[1] = ">" /\ <<">", file>>[2] = file
  BY <1>0, OneOrTwo
<1>2. /\ b \in Seq(Words) /\ Len(b) = k + 2 /\ k \in Nat /\ DOMAIN b = 1 .. Len(b)
      /\ \A j \in 1 .. k : b[j] = a[j]
      /\ \A j \in 1 .. 2 : b[k + j] = <<">", file>>[j]
      /\ SubSeq(b, 1, k) = a
  BY <1>1, Appended
<1>3. b[k + 1] = ">" /\ b[k + 2] = file
  <2>1. 1 \in 1 .. 2 /\ 2 \in 1 .. 2
    OBVIOUS
  <2>2. QED
    BY <1>1, <1>2, <2>1
<1>4. \A j \in 1 .. k : b[j] # ">"
  BY <1>2, LenProperties DEF Plain
<1> HIDE DEF k
<1>5. Arrows(b) = {k + 1}
  <2>1. ASSUME NEW j \in DOMAIN b, b[j] = ">" PROVE j = k + 1
    <3>1. j \in Int /\ j >= 1 /\ j <= k + 2
      BY <1>2
    <3>2. j # k + 2
      BY <2>1, <1>3
    <3>3. ~(j <= k)
      BY <2>1, <1>4, <3>1, <1>2
    <3>4. QED
      BY <3>1, <3>2, <3>3, <1>2
  <2>2. k + 1 \in DOMAIN b
    BY <1>2
  <2>3. QED
    BY <2>1, <2>2, <1>3 DEF Arrows
<1>6. Len(b) - 2 = k /\ k + 1 < Len(b) /\ (k + 1) + 1 = k + 2
  BY <1>2
<1>7. Args(b) = a /\ Redirect(b)
  BY <1>2, <1>5, <1>6 DEF Args, Redirect
<1>8. RedirectFile(b) = file
  <2>1. (CHOOSE m \in {k + 1} : \A j \in {k + 1} : m <= j) = k + 1
    <3>1. k + 1 <= k + 1
      BY <1>2
    <3>2. QED
      BY <3>1
  <2> DEFINE first == CHOOSE m \in Arrows(b) : \A j \in Arrows(b) : m <= j
  <2>2. first = k + 1
    BY <2>1, <1>5
  <2>3. Arrows(b) # {} /\ first < Len(b) /\ b[first + 1] = file
    <3>1. (k + 1) < Len(b) /\ b[(k + 1) + 1] = file
      BY <1>3, <1>6
    <3>2. QED
      BY <2>2, <3>1, <1>5
  <2>4. RedirectFile(b) = IF Arrows(b) # {} /\ first < Len(b) THEN b[first + 1] ELSE redirect_file
    BY DEF RedirectFile
  <2> HIDE DEF first
  <2>5. QED
    BY <2>3, <2>4
<1>9. ~is_background_command(b)
  BY <1>2, <1>3 DEF is_background_command
<1>10. QED
  BY <1>2, <1>7, <1>8, <1>9

(* What parse_command makes of a complete line, redirect_file being        *)
(* whatever it is.                                                         *)
LEMMA CompleteLine ==
  ASSUME NEW l \in Seq(Words), NEW k \in DOMAIN l, NEW background \in BOOLEAN,
         NEW file \in {NoFile} \cup ({l[j] : j \in DOMAIN l} \ {">", "&"}),
         NEW a, a = SubSeq(l, 1, k), Plain(a), l = Said(a, file, background)
  PROVE  /\ Args(WithoutAmp(l)) = a
         /\ is_background_command(l) <=> background
         /\ Redirect(WithoutAmp(l)) <=> file # NoFile
         /\ file # NoFile => RedirectFile(WithoutAmp(l)) = file
<1>1. a \in Seq(Words)
  <2>1. DOMAIN l = 1 .. Len(l) /\ Len(l) \in Nat
    BY LenProperties
  <2>2. k \in Int /\ 1 <= k /\ k <= Len(l)
    BY <2>1
  <2>3. 1 \in Int /\ k \in Int /\ \A j \in 1 .. k : l[j] \in Words
    <3>1. ASSUME NEW j \in 1 .. k PROVE j \in 1 .. Len(l)
      BY <2>1, <2>2
    <3>2. QED
      BY <2>2, <3>1, ElementOfSeq
  <2>4. QED
    BY <2>3, SubSeqProperties
<1>2. file # NoFile => file \in Words
  BY LenProperties, ElementOfSeq
<1>3. CASE file = NoFile
  <2>1. l = a \o (IF background THEN <<"&">> ELSE <<>>)
    BY <1>1, <1>3, ConcatEmptySeq DEF Said
  <2>2. WithoutAmp(l) = a /\ (is_background_command(l) <=> background)
    <3>1. CASE background
      BY <2>1, <3>1, <1>1, AmpTakenOff
    <3>2. CASE ~background
      <4>1. l = a
        BY <2>1, <3>2, <1>1, ConcatEmptySeq
      <4>2. QED
        BY <4>1, <3>2, <1>1, NoArrow DEF WithoutAmp
    <3>3. QED
      BY <3>1, <3>2
  <2>3. QED
    BY <2>2, <1>1, <1>3, NoArrow
<1>4. CASE file # NoFile
  <2> DEFINE b == a \o <<">", file>>
  <2>1. /\ b \in Seq(Words) /\ ~is_background_command(b)
        /\ Args(b) = a /\ Redirect(b) /\ RedirectFile(b) = file
    BY <1>1, <1>2, <1>4, ArrowTakenOff
  <2>2. l = b \o (IF background THEN <<"&">> ELSE <<>>)
    BY <1>4 DEF Said
  <2> HIDE DEF b
  <2>3. WithoutAmp(l) = b /\ (is_background_command(l) <=> background)
    <3>1. CASE background
      BY <2>1, <2>2, <3>1, AmpTakenOff
    <3>2. CASE ~background
      <4>1. l = b
        BY <2>1, <2>2, <3>2, ConcatEmptySeq
      <4>2. QED
        BY <4>1, <2>1, <3>2 DEF WithoutAmp
    <3>3. QED
      BY <3>1, <3>2
  <2>4. QED
    BY <2>1, <2>3, <1>4
<1>5. QED
  BY <1>3, <1>4

(* A complete line is carried out as it says, for any lines, whatever the  *)
(* lines before it have left in redirect_file.                             *)
THEOREM LinesCorrect == LinesSpec => []LinesAreMeant
<1>1. LinesInit => LinesAreMeant
  BY DEF LinesInit, Init, LinesAreMeant
<1>2. ASSUME LinesAreMeant, [LinesNext]_lineVars PROVE LinesAreMeant'
  <2>1. CASE ReadLine
    <3>1. CASE pc' = "prompt"
      BY <3>1 DEF LinesAreMeant
    <3>2. CASE pc' # "prompt"
      <4>1. PICK l \in Lines :
              /\ line' = l /\ args' = Args(WithoutAmp(l))
              /\ redirect_file' = RedirectFile(WithoutAmp(l))
              /\ cmd' = [kind |-> KindOf(l, Args(WithoutAmp(l))),
                         redirect |-> Redirect(WithoutAmp(l)),
                         background |-> is_background_command(l)]
        BY <2>1, <3>2 DEF ReadLine, vars
      <4>2. l \in Seq(Words)
        BY LinesAssumption
      <4>3. cmd'.background = is_background_command(l) /\ cmd'.redirect = Redirect(WithoutAmp(l))
        BY <4>1
      <4>4. /\ is_background_command(l) \in BOOLEAN
            /\ Redirect(WithoutAmp(l)) \in BOOLEAN
        BY DEF is_background_command, Redirect
      <4>5. SUFFICES ASSUME NEW k \in DOMAIN l, NEW background \in BOOLEAN,
                       NEW file \in {NoFile} \cup ({l[j] : j \in DOMAIN l} \ {">", "&"}),
                       Plain(SubSeq(l, 1, k)), l = Said(SubSeq(l, 1, k), file, background)
              PROVE  /\ args' = SubSeq(l, 1, k) /\ cmd'.background = background
                     /\ cmd'.redirect = (file # NoFile)
                     /\ file # NoFile => redirect_file' = file
        BY <4>1 DEF LinesAreMeant
      <4>6. /\ Args(WithoutAmp(l)) = SubSeq(l, 1, k)
            /\ is_background_command(l) <=> background
            /\ Redirect(WithoutAmp(l)) <=> file # NoFile
            /\ file # NoFile => RedirectFile(WithoutAmp(l)) = file
        BY <4>2, <4>5, CompleteLine
      <4>7. QED
        BY <4>1, <4>3, <4>4, <4>6
    <3>3. QED
      BY <3>1, <3>2
  <2>2. CASE InternalLine
    BY <2>2 DEF InternalLine, RunInternal, Go, LinesAreMeant
  <2>3. CASE InBackground
    BY <2>3 DEF InBackground, StartInternal, Go, LinesAreMeant
  <2>4. CASE OpenAndFork
    BY <2>4 DEF OpenAndFork, Fork, Go, LinesAreMeant
  <2>5. CASE Others
    <3>1. CASE ChildEnds
      BY <1>2, <2>5, <3>1 DEF Others, ChildEnds, words, LinesAreMeant
    <3>2. CASE ~ChildEnds
      <4>1. pc' \notin {"external", "internal"}
        BY <2>5, <3>2 DEF Others, Refuse, StartExternal, ForkFails, OpenFails,
          WaitForeground, AddProcess, CleanEnded, CleanOther, Cleaned, Exit, KillSlot,
          Killed, Go, Next_i
      <4>2. QED
        BY <4>1 DEF LinesAreMeant
    <3>3. QED
      BY <3>1, <3>2
  <2>6. CASE UNCHANGED lineVars
    BY <1>2, <2>6 DEF lineVars, vars, words, LinesAreMeant
  <2>7. QED
    BY <1>2, <2>1, <2>2, <2>3, <2>4, <2>5, <2>6 DEF LinesNext
<1>3. QED
  BY <1>1, <1>2, PTL DEF LinesSpec
=============================================================================
