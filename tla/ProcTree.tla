------------------------------ MODULE ProcTree ------------------------------
(***************************************************************************)
(* What fork, exit and wait promise, whatever the CPUs and the scheduler   *)
(* do: a tree of processes named by their pids.  A new process is a leaf   *)
(* below the one that forked it; one that exits stays as a zombie until    *)
(* its parent reaps it, and its children become init's.                    *)
(***************************************************************************)
CONSTANTS Pids, InitPid

VARIABLES
  alive,      \* processes that may run
  zombies,    \* processes that have exited and are not reaped
  edges       \* the pairs <<child, parent>>

vars == <<alive, zombies, edges>>

Init ==
  /\ alive = {InitPid}
  /\ zombies = {}
  /\ edges = {}

Fork(p, n) ==
  /\ p \in alive
  /\ n \notin alive \cup zombies
  /\ alive' = alive \cup {n}
  /\ edges' = edges \cup {<<n, p>>}
  /\ UNCHANGED zombies

Exit(p) ==
  /\ p \in alive \ {InitPid}
  /\ alive' = alive \ {p}
  /\ zombies' = zombies \cup {p}
  /\ edges' = {e \in edges : e[2] # p}
              \cup {<<e[1], InitPid>> : e \in {f \in edges : f[2] = p}}

(* wait, of p, returning n.                                                *)
Reap(p, n) ==
  /\ p \in alive /\ n \in zombies /\ <<n, p>> \in edges
  /\ zombies' = zombies \ {n}
  /\ edges' = {e \in edges : e[1] # n}
  /\ UNCHANGED alive

Next ==
  \E p \in Pids :
    \/ Exit(p)
    \/ \E n \in Pids : Fork(p, n) \/ Reap(p, n)

Spec == Init /\ [][Next]_vars
=============================================================================
