------------------------------- MODULE Shell -------------------------------
(***************************************************************************)
(* HW1: the shell's loop (main.c) and its table of background processes    *)
(* (process_manager.c).  One command is read, run and followed by a scan   *)
(* of the table that reaps what has ended; children end whenever they      *)
(* like, and the system gives the pid of a reaped child to a new one.      *)
(*                                                                         *)
(* What a command says is left out; it is an external command, cd or jobs  *)
(* ("builtin"), exit, or empty, in the background or not, with its output  *)
(* redirected or not.                                                      *)
(***************************************************************************)
EXTENDS Naturals, FiniteSets

CONSTANTS
  MAX_PROCESSES,
  Pids,           \* the pids the system has to give
  None            \* pid = -1 in a slot

ASSUME ShellAssumption ==
  /\ MAX_PROCESSES \in Nat \ {0}
  /\ None \notin Pids

Slots == 1 .. MAX_PROCESSES

Kinds == {"external", "builtin", "exit", "empty"}
Commands == [kind : Kinds, background : BOOLEAN, redirect : BOOLEAN]

VARIABLES
  processes,      \* the pid in each slot of the process manager
  num_processes,
  child,          \* what the system knows of each pid
  files,          \* the children whose redirect file the shell holds open
  pc, i,          \* where the shell is; the slot of the loop it is in
  cmd, pid,       \* the command, and the child forked for it
  externals,      \* history: children that run an external command
  ended           \* history: children that had ended when cmd was read

table == <<processes, num_processes>>
system == <<child, files>>
vars == <<table, system, pc, i, cmd, pid, externals, ended>>

Listed == {processes[s] : s \in Slots} \ {None}

TypeOK ==
  /\ processes \in [Slots -> Pids \cup {None}]
  /\ num_processes \in 0 .. MAX_PROCESSES
  /\ child \in [Pids -> {"none", "running", "zombie"}]
  /\ files \subseteq Pids
  /\ pc \in {"prompt", "external", "internal", "fork", "wait", "add", "clean",
             "kill", "exited", "failed"}
  /\ i \in 1 .. MAX_PROCESSES + 1
  /\ cmd \in Commands
  /\ pid \in Pids \cup {None}
  /\ externals \subseteq Pids
  /\ ended \subseteq Pids

Init ==
  /\ processes = [s \in Slots |-> None]
  /\ num_processes = 0
  /\ child = [p \in Pids |-> "none"]
  /\ files = {}
  /\ pc = "prompt" /\ i = 1
  /\ cmd = [kind |-> "empty", background |-> FALSE, redirect |-> FALSE]
  /\ pid = None
  /\ externals = {} /\ ended = {}

Go(place) == pc' = place /\ i' = 1

(* A line is read and parsed.  (After an invalid one the next is read.)    *)
ReadCommand ==
  /\ pc = "prompt"
  /\ \E c \in Commands :
       /\ cmd' = c
       /\ Go(IF c.kind = "external" THEN "external" ELSE "internal")
  /\ pid' = None
  /\ ended' = {p \in Pids : child[p] = "zombie"}
  /\ UNCHANGED <<table, system, externals>>

------------------------------------------------------------------------------
(* run_external_process and run_internal_process *)

IsFull == num_processes = MAX_PROCESSES

(* Mutant: a refused command returns at once. *)
Refuse_NoClean ==
  /\ pc = "external" /\ cmd.background /\ IsFull
  /\ Go("prompt")
  /\ UNCHANGED <<table, system, cmd, pid, externals, ended>>

(* "too many background commands running"                                  *)
Refuse ==
  /\ pc = "external" /\ cmd.background /\ IsFull
  /\ Go("clean")
  /\ UNCHANGED <<table, system, cmd, pid, externals, ended>>

(* Mutant: the table may already be full. *)
StartExternal_Unchecked ==
  /\ pc = "external"
  /\ Go("fork")
  /\ UNCHANGED <<table, system, cmd, pid, externals, ended>>

StartExternal ==
  /\ pc = "external" /\ ~(cmd.background /\ IsFull)
  /\ Go("fork")
  /\ UNCHANGED <<table, system, cmd, pid, externals, ended>>

(* cd and jobs in the foreground; the file they write is closed again.  An *)
(* empty command, and exit with & or >, do nothing.                        *)
RunInternal ==
  /\ pc = "internal"
  /\ \/ cmd.kind = "empty"
     \/ cmd.kind = "exit" /\ (cmd.background \/ cmd.redirect)
     \/ cmd.kind = "builtin" /\ ~cmd.background
  /\ Go("clean")
  /\ UNCHANGED <<table, system, cmd, pid, externals, ended>>

(* cd and jobs in the background run in a child too; no test of is_full.   *)
StartInternal ==
  /\ pc = "internal" /\ cmd.kind = "builtin" /\ cmd.background
  /\ Go("fork")
  /\ UNCHANGED <<table, system, cmd, pid, externals, ended>>

(* fopen, if the output is redirected, and fork.                           *)
Fork ==
  /\ pc = "fork"
  /\ \E p \in {q \in Pids : child[q] = "none"} :
       /\ child' = [child EXCEPT ![p] = "running"]
       /\ files' = IF cmd.redirect THEN files \cup {p} ELSE files
       /\ pid' = p
       /\ externals' = IF cmd.kind = "external" THEN externals \cup {p}
                       ELSE externals \ {p}
  /\ Go(IF cmd.background THEN "add" ELSE "wait")
  /\ UNCHANGED <<table, cmd, ended>>

(* exit(1)                                                                 *)
ForkFails ==
  /\ pc = "fork"
  /\ Go("failed")
  /\ UNCHANGED <<table, system, cmd, pid, externals, ended>>

(* fopen gives NULL, and fileno(NULL) ends the shell.                      *)
OpenFails ==
  /\ cmd.redirect
  /\ pc = "fork" \/ (pc = "internal" /\ cmd.kind = "builtin" /\ ~cmd.background)
  /\ Go("failed")
  /\ UNCHANGED <<table, system, cmd, pid, externals, ended>>

(* waitpid(pid, &status, 0) and fclose.                                    *)
WaitForeground ==
  /\ pc = "wait"
  /\ child[pid] = "zombie"
  /\ child' = [child EXCEPT ![pid] = "none"]
  /\ files' = files \ {pid}
  /\ Go("clean")
  /\ UNCHANGED <<table, cmd, pid, externals, ended>>

------------------------------------------------------------------------------
(* The process manager *)

Free == {s \in Slots : processes[s] = None}

IsFirst(s, set) == s \in set /\ \A t \in set : s <= t

(* add_process: the first free slot; nothing if the table is full.         *)
AddProcess ==
  /\ pc = "add"
  /\ IF num_processes < MAX_PROCESSES
     THEN \E s \in Slots :
            /\ IsFirst(s, Free)
            /\ processes' = [processes EXCEPT ![s] = pid]
            /\ num_processes' = num_processes + 1
     ELSE UNCHANGED table
  /\ Go("clean")
  /\ UNCHANGED <<system, cmd, pid, externals, ended>>

Next_i == i' = i + 1 /\ UNCHANGED pc

(* Mutant: the slot keeps its pid. *)
CleanEnded_KeepsPid ==
  /\ pc = "clean" /\ i \in Slots
  /\ processes[i] # None /\ child[processes[i]] # "running"
  /\ child' = [child EXCEPT ![processes[i]] = "none"]
  /\ files' = files \ {processes[i]}
  /\ num_processes' = num_processes - 1
  /\ Next_i
  /\ UNCHANGED <<processes, cmd, pid, externals, ended>>

(* clean_finished_processes, slot i: waitpid(.., WNOHANG) reaps it, or fails.*)
CleanEnded ==
  /\ pc = "clean" /\ i \in Slots
  /\ processes[i] # None /\ child[processes[i]] # "running"
  /\ child' = [child EXCEPT ![processes[i]] = "none"]
  /\ files' = files \ {processes[i]}
  /\ processes' = [processes EXCEPT ![i] = None]
  /\ num_processes' = num_processes - 1
  /\ Next_i
  /\ UNCHANGED <<cmd, pid, externals, ended>>

(* The slot is empty or its child is running.                              *)
CleanOther ==
  /\ pc = "clean" /\ i \in Slots
  /\ processes[i] # None => child[processes[i]] = "running"
  /\ Next_i
  /\ UNCHANGED <<table, system, cmd, pid, externals, ended>>

Cleaned ==
  /\ pc = "clean" /\ i \notin Slots
  /\ Go("prompt")
  /\ UNCHANGED <<table, system, cmd, pid, externals, ended>>

Exit ==
  /\ pc = "internal"
  /\ cmd.kind = "exit" /\ ~cmd.background /\ ~cmd.redirect
  /\ Go("kill")
  /\ UNCHANGED <<table, system, cmd, pid, externals, ended>>

(* Mutant: the loop ends at the number of processes. *)
KillSlot_OnlyCount ==
  /\ pc = "kill" /\ i \in Slots
  /\ IF processes[i] # None /\ i <= num_processes
     THEN /\ child' = [child EXCEPT ![processes[i]] = "none"]
          /\ files' = files \ {processes[i]}
     ELSE UNCHANGED system
  /\ Next_i
  /\ UNCHANGED <<table, cmd, pid, externals, ended>>

(* kill_all_processes, slot i: kill, fclose and waitpid.                   *)
KillSlot ==
  /\ pc = "kill" /\ i \in Slots
  /\ IF processes[i] # None
     THEN /\ child' = [child EXCEPT ![processes[i]] = "none"]
          /\ files' = files \ {processes[i]}
     ELSE UNCHANGED system
  /\ Next_i
  /\ UNCHANGED <<table, cmd, pid, externals, ended>>

Killed ==
  /\ pc = "kill" /\ i \notin Slots
  /\ Go("exited")
  /\ UNCHANGED <<table, system, cmd, pid, externals, ended>>

ShellStep ==
  \/ ReadCommand \/ Refuse \/ StartExternal \/ RunInternal \/ StartInternal
  \/ Fork \/ ForkFails \/ OpenFails \/ WaitForeground \/ AddProcess
  \/ CleanEnded \/ CleanOther \/ Cleaned \/ Exit \/ KillSlot \/ Killed

(* A child ends.                                                           *)
ChildEnds ==
  /\ \E p \in Pids :
       /\ child[p] = "running"
       /\ child' = [child EXCEPT ![p] = "zombie"]
  /\ UNCHANGED <<table, files, pc, i, cmd, pid, externals, ended>>

Next == ShellStep \/ ChildEnds

Spec == Init /\ [][Next]_vars

------------------------------------------------------------------------------
(* Properties *)

(* The count of background processes is the number of occupied slots, so   *)
(* that "too many background commands" is said of a full table and an      *)
(* external command always finds its slot.                                 *)
Occupied == {s \in Slots : processes[s] # None}

CountIsExact == num_processes = Cardinality(Occupied)

(* Until it exits, the shell only lists children it has not reaped, each   *)
(* once: waitpid and kill never name a pid that is another process by now. *)
ListedAreChildren ==
  pc \notin {"kill", "exited"} =>
    /\ \A p \in Listed : child[p] # "none"
    /\ \A s, t \in Slots : processes[s] = processes[t] /\ processes[s] # None => s = t

(* An external command started in the background is in the table until it  *)
(* has been reaped.  (cd and jobs in the background may find it full.)     *)
BackgroundIsListed ==
  pc \in {"prompt", "external", "internal", "clean"} =>
    \A p \in externals : child[p] # "none" => p \in Listed

(* When the shell asks for a new command, no process is listed that had    *)
(* ended before it read the last one: each end is reported by the next     *)
(* valid command.                                                          *)
EndsAreReported ==
  pc = "prompt" => Listed \cap ended = {}

(* The file a command's output was redirected to is closed when the        *)
(* command has been reaped.                                                *)
FilesAreClosed ==
  \A p \in files : child[p] # "none"

(* "kill all remaining processes" (process_manager.c:92): after exit no    *)
(* external command is left.                                               *)
NobodyIsLeft ==
  pc = "exited" => \A p \in externals : child[p] = "none"
=============================================================================
