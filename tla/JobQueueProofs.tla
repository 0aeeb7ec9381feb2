--------------------------- MODULE JobQueueProofs ---------------------------
(***************************************************************************)
(* Proofs about JobQueue and JobStats, for every number of threads, every  *)
(* set of command files and every set of clock readings.                   *)
(***************************************************************************)
EXTENDS JobStats, FiniteSetTheorems, WellFoundedInduction, TLAPS

------------------------------------------------------------------------------
(* Type correctness *)

(* A command file is a sequence of lines. *)
LEMMA ScriptType ==
  ASSUME script \in Scripts
  PROVE  script \in Seq(LineKinds) /\ Len(script) \in Nat
  BY JobQueueAssumption

(* The types hold at the start. *)
LEMMA InitTypeOK == Init => TypeOK
<1> SUFFICES ASSUME Init PROVE TypeOK
  OBVIOUS
<1>1. Len(script) \in Nat
  BY ScriptType DEF Init
<1>2. queue \in Seq(Jobs) /\ archive \in Seq(Jobs)
  BY DEF Init
<1>3. i \in 0 .. NumThreads - 1
  BY JobQueueAssumption DEF Init
<1>4. wpc \in [Workers -> {"unborn"}] /\ job \in [Workers -> {0}]
  BY DEF Init
<1>5. line \in 1 .. Len(script) + 1 /\ active \in Int
  BY <1>1 DEF Init
<1>6. script \in Scripts /\ spurious \in BOOLEAN
  BY JobQueueAssumption DEF Init
<1> QED
  BY <1>2, <1>3, <1>4, <1>5, <1>6 DEF Init, TypeOK

(* A counting loop of main keeps its index in range. *)
LEMMA LoopType ==
  ASSUME i \in 0 .. NumThreads - 1, NEW next, Loop(next)
  PROVE  i' \in 0 .. NumThreads - 1 /\ dpc' \in {dpc, next}
  BY JobQueueAssumption DEF Loop

(* A signal changes wpc at most at one sleeper. *)
LEMMA SignalType ==
  ASSUME TypeOK, SignalNonEmpty
  PROVE  /\ wpc' \in [Workers -> {"unborn", "fetch", "asleep", "woken", "run",
                                  "ran", "quit", "exited"}]
         /\ \A w \in Workers : wpc'[w] \in {wpc[w], "woken"}
  BY DEF TypeOK, SignalNonEmpty, Asleep

(* Types are preserved. *)
LEMMA NextTypeOK == TypeOK /\ [Next]_vars => TypeOK'
<1> SUFFICES ASSUME TypeOK, [Next]_vars PROVE TypeOK'
  OBVIOUS
<1>0. Len(script) \in Nat /\ Jobs \subseteq Nat
  BY ScriptType DEF TypeOK, Jobs
<1>1. CASE CreateThread
  <2>1. i' \in 0 .. NumThreads - 1 /\ dpc' \in {dpc, "read"}
    BY <1>1, LoopType DEF TypeOK, CreateThread
  <2> QED BY <1>1, <2>1 DEF TypeOK, CreateThread, Jobs
<1>2. CASE ReadWorker
  <2>1. line \in Jobs /\ line' \in 1 .. Len(script) + 1
    BY <1>0, <1>2, JobQueueAssumption DEF TypeOK, ReadWorker, NextLineIs, Jobs
  <2>2. queue' \in Seq(Jobs)
    BY <1>2, <2>1 DEF TypeOK, ReadWorker, Enqueue
  <2> QED BY <1>2, <2>1, <2>2, SignalType DEF TypeOK, ReadWorker, Enqueue, Jobs
<1>3. CASE ReadMsleep
  BY <1>0, <1>3 DEF TypeOK, ReadMsleep, NextLineIs, Jobs
<1>4. CASE ReadWait
  BY <1>0, <1>4 DEF TypeOK, ReadWait, NextLineIs, Jobs
<1>5. CASE QEmptySeen \/ NoActiveSeen \/ EndOfFile \/ WriteStats \/ FreeQueue
  BY <1>5 DEF TypeOK, QEmptySeen, NoActiveSeen, EndOfFile, WriteStats,
              FreeQueue, dispatcherVars, Jobs
<1>6. CASE SendKill
  <2>1. i' \in 0 .. NumThreads - 1 /\ dpc' \in {dpc, "join"}
    BY <1>6, LoopType DEF TypeOK, SendKill
  <2>2. Len(script) + i + 1 \in Jobs
    BY <1>0, JobQueueAssumption DEF TypeOK, Jobs
  <2>3. queue' \in Seq(Jobs)
    BY <1>6, <2>2 DEF TypeOK, SendKill, Enqueue
  <2> QED BY <1>6, <2>1, <2>3, SignalType DEF TypeOK, SendKill, Enqueue, Jobs
<1>7. CASE JoinThread
  <2>1. i' \in 0 .. NumThreads - 1 /\ dpc' \in {dpc, "stats"}
    BY <1>7, LoopType DEF TypeOK, JoinThread
  <2> QED BY <1>7, <2>1 DEF TypeOK, JoinThread, Jobs
<1>8. ASSUME NEW w \in Workers, Take(w) PROVE TypeOK'
  <2>1. Head(queue) \in Jobs /\ queue' \in Seq(Jobs)
    BY <1>8 DEF TypeOK, Take
  <2>2. archive' \in Seq(Jobs)
    BY <1>8, <2>1 DEF TypeOK, Take
  <2>3. \A v \in Workers : wpc'[v] = "run" => job'[v] \in 1 .. Len(script)
    BY <1>0, <1>8, <2>1 DEF TypeOK, Take, IsKill, Jobs
  <2> QED BY <1>8, <2>1, <2>2, <2>3 DEF TypeOK, Take, dispatcherVars, Jobs
<1>9. ASSUME NEW w \in Workers, Doze(w) PROVE TypeOK'
  BY <1>9 DEF TypeOK, Doze, SignalQEmpty, dispatcherVars, Jobs
<1>10. ASSUME NEW w \in Workers, Run(w) PROVE TypeOK'
  BY <1>10 DEF TypeOK, Run, dispatcherVars, Jobs
<1>11. ASSUME NEW w \in Workers, DecrementActive(w) PROVE TypeOK'
  BY <1>11 DEF TypeOK, DecrementActive, SignalNoActive, dispatcherVars, Jobs
<1>12. ASSUME NEW w \in Workers, Exit(w) \/ SpuriousWorker(w) PROVE TypeOK'
  BY <1>12 DEF TypeOK, Exit, SpuriousWorker, dispatcherVars, Jobs
<1>13. CASE SpuriousDispatcher
  BY <1>13 DEF TypeOK, SpuriousDispatcher, dispatcherVars, Jobs
<1>14. CASE Terminated \/ UNCHANGED vars
  BY <1>14 DEF TypeOK, Terminated, vars, Jobs
<1> QED
  BY <1>1, <1>2, <1>3, <1>4, <1>5, <1>6, <1>7, <1>8, <1>9, <1>10, <1>11,
     <1>12, <1>13, <1>14 DEF Next, Dispatcher, Worker

(* The fields of the Queue and the threads' variables keep their types.    *)
THEOREM TypeCorrect == Spec => []TypeOK
  BY InitTypeOK, NextTypeOK, PTL DEF Spec

------------------------------------------------------------------------------
(* Counting workers *)

(* Sets of workers can be counted. *)
LEMMA WorkersFinite ==
  /\ IsFiniteSet(Workers)
  /\ \A S \in SUBSET Workers : IsFiniteSet(S) /\ Cardinality(S) \in Nat
<1>1. IsFiniteSet(Workers)
  BY FS_Interval, JobQueueAssumption DEF Workers
<1> QED
  BY <1>1, FS_Subset, FS_CardinalityType

(* One worker more. *)
LEMMA CountAdd ==
  ASSUME NEW S \in SUBSET Workers, NEW w \in Workers, w \notin S
  PROVE  Cardinality(S \cup {w}) = Cardinality(S) + 1
  BY WorkersFinite, FS_AddElement

(* One worker fewer. *)
LEMMA CountRemove ==
  ASSUME NEW S \in SUBSET Workers, NEW w \in S
  PROVE  Cardinality(S \ {w}) = Cardinality(S) - 1
  BY WorkersFinite, FS_RemoveElement

(* The image of a finite set is no larger. *)
LEMMA ImageBound ==
  ASSUME NEW S, IsFiniteSet(S), NEW g
  PROVE  /\ IsFiniteSet({g[x] : x \in S})
         /\ Cardinality({g[x] : x \in S}) <= Cardinality(S)
<1> DEFINE T == {g[x] : x \in S}
           f == [x \in S |-> g[x]]
<1>1. f \in Surjection(S, T)
  <2>1. f \in [S -> T]
    OBVIOUS
  <2>2. \A t \in T : \E x \in S : f[x] = t
    OBVIOUS
  <2> QED BY <2>1, <2>2 DEF Surjection
<1>2. IsFiniteSet(T) /\ Cardinality(T) <= Cardinality(S)
  <2> HIDE DEF f, T
  <2> QED BY <1>1, FS_Surjection
<1> QED BY <1>2

------------------------------------------------------------------------------
(* main creates every thread once *)

NotCreatedYet ==
  dpc = "create" => \A w \in Workers : w > i => wpc[w] = "unborn"

(* No thread has been created at the start. *)
LEMMA InitNotCreatedYet == Init => NotCreatedYet
  BY DEF Init, NotCreatedYet

(* A thread that is not created does nothing. *)
LEMMA NextNotCreatedYet ==
  TypeOK /\ NotCreatedYet /\ [Next]_vars => NotCreatedYet'
<1> SUFFICES ASSUME TypeOK, NotCreatedYet, [Next]_vars, dpc' = "create",
                    NEW w \in Workers, w > i'
             PROVE  wpc'[w] = "unborn"
  BY DEF NotCreatedYet
<1>1. CASE CreateThread
  BY <1>1, JobQueueAssumption
     DEF CreateThread, Loop, NotCreatedYet, TypeOK, Workers
<1>2. CASE UNCHANGED <<dpc, i>> /\ ~CreateThread
  <2>1. wpc[w] = "unborn"
    BY <1>2 DEF NotCreatedYet
  <2>2. \/ UNCHANGED wpc
        \/ \E v \in Workers : wpc[v] # "unborn" /\ \E c : wpc' = [wpc EXCEPT ![v] = c]
    BY <1>2 DEF Next, Dispatcher, ReadWorker, ReadMsleep, ReadWait, QEmptySeen,
       NoActiveSeen, EndOfFile, SendKill, JoinThread, WriteStats, FreeQueue,
       Worker, Take, Doze, Run, DecrementActive, Exit, SpuriousWorker,
       SpuriousDispatcher, Terminated, vars, Enqueue, SignalNonEmpty, Asleep
  <2> QED BY <2>1, <2>2 DEF TypeOK
<1>3. (dpc = "create" /\ UNCHANGED <<dpc, i>>) \/ CreateThread
  BY DEF Next, Dispatcher, ReadWorker, ReadMsleep, ReadWait, QEmptySeen,
     NoActiveSeen, EndOfFile, SendKill, JoinThread, WriteStats, FreeQueue,
     Worker, Take, Doze, Run, DecrementActive, Exit, SpuriousWorker,
     SpuriousDispatcher, Terminated, vars, dispatcherVars, NextLineIs, Loop,
     SignalQEmpty, SignalNoActive
<1> QED
  BY <1>1, <1>2, <1>3

------------------------------------------------------------------------------
(* active_threads_num *)

(* active counts nobody at the start. *)
LEMMA InitActiveCount == Init => ActiveCount
<1> SUFFICES ASSUME Init PROVE ActiveCount
  OBVIOUS
<1>1. Counted = {}
  BY DEF Init, Counted
<1> QED
  BY <1>1, FS_EmptySet DEF Init, ActiveCount

(* active stays the number of workers between taking a job and giving it back. *)
LEMMA NextActiveCount ==
  TypeOK /\ NotCreatedYet /\ ActiveCount /\ [Next]_vars => ActiveCount'
<1> SUFFICES ASSUME TypeOK, NotCreatedYet, ActiveCount, [Next]_vars PROVE ActiveCount'
  OBVIOUS
<1>0. Counted \in SUBSET Workers
  BY DEF Counted
<1>1. ASSUME UNCHANGED active, Counted' = Counted PROVE ActiveCount'
  BY <1>1 DEF ActiveCount
<1>2. ASSUME SignalNonEmpty PROVE Counted' = Counted
  BY <1>2 DEF SignalNonEmpty, Asleep, Counted, TypeOK
<1>3. CASE CreateThread
  <2>1. i + 1 \in Workers
    BY JobQueueAssumption DEF TypeOK, Workers
  <2>2. wpc[i + 1] = "unborn"
    BY <2>1, <1>3 DEF NotCreatedYet, CreateThread, TypeOK
  <2>3. Counted' = Counted
    BY <1>3, <2>1, <2>2 DEF CreateThread, Counted, TypeOK
  <2> QED BY <1>1, <1>3, <2>3 DEF CreateThread
<1>4. CASE ReadWorker \/ SendKill
  BY <1>1, <1>2, <1>4 DEF ReadWorker, SendKill, Enqueue
<1>5. CASE \/ ReadMsleep \/ ReadWait \/ QEmptySeen \/ NoActiveSeen \/ EndOfFile
           \/ JoinThread \/ WriteStats \/ FreeQueue \/ SpuriousDispatcher
           \/ Terminated \/ UNCHANGED vars
  BY <1>1, <1>5 DEF ReadMsleep, ReadWait, QEmptySeen, NoActiveSeen, EndOfFile,
    JoinThread, WriteStats, FreeQueue, SpuriousDispatcher, Terminated, vars,
    Counted
<1>6. ASSUME NEW w \in Workers, Take(w) PROVE ActiveCount'
  <2>1. Counted' = Counted \cup {w} /\ w \notin Counted
    BY <1>6 DEF Take, Counted, TypeOK
  <2> QED BY <1>0, <1>6, <2>1, CountAdd DEF Take, ActiveCount
<1>7. ASSUME NEW w \in Workers, DecrementActive(w) PROVE ActiveCount'
  <2>1. Counted' = Counted \ {w} /\ w \in Counted
    BY <1>7 DEF DecrementActive, Counted, TypeOK
  <2> QED BY <1>0, <1>7, <2>1, CountRemove DEF DecrementActive, ActiveCount
<1>8. ASSUME NEW w \in Workers,
             Doze(w) \/ Run(w) \/ Exit(w) \/ SpuriousWorker(w)
      PROVE  ActiveCount'
  <2>1. Counted' = Counted
    BY <1>8 DEF Doze, Run, Exit, SpuriousWorker, Counted, TypeOK
  <2> QED BY <1>1, <1>8, <2>1 DEF Doze, Run, Exit, SpuriousWorker
<1> QED
  BY <1>3, <1>4, <1>5, <1>6, <1>7, <1>8 DEF Next, Dispatcher, Worker

------------------------------------------------------------------------------
(* No lost wakeup *)

(* While somebody sleeps, no more jobs wait than workers have been woken. *)
LEMMA NextNoLostWakeup ==
  TypeOK /\ NotCreatedYet /\ NoLostWakeup /\ [Next]_vars => NoLostWakeup'
<1> SUFFICES ASSUME TypeOK, NotCreatedYet, NoLostWakeup, [Next]_vars PROVE NoLostWakeup'
  OBVIOUS
<1>0. Woken \in SUBSET Workers /\ Cardinality(Woken) \in Nat /\ Len(queue) \in Nat
  BY WorkersFinite DEF Woken, TypeOK
<1>1. ASSUME UNCHANGED queue, Asleep' = Asleep, Woken' = Woken
      PROVE  NoLostWakeup'
  BY <1>1 DEF NoLostWakeup
<1>2. ASSUME NEW j, Enqueue(j) PROVE NoLostWakeup'
  <2>1. Len(queue') = Len(queue) + 1
    BY <1>2 DEF Enqueue, TypeOK
  <2>2. CASE Asleep = {} /\ UNCHANGED wpc
    BY <2>2 DEF NoLostWakeup, Asleep
  <2>3. ASSUME NEW w \in Asleep, wpc' = [wpc EXCEPT ![w] = "woken"]
        PROVE  NoLostWakeup'
    <3>1. Woken' = Woken \cup {w} /\ w \notin Woken /\ w \in Workers
      BY <2>3 DEF Woken, Asleep, TypeOK
    <3> QED BY <1>0, <2>1, <2>3, <3>1, CountAdd DEF NoLostWakeup
  <2> QED BY <1>2, <2>2, <2>3 DEF Enqueue, SignalNonEmpty
<1>3. CASE ReadWorker \/ SendKill
  BY <1>2, <1>3 DEF ReadWorker, SendKill
<1>4. CASE CreateThread
  <2>1. i + 1 \in Workers
    BY JobQueueAssumption DEF TypeOK, Workers
  <2>2. wpc[i + 1] = "unborn"
    BY <2>1, <1>4 DEF NotCreatedYet, CreateThread, TypeOK
  <2>3. Asleep' = Asleep /\ Woken' = Woken
    BY <1>4, <2>1, <2>2 DEF CreateThread, Asleep, Woken, TypeOK
  <2> QED BY <1>1, <1>4, <2>3 DEF CreateThread
<1>5. CASE \/ ReadMsleep \/ ReadWait \/ QEmptySeen \/ NoActiveSeen \/ EndOfFile
           \/ JoinThread \/ WriteStats \/ FreeQueue \/ SpuriousDispatcher
           \/ Terminated \/ UNCHANGED vars
  BY <1>1, <1>5 DEF ReadMsleep, ReadWait, QEmptySeen, NoActiveSeen, EndOfFile,
    JoinThread, WriteStats, FreeQueue, SpuriousDispatcher, Terminated, vars,
    Asleep, Woken
<1>6. ASSUME NEW w \in Workers, Take(w) PROVE NoLostWakeup'
  <2>1. Len(queue') = Len(queue) - 1
    BY <1>6 DEF Take, TypeOK
  <2>2. Asleep' = Asleep
    BY <1>6 DEF Take, Asleep, TypeOK
  <2>3. CASE w \in Woken
    <3>1. Woken' = Woken \ {w}
      BY <1>6 DEF Take, Woken, TypeOK
    <3> QED BY <1>0, <2>1, <2>2, <2>3, <3>1, CountRemove DEF NoLostWakeup
  <2>4. CASE w \notin Woken
    <3>1. Woken' = Woken
      BY <1>6, <2>4 DEF Take, Woken, TypeOK
    <3> QED BY <1>0, <2>1, <2>2, <3>1 DEF NoLostWakeup
  <2> QED BY <2>3, <2>4
<1>7. ASSUME NEW w \in Workers, Doze(w) PROVE NoLostWakeup'
  <2>1. Len(queue') = 0
    BY <1>7 DEF Doze
  <2>2. Woken' \in SUBSET Workers
    BY DEF Woken, Workers
  <2> QED BY <2>1, <2>2, WorkersFinite DEF NoLostWakeup
<1>8. ASSUME NEW w \in Workers, Run(w) \/ DecrementActive(w) \/ Exit(w)
      PROVE  NoLostWakeup'
  <2>1. Asleep' = Asleep /\ Woken' = Woken
    BY <1>8 DEF Run, DecrementActive, Exit, Asleep, Woken, TypeOK
  <2> QED BY <1>1, <1>8, <2>1 DEF Run, DecrementActive, Exit
<1>9. ASSUME NEW w \in Workers, SpuriousWorker(w) PROVE NoLostWakeup'
  <2>1. Woken' = Woken \cup {w} /\ w \notin Woken /\ w \in Asleep
    BY <1>9 DEF SpuriousWorker, Woken, Asleep, TypeOK
  <2> QED BY <1>0, <1>9, <2>1, CountAdd DEF NoLostWakeup, SpuriousWorker
<1> QED
  BY <1>3, <1>4, <1>5, <1>6, <1>7, <1>8, <1>9 DEF Next, Dispatcher, Worker

------------------------------------------------------------------------------
(* The list is ordered *)

(* The elements of a sequence. *)
LEMMA SeqElements ==
  ASSUME NEW S, NEW q \in Seq(S)
  PROVE  /\ Len(q) \in Nat
         /\ DOMAIN q = 1 .. Len(q)
         /\ \A k \in DOMAIN q : q[k] \in S
  OBVIOUS

(* The elements of a list with one more at its end. *)
LEMMA AppendElements ==
  ASSUME NEW S, NEW q \in Seq(S), NEW x \in S
  PROVE  /\ DOMAIN Append(q, x) = 1 .. Len(q) + 1
         /\ \A k \in 1 .. Len(q) : Append(q, x)[k] = q[k]
         /\ Append(q, x)[Len(q) + 1] = x
  OBVIOUS

(* The elements of a list without its first. *)
LEMMA TailElements ==
  ASSUME NEW S, NEW q \in Seq(S), q # <<>>
  PROVE  /\ DOMAIN Tail(q) = 1 .. Len(q) - 1
         /\ \A k \in 1 .. Len(q) - 1 : Tail(q)[k] = q[k + 1]
         /\ Head(q) = q[1] /\ Len(q) >= 1
  OBVIOUS

(* No job handed out so far has this number or a larger one.               *)
NextJob ==
  CASE dpc = "kill" -> Len(script) + i + 1
    [] dpc \in {"join", "stats", "free", "done"} -> Len(script) + NumThreads + 1
    [] OTHER -> line

JobsOrdered ==
  /\ \A k, l \in DOMAIN queue : k < l => queue[k] < queue[l]
  /\ \A k \in DOMAIN queue : queue[k] < NextJob
  /\ dpc \in {"kill", "join", "stats", "free", "done"} => line = Len(script) + 1
  /\ \A n \in finished : n < line
  /\ \A w \in Executing :
       /\ job[w] < line
       /\ \A k \in DOMAIN queue : job[w] < queue[k]
       /\ \A v \in Executing : job[v] = job[w] => v = w

(* No job is in the list at the start. *)
LEMMA InitJobsOrdered == Init => JobsOrdered
  BY DEF Init, JobsOrdered, Executing

(* Jobs stay in the order of their lines. *)
LEMMA NextJobsOrdered == TypeOK /\ NotCreatedYet /\ JobsOrdered /\ [Next]_vars => JobsOrdered'
<1> SUFFICES ASSUME TypeOK, NotCreatedYet, JobsOrdered, [Next]_vars PROVE JobsOrdered'
  OBVIOUS
<1>0. /\ Len(script) \in Nat /\ line \in 1 .. Len(script) + 1
      /\ i \in 0 .. NumThreads - 1 /\ NumThreads \in Nat
      /\ Jobs \subseteq Nat
  BY ScriptType, JobQueueAssumption DEF TypeOK, Jobs
<1>a. NextJob \in Nat /\ line <= NextJob
  BY <1>0 DEF NextJob
<1>b. /\ queue \in Seq(Jobs) /\ Len(queue) \in Nat
      /\ DOMAIN queue = 1 .. Len(queue)
      /\ \A k \in DOMAIN queue : queue[k] \in Nat
  BY <1>0, SeqElements DEF TypeOK
<1>c. \A w \in Executing : job[w] \in Nat
  BY <1>0 DEF TypeOK, Executing
(* What an action that leaves the list alone has to show. *)
<1>1. ASSUME queue' = queue, job' = job, line' \in Int, line <= line',
             NextJob' \in Int, NextJob <= NextJob', Executing' \subseteq Executing,
             dpc' \in {"kill", "join", "stats", "free", "done"} =>
               line' = Len(script') + 1,
             \A n \in finished' : n < line'
      PROVE  JobsOrdered'
  BY <1>0, <1>a, <1>b, <1>c, <1>1 DEF JobsOrdered
(* What one that appends a job has to show. *)
<1>2. ASSUME queue' = Append(queue, NextJob), UNCHANGED <<job, finished, script>>,
             NextJob \in Jobs, line' \in Int, line <= line',
             dpc' \in {"kill", "join", "stats", "free", "done"} =>
               line' = Len(script') + 1,
             NextJob' = NextJob + 1, Executing' = Executing
      PROVE  JobsOrdered'
  <2>1. /\ DOMAIN queue' = DOMAIN queue \cup {Len(queue) + 1}
        /\ \A k \in DOMAIN queue : queue'[k] = queue[k] /\ k < Len(queue) + 1
        /\ queue'[Len(queue) + 1] = NextJob
    BY <1>b, <1>2, AppendElements
  <2>2. \A k, l \in DOMAIN queue' : k < l => queue'[k] < queue'[l]
    <3> SUFFICES ASSUME NEW k \in DOMAIN queue', NEW l \in DOMAIN queue', k < l
                 PROVE  queue'[k] < queue'[l]
      OBVIOUS
    <3>1. CASE l = Len(queue) + 1
      BY <1>a, <1>b, <2>1, <3>1 DEF JobsOrdered
    <3>2. CASE l \in DOMAIN queue
      BY <1>b, <2>1, <3>2 DEF JobsOrdered
    <3> QED BY <2>1, <3>1, <3>2
  <2>3. \A k \in DOMAIN queue' : queue'[k] < NextJob'
    BY <1>a, <1>b, <1>2, <2>1 DEF JobsOrdered
  <2>4. \A w \in Executing' :
          job'[w] < line' /\ \A k \in DOMAIN queue' : job'[w] < queue'[k]
    BY <1>0, <1>a, <1>b, <1>c, <1>2, <2>1 DEF JobsOrdered
  <2>5. \A n \in finished' : n < line'
    BY <1>0, <1>2 DEF JobsOrdered, TypeOK
  <2> QED
    BY <1>2, <2>2, <2>3, <2>4, <2>5 DEF JobsOrdered
<1>3. ASSUME SignalNonEmpty PROVE Executing' = Executing
  BY <1>3 DEF SignalNonEmpty, Asleep, Executing, TypeOK
<1>4. CASE CreateThread
  <2>1. i + 1 \in Workers /\ wpc[i + 1] = "unborn"
    BY <1>0, <1>4 DEF NotCreatedYet, CreateThread, Workers
  <2>2. Executing' = Executing
    BY <1>4, <2>1 DEF CreateThread, Executing, TypeOK
  <2>3. NextJob' = NextJob
    BY <1>4 DEF CreateThread, Loop, NextJob
  <2> QED BY <1>0, <1>a, <1>1, <1>4, <2>2, <2>3
          DEF CreateThread, Loop, JobsOrdered
<1>5. CASE ReadWorker
  <2>1. NextJob = line /\ NextJob' = line + 1 /\ line' = line + 1
    BY <1>5, <1>0 DEF ReadWorker, NextLineIs, NextJob
  <2>2. NextJob \in Jobs
    BY <1>0, <1>5, <2>1, JobQueueAssumption DEF ReadWorker, NextLineIs, Jobs
  <2> QED BY <1>0, <1>2, <1>3, <1>5, <2>1, <2>2
          DEF ReadWorker, NextLineIs, Enqueue
<1>6. CASE SendKill
  <2>1. NextJob = Len(script) + i + 1 /\ NextJob' = NextJob + 1
    BY <1>0, <1>6 DEF SendKill, Loop, NextJob
  <2>2. NextJob \in Jobs
    BY <1>0, <2>1 DEF Jobs
  <2> QED BY <1>0, <1>2, <1>3, <1>6, <2>1, <2>2
          DEF SendKill, Loop, Enqueue, JobsOrdered
<1>7. ASSUME NEW w \in Workers, Take(w) PROVE JobsOrdered'
  <2>1. /\ queue # <<>> /\ queue' = Tail(queue)
        /\ job' = [job EXCEPT ![w] = Head(queue)]
        /\ Head(queue) = queue[1] /\ 1 \in DOMAIN queue
        /\ \A k \in DOMAIN queue' : k \in Nat \ {0} /\ k + 1 \in DOMAIN queue
                                    /\ queue'[k] = queue[k + 1]
    <3>1. queue # <<>> /\ queue' = Tail(queue) /\ job' = [job EXCEPT ![w] = Head(queue)]
      BY <1>7 DEF Take
    <3> QED BY <3>1, <1>b, TailElements
  <2>2. \A v \in Executing' : v # w => v \in Executing /\ job'[v] = job[v]
    BY <1>7 DEF Take, Executing, TypeOK
  <2>3. job'[w] = queue[1] /\ (w \in Executing' => queue[1] <= Len(script))
    <3>1. job'[w] = queue[1]
      BY <2>1 DEF TypeOK
    <3>2. w \in Executing' => ~IsKill(queue[1])
      BY <1>7, <2>1 DEF Take, Executing, TypeOK
    <3> QED BY <1>0, <1>b, <2>1, <3>1, <3>2 DEF IsKill
  <2>4. UNCHANGED <<line, finished>> /\ NextJob' = NextJob
    BY <1>7 DEF Take, NextJob, dispatcherVars
  <2>5. w \in Executing' => job'[w] < line'
    BY <1>0, <1>b, <2>1, <2>3, <2>4 DEF JobsOrdered, NextJob
  <2>6. \A k \in DOMAIN queue' : queue[1] < queue'[k]
    BY <1>b, <2>1 DEF JobsOrdered
  <2>7. \A k, l \in DOMAIN queue' : k < l => queue'[k] < queue'[l]
    BY <1>b, <2>1 DEF JobsOrdered
  <2>8. \A k \in DOMAIN queue' : queue'[k] < NextJob'
    BY <2>1, <2>4 DEF JobsOrdered
  <2>9. \A v \in Executing' :
          /\ job'[v] < line'
          /\ \A k \in DOMAIN queue' : job'[v] < queue'[k]
    BY <1>b, <2>1, <2>2, <2>3, <2>4, <2>5, <2>6 DEF JobsOrdered
  <2>10. \A u, v \in Executing' : job'[u] = job'[v] => u = v
    BY <1>b, <1>c, <2>1, <2>2, <2>3 DEF JobsOrdered
  <2>11. UNCHANGED <<dpc, script>>
    BY <1>7 DEF Take, dispatcherVars
  <2> QED BY <2>4, <2>7, <2>8, <2>9, <2>10, <2>11 DEF JobsOrdered
<1>8. ASSUME NEW w \in Workers, Run(w) PROVE JobsOrdered'
  <2>1. Executing' \subseteq Executing /\ w \in Executing
    BY <1>8 DEF Run, Executing, TypeOK
  <2>2. NextJob' = NextJob /\ UNCHANGED <<queue, job, line, dpc, script>>
    BY <1>8 DEF Run, NextJob, dispatcherVars
  <2>3. \A n \in finished' : n < line'
    BY <1>8, <2>1, <2>2 DEF Run, JobsOrdered
  <2> QED BY <1>0, <1>a, <1>1, <2>1, <2>2, <2>3 DEF JobsOrdered
<1>9. CASE ReadMsleep \/ ReadWait
  <2>1. NextJob = line /\ NextJob' = line' /\ line' = line + 1
    BY <1>9 DEF ReadMsleep, ReadWait, NextLineIs, NextJob
  <2>2. /\ UNCHANGED <<queue, job, finished, wpc>>
        /\ dpc' \in {"read", "waitEmpty"}
    BY <1>9 DEF ReadMsleep, ReadWait, NextLineIs
  <2>3. Executing' = Executing
    BY <2>2 DEF Executing
  <2> QED BY <1>0, <1>a, <1>1, <2>1, <2>2, <2>3 DEF JobsOrdered, TypeOK
<1>10. CASE \/ QEmptySeen \/ NoActiveSeen \/ EndOfFile
            \/ JoinThread \/ WriteStats \/ FreeQueue \/ SpuriousDispatcher
            \/ Terminated \/ UNCHANGED vars
  <2>1. UNCHANGED <<queue, job, finished, line, wpc, script>>
    BY <1>10 DEF QEmptySeen, NoActiveSeen, EndOfFile, JoinThread, WriteStats,
       FreeQueue, SpuriousDispatcher, Terminated, vars, dispatcherVars
  <2>2. /\ NextJob' \in Int /\ NextJob <= NextJob'
        /\ dpc' \in {"kill", "join", "stats", "free", "done"} =>
             line = Len(script) + 1
    <3>0. dpc \in {"kill", "join", "stats", "free", "done"} => line = Len(script) + 1
      BY DEF JobsOrdered
    <3>1. CASE QEmptySeen \/ NoActiveSeen \/ EndOfFile
      BY <1>0, <3>0, <3>1 DEF QEmptySeen, NoActiveSeen, EndOfFile, dispatcherVars, NextJob
    <3>2. CASE JoinThread
      BY <1>0, <3>0, <3>2 DEF JoinThread, Loop, NextJob
    <3>3. CASE WriteStats \/ FreeQueue
      BY <1>0, <3>0, <3>3 DEF WriteStats, FreeQueue, dispatcherVars, NextJob
    <3>4. CASE SpuriousDispatcher \/ Terminated \/ UNCHANGED vars
      BY <1>0, <3>0, <3>4 DEF SpuriousDispatcher, Terminated, vars, dispatcherVars, NextJob
    <3>5. QED
      BY <1>10, <3>1, <3>2, <3>3, <3>4
  <2>3. Executing' = Executing
    BY <2>1 DEF Executing
  <2> QED BY <1>0, <1>1, <2>1, <2>2, <2>3 DEF JobsOrdered
<1>11. ASSUME NEW w \in Workers,
              Doze(w) \/ DecrementActive(w) \/ Exit(w) \/ SpuriousWorker(w)
       PROVE  JobsOrdered'
  <2>1. UNCHANGED <<queue, job, finished, line, script, i>> /\ Executing' \subseteq Executing
    BY <1>11 DEF Doze, DecrementActive, Exit, SpuriousWorker, dispatcherVars,
       Executing, TypeOK
  <2>2. /\ NextJob' = NextJob
        /\ dpc' \in {"kill", "join", "stats", "free", "done"} => dpc' = dpc
    BY <1>11, <2>1 DEF Doze, DecrementActive, Exit, SpuriousWorker,
       SignalQEmpty, SignalNoActive, NextJob
  <2> QED BY <1>0, <1>a, <1>1, <2>1, <2>2 DEF JobsOrdered
<1> QED
  BY <1>4, <1>5, <1>6, <1>7, <1>8, <1>9, <1>10, <1>11
     DEF Next, Dispatcher, Worker

------------------------------------------------------------------------------
(* The invariant as a whole *)

IInv ==
  /\ TypeOK
  /\ NotCreatedYet
  /\ ActiveCount
  /\ NoLostWakeup
  /\ JobsOrdered

(* The invariant of every run of the program. *)
LEMMA Inductive == Spec => []IInv
<1>1. Init => IInv
  <2> SUFFICES ASSUME Init PROVE IInv
    OBVIOUS
  <2>1. NoLostWakeup
    BY DEF Init, NoLostWakeup, Asleep
  <2> QED
    BY <2>1, InitTypeOK, InitNotCreatedYet, InitActiveCount, InitJobsOrdered
       DEF IInv
<1>2. IInv /\ [Next]_vars => IInv'
  BY NextTypeOK, NextNotCreatedYet, NextActiveCount, NextNoLostWakeup,
     NextJobsOrdered DEF IInv
<1> QED
  BY <1>1, <1>2, PTL DEF Spec

(* active_threads_num is the number of workers that passed the increment   *)
(* in dequeue and not the decrement of decrement_active_threads.           *)
THEOREM ActiveCountCorrect == Spec => []ActiveCount
  BY Inductive, PTL DEF IInv

(* One pthread_cond_signal per enqueue is enough: no job waits in the list *)
(* beside a sleeping worker unless a signalled worker is on its way to it. *)
THEOREM WakeupsCorrect == Spec => []NoLostWakeup
  BY Inductive, PTL DEF IInv

------------------------------------------------------------------------------
(* What a step does to the jobs, as the pool sees them *)

Unseen == UNCHANGED <<Commands(queue), Running, finished, Submitted>>

Submits ==
  /\ ReadWorker
  /\ line \in LineNumbers
  /\ Submitted' = Submitted \cup {line}
  /\ Commands(queue)' = Commands(queue) \cup {line}
  /\ UNCHANGED <<Running, finished>>
  /\ \A n \in Commands(queue) \cup Running \cup finished : n < line

Starts(j) ==
  /\ j \in Commands(queue)
  /\ \A k \in Commands(queue) : j <= k
  /\ Cardinality(Running) < NumThreads
  /\ Commands(queue)' = Commands(queue) \ {j}
  /\ Running' = Running \cup {j}
  /\ UNCHANGED <<finished, Submitted, Waiting>>

Finishes(j) ==
  /\ j \in Running
  /\ Running' = Running \ {j}
  /\ finished' = finished \cup {j}
  /\ UNCHANGED <<Commands(queue), Submitted, Waiting>>

(* Who executes, and what, says which jobs run. *)
LEMMA RunningUnchanged ==
  ASSUME Executing' = Executing, UNCHANGED job
  PROVE  Running' = Running
  BY DEF Running

(* Reading a worker line submits a job to the pool. *)
LEMMA ReadWorkerStep ==
  ASSUME IInv, ReadWorker
  PROVE  Submits
<1>1. /\ script \in Seq(LineKinds) /\ Len(script) \in Nat /\ line \in 1 .. Len(script)
      /\ script \in Scripts
  BY ScriptType DEF IInv, TypeOK, ReadWorker, NextLineIs
<1>2. line \in LineNumbers
  BY <1>1 DEF LineNumbers
<1>3. Submitted' = Submitted \cup {line}
  BY <1>1 DEF ReadWorker, NextLineIs, Submitted
<1>4. /\ queue \in Seq(Jobs) /\ line \in Jobs /\ queue' = Append(queue, line)
      /\ Jobs \subseteq Nat
  BY <1>1, JobQueueAssumption DEF IInv, TypeOK, ReadWorker, Enqueue, Jobs
<1>5. Commands(queue)' = Commands(queue) \cup {line}
  <2>1. {queue'[k] : k \in DOMAIN queue'} = {queue[k] : k \in DOMAIN queue} \cup {line}
    <3>1. DOMAIN queue = 1 .. Len(queue) /\ Len(queue) \in Nat
      BY <1>4, SeqElements
    <3>2. /\ DOMAIN queue' = DOMAIN queue \cup {Len(queue) + 1}
          /\ \A k \in DOMAIN queue : queue'[k] = queue[k]
          /\ queue'[Len(queue) + 1] = line
      BY <1>4, <3>1, AppendElements
    <3> QED BY <3>2
  <2>2. UNCHANGED script
    BY DEF ReadWorker
  <2> QED BY <1>1, <2>1, <2>2 DEF Commands
<1>6. Executing' = Executing
  BY DEF IInv, TypeOK, ReadWorker, Enqueue, SignalNonEmpty, Asleep, Executing
<1>7. Running' = Running /\ UNCHANGED finished
  BY <1>6, RunningUnchanged DEF ReadWorker
<1>8. \A n \in Commands(queue) \cup Running \cup finished : n < line
  <2>1. NextJob = line
    BY DEF NextJob, ReadWorker, NextLineIs
  <2> QED BY <2>1 DEF IInv, JobsOrdered, Commands, Running
<1> QED
  BY <1>2, <1>3, <1>5, <1>7, <1>8 DEF Submits

(* Taking a job from the list starts it, if it is a worker line. *)
LEMMA TakeStep ==
  ASSUME IInv, NEW w \in Workers, Take(w)
  PROVE  Unseen \/ \E j \in Jobs : Starts(j)
<1>1. /\ queue \in Seq(Jobs) /\ queue # <<>> /\ queue' = Tail(queue)
      /\ Jobs \subseteq Nat /\ Len(script) \in Nat
  BY ScriptType, JobQueueAssumption DEF IInv, TypeOK, Take, Jobs
<1>2. /\ Head(queue) = queue[1] /\ 1 \in DOMAIN queue /\ queue[1] \in Jobs
      /\ DOMAIN queue = 1 .. Len(queue) /\ DOMAIN queue' = 1 .. Len(queue) - 1
      /\ \A k \in DOMAIN queue' : queue'[k] = queue[k + 1]
      /\ Len(queue) \in Nat /\ \A k \in DOMAIN queue : queue[k] \in Nat
  <2>1. /\ DOMAIN queue = 1 .. Len(queue) /\ Len(queue) \in Nat
        /\ \A k \in DOMAIN queue : queue[k] \in Jobs
    BY <1>1, SeqElements
  <2>2. /\ DOMAIN queue' = 1 .. Len(queue) - 1 /\ Head(queue) = queue[1]
        /\ \A k \in 1 .. Len(queue) - 1 : queue'[k] = queue[k + 1]
        /\ Len(queue) >= 1
    BY <1>1, TailElements
  <2>3. queue[1] \in Jobs /\ 1 \in DOMAIN queue
    BY <2>1, <2>2
  <2> QED BY <1>1, <2>1, <2>2, <2>3
<1>3. \A k \in DOMAIN queue : k # 1 => k - 1 \in DOMAIN queue' /\ queue'[k - 1] = queue[k]
                                    /\ queue[1] < queue[k]
  BY <1>2 DEF IInv, JobsOrdered
<1>4. {queue'[k] : k \in DOMAIN queue'} = {queue[k] : k \in DOMAIN queue} \ {queue[1]}
  <2>1. ASSUME NEW k \in DOMAIN queue'
        PROVE  queue'[k] \in {queue[l] : l \in DOMAIN queue} \ {queue[1]}
    <3>1. k + 1 \in DOMAIN queue /\ k + 1 # 1
      BY <1>2
    <3> QED BY <1>2, <1>3, <3>1
  <2>2. ASSUME NEW k \in DOMAIN queue, queue[k] # queue[1]
        PROVE  queue[k] \in {queue'[l] : l \in DOMAIN queue'}
    BY <1>3, <2>2
  <2> QED BY <2>1, <2>2
<1>5. Commands(queue)' = Commands(queue) \ {queue[1]}
  BY <1>4 DEF Commands, Take, dispatcherVars
<1>6. UNCHANGED <<finished, Submitted, Waiting>>
  BY DEF Take, dispatcherVars, Submitted, Waiting
<1>7. CASE IsKill(queue[1])
  <2>1. Executing' = Executing
    BY <1>2, <1>7 DEF Take, Executing, IInv, TypeOK
  <2>2. Running' = Running
    BY <2>1 DEF Running, Take, Executing, IInv, TypeOK
  <2>3. queue[1] \notin Commands(queue)
    BY <1>1, <1>2, <1>7 DEF IsKill, Commands
  <2> QED BY <1>5, <1>6, <2>2, <2>3 DEF Unseen
<1>8. CASE ~IsKill(queue[1])
  <2>1. Executing' = Executing \cup {w} /\ w \notin Executing
    BY <1>2, <1>8 DEF Take, Executing, IInv, TypeOK
  <2>2. Running' = Running \cup {queue[1]}
    BY <1>2, <2>1 DEF Running, Take, Executing, IInv, TypeOK
  <2>3. queue[1] \in Commands(queue) /\ \A k \in Commands(queue) : queue[1] <= k
    <3>1. queue[1] \in 1 .. Len(script)
      BY <1>1, <1>2, <1>8 DEF IsKill, Jobs
    <3>2. \A k \in DOMAIN queue : queue[1] <= queue[k]
      BY <1>2, <1>3
    <3> QED BY <1>2, <3>1, <3>2 DEF Commands
  <2>4. Cardinality(Running) < NumThreads
    <3>1. Executing \in SUBSET (Workers \ {w})
      BY <2>1 DEF Executing
    <3>2. Cardinality(Workers \ {w}) = NumThreads - 1
      <4>1. Cardinality(Workers) = NumThreads
        BY FS_Interval, JobQueueAssumption DEF Workers
      <4> QED BY <4>1, CountRemove
    <3>3. IsFiniteSet(Workers \ {w})
      BY WorkersFinite
    <3>4. Cardinality(Executing) <= NumThreads - 1
      BY <3>1, <3>2, <3>3, FS_Subset
    <3>5. IsFiniteSet(Executing)
      BY <3>1, <3>3, FS_Subset
    <3>6. Cardinality(Running) <= Cardinality(Executing) /\ IsFiniteSet(Running)
      BY <3>5, ImageBound DEF Running
    <3> QED
      BY <3>4, <3>5, <3>6, FS_CardinalityType, JobQueueAssumption
  <2> QED BY <1>2, <1>5, <1>6, <2>2, <2>3, <2>4 DEF Starts
<1> QED BY <1>7, <1>8

(* The end of run_job finishes the job in the pool. *)
LEMMA RunStep ==
  ASSUME IInv, NEW w \in Workers, Run(w)
  PROVE  Finishes(job[w])
<1>1. Executing' = Executing \ {w} /\ w \in Executing /\ UNCHANGED job
  BY DEF Run, Executing, IInv, TypeOK
<1>2. \A v \in Executing : job[v] = job[w] => v = w
  BY <1>1 DEF IInv, JobsOrdered
<1>3. Running' = Running \ {job[w]} /\ job[w] \in Running
  BY <1>1, <1>2 DEF Running
<1>4. UNCHANGED <<Commands(queue), Submitted, Waiting>>
  BY DEF Run, dispatcherVars, Commands, Submitted, Waiting
<1> QED BY <1>3, <1>4 DEF Finishes, Run

(* The other steps are nothing to the pool. *)
LEMMA UnseenStep ==
  ASSUME IInv, [Next]_vars, ~ReadWorker,
         \A w \in Workers : ~Take(w) /\ ~Run(w)
  PROVE  Unseen
<1>0. /\ Len(script) \in Nat /\ line \in 1 .. Len(script) + 1
      /\ queue \in Seq(Jobs) /\ Jobs \subseteq Nat
      /\ i \in 0 .. NumThreads - 1
  BY ScriptType, JobQueueAssumption DEF IInv, TypeOK, Jobs
<1>1. ASSUME UNCHANGED <<queue, script, job, finished, line>>, Executing' = Executing
      PROVE  Unseen
  BY <1>1, RunningUnchanged DEF Unseen, Commands, Submitted
<1>2. CASE CreateThread
  <2>1. i + 1 \in Workers /\ wpc[i + 1] = "unborn"
    BY <1>0, <1>2, JobQueueAssumption
       DEF IInv, NotCreatedYet, CreateThread, Workers
  <2>2. Executing' = Executing
    BY <1>2, <2>1 DEF CreateThread, Executing, IInv, TypeOK
  <2> QED BY <1>1, <1>2, <2>2 DEF CreateThread
<1>3. CASE ReadMsleep \/ ReadWait
  <2>1. /\ UNCHANGED <<queue, script, job, finished, wpc>>
        /\ line' = line + 1 /\ script[line] # "worker"
    BY <1>3 DEF ReadMsleep, ReadWait, NextLineIs
  <2>2. Submitted' = Submitted
    BY <1>0, <2>1 DEF Submitted
  <2>3. Executing' = Executing
    BY <2>1 DEF Executing
  <2> QED BY <2>1, <2>2, <2>3, RunningUnchanged DEF Unseen, Commands
<1>4. CASE SendKill
  <2>1. Executing' = Executing
    BY <1>4 DEF SendKill, Enqueue, SignalNonEmpty, Asleep, Executing, IInv, TypeOK
  <2>2. queue' = Append(queue, Len(script) + i + 1) /\ Len(script) + i + 1 \in Jobs
        /\ UNCHANGED <<script, job, finished, line>>
    BY <1>0, <1>4, JobQueueAssumption DEF SendKill, Enqueue, Jobs
  <2>3. /\ DOMAIN queue = 1 .. Len(queue) /\ Len(queue) \in Nat
        /\ \A k \in DOMAIN queue : queue[k] \in Jobs
    BY <1>0, SeqElements
  <2>4. /\ DOMAIN queue' = DOMAIN queue \cup {Len(queue) + 1}
        /\ \A k \in DOMAIN queue : queue'[k] = queue[k]
        /\ queue'[Len(queue) + 1] = Len(script) + i + 1
    BY <1>0, <2>2, <2>3, AppendElements
  <2>5. Commands(queue)' = Commands(queue)
    <3>1. {queue'[k] : k \in DOMAIN queue'} =
             {queue[k] : k \in DOMAIN queue} \cup {Len(script) + i + 1}
      BY <2>4
    <3>2. Len(script) + i + 1 \notin 1 .. Len(script)
      BY <1>0
    <3> QED BY <2>2, <3>1, <3>2 DEF Commands
  <2> QED BY <2>1, <2>2, <2>5, RunningUnchanged DEF Unseen, Submitted
<1>5. CASE \/ QEmptySeen \/ NoActiveSeen \/ EndOfFile
           \/ JoinThread \/ WriteStats \/ FreeQueue \/ SpuriousDispatcher
           \/ Terminated \/ UNCHANGED vars
  <2>1. UNCHANGED <<queue, job, finished, line, wpc, script>>
    BY <1>5 DEF QEmptySeen, NoActiveSeen, EndOfFile, JoinThread, WriteStats,
       FreeQueue, SpuriousDispatcher, Terminated, vars, dispatcherVars
  <2>2. Executing' = Executing
    BY <2>1 DEF Executing
  <2> QED BY <1>1, <2>1, <2>2
<1>6. ASSUME NEW w \in Workers,
             Doze(w) \/ DecrementActive(w) \/ Exit(w) \/ SpuriousWorker(w)
      PROVE  Unseen
  <2>1. UNCHANGED <<queue, job, finished, line, script>> /\ Executing' = Executing
    BY <1>6 DEF Doze, DecrementActive, Exit, SpuriousWorker, dispatcherVars,
       Executing, IInv, TypeOK
  <2> QED BY <1>1, <2>1
<1> QED
  BY <1>2, <1>3, <1>4, <1>5, <1>6 DEF Next, Dispatcher, Worker

(* What each step is to the pool. *)
LEMMA PoolStep ==
  ASSUME IInv, [Next]_vars
  PROVE  \/ Unseen
         \/ Submits
         \/ \E j \in Jobs : Starts(j)
         \/ \E w \in Workers : Run(w) /\ Finishes(job[w])
  BY UnseenStep, ReadWorkerStep, TakeStep, RunStep

------------------------------------------------------------------------------
(* The barrier *)

(* Nothing that was read is lost.                                          *)
Kept == Submitted \subseteq Commands(queue) \cup Running \cup finished

(* Submitted jobs are pending, running or finished. *)
LEMMA KeptAlways == Spec => []Kept
<1>1. Init => Kept
  BY DEF Init, Kept, Submitted
<1>2. IInv /\ Kept /\ [Next]_vars => Kept'
  BY PoolStep DEF Kept, Unseen, Submits, Starts, Finishes
<1> QED BY <1>1, <1>2, Inductive, PTL DEF Spec

(* No worker has taken a kill job while the dispatcher still reads, and a  *)
(* dispatcher waiting for the threads waits for one that is active.        *)
Reading == dpc \in {"create", "read", "waitEmpty", "emptyWoken", "waitIdle",
                    "idleWoken"}

IdleInv ==
  /\ Reading => \A w \in Workers : wpc[w] \notin {"quit", "exited"}
  /\ dpc = "waitIdle" => active # 0

(* The invariant of the wait for idle workers. *)
LEMMA IdleInvAlways == Spec => []IdleInv
<1>1. Init => IdleInv
  BY DEF Init, IdleInv
<1>2. IInv /\ IdleInv /\ [Next]_vars => IdleInv'
  <2> SUFFICES ASSUME IInv, IdleInv, [Next]_vars PROVE IdleInv'
    OBVIOUS
  <2>0. /\ active \in Int /\ Len(script) \in Nat /\ queue \in Seq(Jobs)
        /\ Reading => \A k \in DOMAIN queue : ~IsKill(queue[k])
    <3>1. /\ active \in Int /\ Len(script) \in Nat /\ queue \in Seq(Jobs)
          /\ line <= Len(script) + 1 /\ line \in Nat /\ Jobs \subseteq Nat
      BY ScriptType, JobQueueAssumption DEF IInv, TypeOK, Jobs
    <3>2. Reading => NextJob = line
      BY DEF Reading, NextJob
    <3>3. \A k \in DOMAIN queue : queue[k] \in Nat /\ queue[k] < NextJob
      BY <3>1, SeqElements DEF IInv, JobsOrdered
    <3> QED BY <3>1, <3>2, <3>3 DEF IsKill
  <2>1. ASSUME NEW w \in Workers, Take(w) PROVE IdleInv'
    <3>1. Head(queue) = queue[1] /\ 1 \in DOMAIN queue
      BY <2>0, <2>1, SeqElements, TailElements DEF Take
    <3>2. Reading' = Reading /\ dpc' = dpc
      BY <2>1 DEF Take, Reading
    <3>3. active' # 0
      <4>1. active \in Nat
        BY WorkersFinite DEF IInv, ActiveCount, Counted
      <4> QED BY <2>1, <4>1 DEF Take
    <3>4. Reading' => \A v \in Workers : wpc'[v] \notin {"quit", "exited"}
      BY <2>0, <2>1, <3>1, <3>2 DEF Take, IdleInv, IInv, TypeOK
    <3> QED BY <3>3, <3>4 DEF IdleInv
  <2>2. ASSUME NEW w \in Workers,
               Doze(w) \/ Run(w) \/ DecrementActive(w) \/ Exit(w) \/ SpuriousWorker(w)
        PROVE  IdleInv'
    <3>1. Reading' = Reading
      BY <2>2 DEF Reading, Doze, Run, DecrementActive, Exit, SpuriousWorker,
         SignalQEmpty, SignalNoActive
    <3>2. Reading' => \A v \in Workers : wpc'[v] \notin {"quit", "exited"}
      BY <2>2, <3>1 DEF Doze, Run, DecrementActive, Exit, SpuriousWorker,
         IdleInv, IInv, TypeOK
    <3>3. dpc' = "waitIdle" => active' # 0
      BY <2>2 DEF Doze, Run, DecrementActive, Exit, SpuriousWorker, IdleInv,
         SignalQEmpty, SignalNoActive
    <3> QED BY <3>2, <3>3 DEF IdleInv
  <2>3. CASE CreateThread
    <3>1. i + 1 \in Workers
      BY JobQueueAssumption DEF IInv, TypeOK, Workers
    <3> QED BY <2>3, <3>1 DEF CreateThread, Loop, IdleInv, Reading, IInv, TypeOK
  <2>4. CASE ReadWorker \/ SendKill
    <3>1. \A v \in Workers : wpc'[v] \in {wpc[v], "woken"}
      BY <2>4, SignalType DEF ReadWorker, SendKill, Enqueue, IInv
    <3>2. (Reading' => Reading) /\ dpc' # "waitIdle"
      BY <2>4 DEF ReadWorker, NextLineIs, SendKill, Loop, Reading
    <3> QED BY <3>1, <3>2 DEF IdleInv
  <2>5. CASE \/ ReadMsleep \/ ReadWait \/ QEmptySeen \/ NoActiveSeen \/ EndOfFile
             \/ JoinThread \/ WriteStats \/ FreeQueue \/ SpuriousDispatcher
             \/ Terminated \/ UNCHANGED vars
    <3>1. UNCHANGED <<wpc, active>>
      BY <2>5 DEF ReadMsleep, ReadWait, QEmptySeen, NoActiveSeen, EndOfFile,
         JoinThread, WriteStats, FreeQueue, SpuriousDispatcher, Terminated, vars
    <3>2. Reading' => Reading
      BY <2>5 DEF ReadMsleep, ReadWait, NextLineIs, QEmptySeen, NoActiveSeen,
         EndOfFile, JoinThread, Loop, WriteStats, FreeQueue,
         SpuriousDispatcher, Terminated, vars, Reading
    <3>3. dpc' = "waitIdle" => active # 0
      BY <2>0, <2>5 DEF ReadMsleep, ReadWait, NextLineIs, QEmptySeen, NoActiveSeen,
         EndOfFile, JoinThread, Loop, WriteStats, FreeQueue,
         SpuriousDispatcher, Terminated, vars, IdleInv
    <3> QED BY <3>1, <3>2, <3>3 DEF IdleInv
  <2> QED
    BY <2>1, <2>2, <2>3, <2>4, <2>5 DEF Next, Dispatcher, Worker
<1> QED BY <1>1, <1>2, Inductive, PTL DEF Spec

(* The dispatcher never waits for idle threads when all threads are idle.  *)
THEOREM IdleWaitCorrect == Spec => []NoHangOnIdle
<1>1. IInv /\ IdleInv => NoHangOnIdle
  <2> SUFFICES ASSUME IInv, IdleInv, dpc = "waitIdle"
               PROVE  \E w \in Workers : wpc[w] \in {"run", "ran"}
    BY DEF NoHangOnIdle
  <2>1. Counted # {}
    BY FS_EmptySet DEF IInv, IdleInv, ActiveCount
  <2> QED BY <2>1 DEF Counted, IdleInv, Reading
<1> QED BY <1>1, Inductive, IdleInvAlways, PTL

(* Once woken, the dispatcher finds what it waited for still true: nobody  *)
(* else appends to the list.                                               *)
WokenInv ==
  ~spurious =>
    /\ dpc \in {"emptyWoken", "waitIdle", "idleWoken"} => queue = <<>>
    /\ dpc = "idleWoken" => active = 0

(* Whether the dispatcher may be woken by nobody never changes. *)
LEMMA Given == [Next]_vars => UNCHANGED spurious
  BY DEF Next, Dispatcher, CreateThread, ReadWorker, ReadMsleep, ReadWait, QEmptySeen,
     NoActiveSeen, EndOfFile, SendKill, JoinThread, WriteStats, FreeQueue,
     Worker, Take, Doze, Run, DecrementActive, Exit, SpuriousWorker,
     SpuriousDispatcher, Terminated, vars, dispatcherVars

(* A dispatcher woken by a signal finds what it waits for. *)
LEMMA WokenInvAlways == Spec => []WokenInv
<1>1. Init => WokenInv
  BY DEF Init, WokenInv
<1>2. IInv /\ WokenInv /\ [Next]_vars => WokenInv'
  <2> SUFFICES ASSUME IInv, WokenInv, [Next]_vars, ~spurious PROVE WokenInv'
    BY Given DEF WokenInv
  <2>0. ASSUME NEW w \in Workers, DecrementActive(w) PROVE active # 0
    <3>1. w \in Counted
      BY <2>0 DEF DecrementActive, Counted
    <3> QED BY <3>1, WorkersFinite, FS_EmptySet DEF IInv, ActiveCount, Counted
  <2>1. ASSUME NEW w \in Workers, Worker(w) PROVE WokenInv'
    <3>1. CASE Take(w)
      BY <3>1 DEF Take, WokenInv
    <3>2. CASE Doze(w)
      BY <3>2 DEF Doze, SignalQEmpty, WokenInv
    <3>3. CASE DecrementActive(w)
      BY <2>0, <3>3 DEF DecrementActive, SignalNoActive, WokenInv
    <3>4. CASE Run(w) \/ Exit(w)
      BY <3>4 DEF Run, Exit, WokenInv
    <3> QED BY <2>1, <3>1, <3>2, <3>3, <3>4 DEF Worker
  <2>2. CASE \/ CreateThread \/ ReadWorker \/ SendKill \/ EndOfFile \/ JoinThread
             \/ WriteStats \/ FreeQueue \/ ReadMsleep \/ ReadWait
    BY <2>2 DEF CreateThread, ReadWorker, SendKill, EndOfFile, JoinThread,
       WriteStats, FreeQueue, ReadMsleep, ReadWait, NextLineIs, Loop, WokenInv
  <2>3. CASE QEmptySeen \/ NoActiveSeen \/ Terminated \/ UNCHANGED vars
    BY <2>3 DEF QEmptySeen, NoActiveSeen, Terminated, vars, WokenInv
  <2>4. ASSUME NEW w \in Workers, SpuriousWorker(w) PROVE WokenInv'
    BY <2>4 DEF SpuriousWorker, dispatcherVars, WokenInv
  <2> QED
    BY <2>1, <2>2, <2>3, <2>4 DEF Next, Dispatcher, SpuriousDispatcher
<1> QED BY <1>1, <1>2, Inductive, PTL DEF Spec

(* The steps that begin and end `dispatcher wait'.                         *)
LEMMA WaitingChange ==
  ASSUME [Next]_vars, Waiting' # Waiting
  PROVE  ReadWait \/ QEmptySeen \/ NoActiveSeen
<1>1. ASSUME NEW w \in Workers, Worker(w) PROVE FALSE
  BY <1>1 DEF Worker, Take, Doze, Run, DecrementActive, Exit, Waiting,
     SignalQEmpty, SignalNoActive
<1>2. CASE \/ CreateThread \/ ReadWorker \/ SendKill \/ EndOfFile \/ JoinThread
           \/ WriteStats \/ FreeQueue \/ ReadMsleep
  BY <1>2 DEF CreateThread, ReadWorker, SendKill, EndOfFile, JoinThread,
     WriteStats, FreeQueue, ReadMsleep, NextLineIs, Loop, Waiting
<1>3. CASE SpuriousDispatcher \/ Terminated \/ UNCHANGED vars
  BY <1>3 DEF SpuriousDispatcher, Terminated, vars, Waiting
<1>4. ASSUME NEW w \in Workers, SpuriousWorker(w) PROVE FALSE
  BY <1>4 DEF SpuriousWorker, Waiting
<1> QED
  BY <1>1, <1>2, <1>3, <1>4 DEF Next, Dispatcher

(* When dispatcher wait begins, and when it ends. *)
LEMMA WaitingStep ==
  ASSUME ~spurious, IInv, WokenInv, [Next]_vars, Waiting' # Waiting
  PROVE  \/ Waiting' /\ ReadWait
         \/ /\ ~Waiting' /\ (QEmptySeen \/ NoActiveSeen)
            /\ queue = <<>> /\ Running = {}
<1>1. ReadWait \/ QEmptySeen \/ NoActiveSeen
  BY WaitingChange
<1>2. CASE ReadWait
  BY <1>2 DEF ReadWait, NextLineIs, Waiting
<1>3. CASE QEmptySeen \/ NoActiveSeen
  <2>1. dpc' = "read" /\ queue = <<>> /\ active = 0
    <3>1. active \in Nat
      BY WorkersFinite DEF IInv, ActiveCount, Counted
    <3> QED BY <1>3, <3>1 DEF QEmptySeen, NoActiveSeen, WokenInv, Waiting
  <2>2. Counted = {}
    BY <2>1, WorkersFinite, FS_EmptySet DEF IInv, ActiveCount, Counted
  <2>3. Running = {}
    BY <2>2 DEF Running, Executing, Counted
  <2> QED BY <1>3, <2>1, <2>3 DEF Waiting
<1> QED BY <1>1, <1>2, <1>3

(* `dispatcher wait' is a barrier, provided that pthread_cond_wait returns *)
(* to the dispatcher only when signalled.                                  *)
THEOREM BarrierCorrect == Spec => WaitIsBarrier
<1>1. /\ IInv /\ WokenInv /\ Kept /\ [Next]_vars
      => [~spurious /\ Waiting /\ ~Waiting' =>
            queue = <<>> /\ Submitted \subseteq finished]_vars
  <2> SUFFICES ASSUME IInv, WokenInv, Kept, [Next]_vars,
                      ~spurious, Waiting, ~Waiting'
               PROVE  queue = <<>> /\ Submitted \subseteq finished
    OBVIOUS
  <2>1. queue = <<>> /\ Running = {}
    BY WaitingStep
  <2>2. Commands(queue) = {}
    BY <2>1 DEF Commands
  <2> QED BY <2>1, <2>2 DEF Kept
<1> QED
  BY <1>1, Inductive, WokenInvAlways, KeptAlways, PTL DEF Spec, WaitIsBarrier

------------------------------------------------------------------------------
(* The dispatcher and its workers implement the pool *)

(* Every step is a step of JobPool or leaves its variables unchanged.      *)
THEOREM ImplementsPool == Spec => PoolSpec
<1>1. Init => Pool!Init
  BY DEF Init, Pool!Init, Commands, Running, Executing, Waiting
<1>2. IInv /\ WokenInv /\ [Next]_vars => [Pool!Next]_(Pool!vars)
  <2> SUFFICES ASSUME IInv, WokenInv, [Next]_vars
               PROVE  Pool!Next \/ UNCHANGED Pool!vars
    BY DEF Pool!vars
  <2>0. spurious' = spurious
    BY Given
  <2>1. CASE Waiting' # Waiting
    <3>1. Unseen
      <4>1. dpc' # dpc
        BY <2>1 DEF Waiting
      <4>2. ~ReadWorker /\ \A w \in Workers : ~Take(w) /\ ~Run(w)
        BY <4>1 DEF ReadWorker, Take, Run
      <4> QED BY <4>2, UnseenStep
    <3>2. CASE spurious
      BY <2>0, <3>1, <3>2 DEF Unseen, Pool!vars
    <3>3. CASE ~spurious
      BY <2>0, <2>1, <3>1, <3>3, WaitingStep
         DEF Unseen, Commands, Waiting, Pool!Next, Pool!BeginWait, Pool!EndWait
    <3> QED BY <3>2, <3>3
  <2>2. CASE Waiting' = Waiting /\ Unseen
    BY <2>0, <2>2 DEF Unseen, Pool!vars
  <2>3. CASE Submits
    <3>1. ~Waiting /\ Waiting' = Waiting
      BY <2>3 DEF Submits, ReadWorker, NextLineIs, Waiting
    <3>2. Pool!Submit(line)
      BY <2>0, <2>3, <3>1 DEF Submits, Pool!Submit
    <3> QED BY <2>3, <3>2 DEF Pool!Next, Submits
  <2>4. ASSUME NEW j \in Jobs, Starts(j) PROVE Pool!Next
    <3>1. Pool!Start(j)
      BY <2>0, <2>4 DEF Starts, Pool!Start, Pool!Cardinality, Cardinality
    <3> QED BY <2>4, <3>1 DEF Pool!Next, Starts
  <2>5. ASSUME NEW j, Finishes(j) PROVE Pool!Next
    <3>1. Pool!Finish(j)
      BY <2>0, <2>5 DEF Finishes, Pool!Finish
    <3> QED BY <2>5, <3>1 DEF Pool!Next, Finishes
  <2> QED BY <2>1, <2>2, <2>3, <2>4, <2>5, PoolStep
<1> QED
  BY <1>1, <1>2, Inductive, WokenInvAlways, PTL DEF Spec, PoolSpec, Pool!Spec

------------------------------------------------------------------------------
(* Induction, recursion and sums *)

(* Every non-empty set of naturals has a least element. *)
LEMMA LeastNat ==
  ASSUME NEW S \in SUBSET Nat, S # {}
  PROVE  \E x \in S : \A y \in S : x <= y
<1> DEFINE R == OpToRel(<, Nat)
<1>1. IsWellFoundedOn(R, Nat)
  BY NatLessThanWellFounded
<1>2. \A x, y \in Nat : <<y, x>> \in R <=> y < x
  BY DEF OpToRel
<1> HIDE DEF R
<1>3. PICK x \in S : \A y \in S : ~(<<y, x>> \in R)
  BY <1>1, WFMin
<1>4. \A y \in S : x \in Nat /\ y \in Nat /\ ~(y < x)
  BY <1>2, <1>3
<1> QED BY <1>3, <1>4

(* Induction over the naturals, of a set instead of a predicate. *)
LEMMA Induction ==
  ASSUME NEW S, 0 \in S, \A n \in Nat : n \in S => n + 1 \in S
  PROVE  Nat \subseteq S
<1> SUFFICES ASSUME Nat \ S # {} PROVE FALSE
  OBVIOUS
<1>1. PICK x \in Nat \ S : \A y \in Nat \ S : x <= y
  BY LeastNat
<1>2. x # 0 /\ x - 1 \in Nat /\ (x - 1) + 1 = x /\ ~(x <= x - 1)
  BY <1>1
<1> QED BY <1>1, <1>2

(* A recursive definition on D, with values in V: it ends in Z, and goes   *)
(* from elsewhere to an argument that measures less.                       *)
Descends(D, V, mu, next, Z, c, B) ==
  /\ mu \in [D -> Nat] /\ next \in [D -> D] /\ Z \subseteq D
  /\ c \in [D -> V] /\ B \in [D -> [V -> V]]
  /\ \A d \in D \ Z : mu[next[d]] < mu[d]

(* Such a definition has a solution. *)
LEMMA Recursion ==
  ASSUME NEW D, NEW V, NEW mu, NEW next, NEW Z, NEW c, NEW B, Descends(D, V, mu, next, Z, c, B)
  PROVE  \E F \in [D -> V] : \A d \in D : F[d] = IF d \in Z THEN c[d] ELSE B[d][F[next[d]]]
<1> USE DEF Descends
<1> DEFINE Fits(n, g) == \A d \in D : mu[d] < n =>
             g[d] = IF d \in Z THEN c[d] ELSE B[d][g[next[d]]]
           S == {n \in Nat : \E g \in [D -> V] : Fits(n, g)}
           h(n) == CHOOSE g \in [D -> V] : Fits(n, g)
           F == [d \in D |-> h(mu[d] + 1)[d]]
<1>1. Nat \subseteq S
  <2>1. 0 \in S
    <3>1. Fits(0, c)
      OBVIOUS
    <3> QED BY <3>1
  <2>2. ASSUME NEW n \in Nat, n \in S PROVE n + 1 \in S
    <3>1. PICK g \in [D -> V] : Fits(n, g)
      BY <2>2
    <3> DEFINE k == [d \in D |-> IF d \in Z THEN c[d] ELSE B[d][g[next[d]]]]
    <3>2. k \in [D -> V]
      OBVIOUS
    <3>3. ASSUME NEW d \in D, mu[d] < n + 1
          PROVE  k[d] = IF d \in Z THEN c[d] ELSE B[d][k[next[d]]]
      <4>1. CASE d \in Z
        BY <4>1
      <4>2. CASE d \notin Z
        <5>1. next[d] \in D /\ mu[next[d]] < n
          <6>1. next[d] \in D /\ mu[d] \in Nat /\ mu[next[d]] \in Nat
            OBVIOUS
          <6> QED BY <3>3, <4>2, <6>1
        <5>2. k[next[d]] = g[next[d]]
          BY <3>1, <5>1
        <5> QED BY <4>2, <5>2
      <4> QED BY <4>1, <4>2
    <3> HIDE DEF k
    <3>4. Fits(n + 1, k)
      BY <3>3
    <3> QED BY <3>2, <3>4
  <2> HIDE DEF S
  <2> QED BY <2>1, <2>2, Induction
<1>2. \A n \in Nat : h(n) \in [D -> V] /\ Fits(n, h(n))
  BY <1>1
<1>3. ASSUME NEW m \in Nat, NEW n \in Nat, NEW e \in D, mu[e] < m, mu[e] < n
      PROVE  h(m)[e] = h(n)[e]
  <2> DEFINE G == h(m)
             H == h(n)
             Bad == {d \in D : mu[d] < m /\ mu[d] < n /\ G[d] # H[d]}
             T == {mu[d] : d \in Bad}
  <2>1. Fits(m, G) /\ Fits(n, H)
    BY <1>2
  <2> HIDE DEF h, G, H
  <2> SUFFICES ASSUME T # {} PROVE FALSE
    BY <1>3 DEF G, H
  <2>2. T \in SUBSET Nat
    OBVIOUS
  <2> HIDE DEF T
  <2>3. PICK x \in T : \A y \in T : x <= y
    BY <2>2, LeastNat
  <2>4. PICK d \in Bad : x = mu[d]
    BY <2>3 DEF T
  <2>5. d \notin Z
    BY <2>1, <2>4
  <2>6. next[d] \in D /\ mu[next[d]] < mu[d] /\ mu[d] \in Nat /\ mu[next[d]] \in Nat
    BY <2>4, <2>5
  <2>7. mu[next[d]] \notin T
    BY <2>3, <2>4, <2>6
  <2>8. next[d] \notin Bad
    BY <2>7 DEF T
  <2>9. G[next[d]] = H[next[d]]
    BY <2>4, <2>6, <2>8
  <2> QED BY <2>1, <2>4, <2>5, <2>9
<1> HIDE DEF h
<1>4. F \in [D -> V]
  BY <1>2
<1>5. ASSUME NEW d \in D PROVE F[d] = IF d \in Z THEN c[d] ELSE B[d][F[next[d]]]
  <2>1. F[d] = h(mu[d] + 1)[d] /\ mu[d] \in Nat
    OBVIOUS
  <2>2. Fits(mu[d] + 1, h(mu[d] + 1))
    BY <1>2, <2>1
  <2>3. F[d] = IF d \in Z THEN c[d] ELSE B[d][h(mu[d] + 1)[next[d]]]
    BY <2>1, <2>2
  <2>4. ASSUME d \notin Z PROVE h(mu[d] + 1)[next[d]] = F[next[d]]
    <3>1. next[d] \in D /\ mu[next[d]] \in Nat /\ mu[next[d]] < mu[d]
      BY <2>4
    <3>2. h(mu[d] + 1)[next[d]] = h(mu[next[d]] + 1)[next[d]]
      BY <1>3, <2>1, <3>1
    <3> QED BY <3>1, <3>2
  <2> QED BY <2>3, <2>4
<1> QED BY <1>4, <1>5

(* Sums over finite sets.                                                  *)
Pick(s) == CHOOSE x \in s : TRUE

(* F sums f up over the subsets of S, in the order in which elements are   *)
(* picked.                                                                 *)
SumsUp(F, f, S) ==
  F = [s \in SUBSET S |-> IF s = {} THEN 0 ELSE f[Pick(s)] + F[s \ {Pick(s)}]]

(* What is left of a finite set has an element fewer. *)
LEMMA Smaller ==
  ASSUME NEW S, IsFiniteSet(S)
  PROVE  \A s \in SUBSET S :
           /\ Cardinality(s) \in Nat /\ (Cardinality(s) = 0 <=> s = {})
           /\ s # {} => /\ Pick(s) \in s /\ s \ {Pick(s)} \in SUBSET S
                        /\ Cardinality(s \ {Pick(s)}) = Cardinality(s) - 1
<1> SUFFICES ASSUME NEW s \in SUBSET S
             PROVE  /\ Cardinality(s) \in Nat /\ (Cardinality(s) = 0 <=> s = {})
                    /\ s # {} => /\ Pick(s) \in s /\ s \ {Pick(s)} \in SUBSET S
                                 /\ Cardinality(s \ {Pick(s)}) = Cardinality(s) - 1
  OBVIOUS
<1>1. IsFiniteSet(s)
  BY FS_Subset
<1>2. Cardinality(s) \in Nat /\ (Cardinality(s) = 0 <=> s = {})
  BY <1>1, FS_CardinalityType, FS_EmptySet
<1>3. s # {} => Pick(s) \in s
  BY DEF Pick
<1>4. \A x \in s : Cardinality(s \ {x}) = Cardinality(s) - 1
  BY <1>1, FS_RemoveElement
<1> QED BY <1>2, <1>3, <1>4

(* Every function on a finite set has a sum. *)
LEMMA HasSum ==
  ASSUME NEW S, IsFiniteSet(S), NEW f \in [S -> Int]
  PROVE  \E F \in [SUBSET S -> Int] : SumsUp(F, f, S)
<1> DEFINE mu == [s \in SUBSET S |-> Cardinality(s)]
           next == [s \in SUBSET S |-> s \ {Pick(s)}]
           zero == [s \in SUBSET S |-> 0]
           B == [s \in SUBSET S |-> [v \in Int |-> IF s = {} THEN 0 ELSE f[Pick(s)] + v]]
<1>0. \A s \in SUBSET S :
        /\ Cardinality(s) \in Nat /\ (Cardinality(s) = 0 <=> s = {})
        /\ s # {} => /\ Pick(s) \in s /\ s \ {Pick(s)} \in SUBSET S
                     /\ Cardinality(s \ {Pick(s)}) = Cardinality(s) - 1
  BY Smaller
<1>1. mu \in [SUBSET S -> Nat] /\ next \in [SUBSET S -> SUBSET S] /\ zero \in [SUBSET S -> Int]
  <2>1. mu \in [SUBSET S -> Nat]
    BY <1>0
  <2>2. next \in [SUBSET S -> SUBSET S] /\ zero \in [SUBSET S -> Int]
    OBVIOUS
  <2> QED BY <2>1, <2>2
<1>2. B \in [SUBSET S -> [Int -> Int]]
  <2>1. ASSUME NEW s \in SUBSET S, s # {} PROVE f[Pick(s)] \in Int
    BY <2>1, <1>0
  <2> QED BY <2>1
<1>3. \A s \in (SUBSET S) \ {{}} : mu[next[s]] < mu[s]
  BY <1>0
<1>4. {{}} \in SUBSET SUBSET S
  OBVIOUS
<1> HIDE DEF mu, next, zero, B
<1>5. PICK F \in [SUBSET S -> Int] :
        \A s \in SUBSET S : F[s] = IF s \in {{}} THEN zero[s] ELSE B[s][F[next[s]]]
  <2> DEFINE D == SUBSET S
             Z == {{}}
  <2>1. Descends(D, Int, mu, next, Z, zero, B)
    BY <1>1, <1>2, <1>3, <1>4 DEF Descends
  <2> HIDE DEF D, Z
  <2>2. \E F \in [D -> Int] : \A s \in D : F[s] = IF s \in Z THEN zero[s] ELSE B[s][F[next[s]]]
    BY <2>1, Recursion
  <2> QED BY <2>2 DEF D, Z
<1>6. ASSUME NEW s \in SUBSET S
      PROVE  F[s] = IF s = {} THEN 0 ELSE f[Pick(s)] + F[s \ {Pick(s)}]
  <2>1. next[s] = s \ {Pick(s)} /\ zero[s] = 0 /\ F[next[s]] \in Int
    BY <1>1 DEF next, zero
  <2>2. s # {} => B[s][F[next[s]]] = f[Pick(s)] + F[next[s]]
    BY <2>1 DEF B
  <2> QED BY <1>5, <2>1, <2>2
<1> QED BY <1>6 DEF SumsUp

(* Sums are as near to each other as the summands are.                     *)
LEMMA SumsAreNear ==
  ASSUME NEW S, IsFiniteSet(S), NEW f \in [S -> Int], NEW g \in [S -> Int],
         \A n \in S : Near(f[n], g[n], 1),
         NEW F, SumsUp(F, f, S), NEW G, SumsUp(G, g, S)
  PROVE  S # {} => Near(F[S], G[S], Cardinality(S))
<1> DEFINE Close(s) == /\ F[s] \in Int /\ G[s] \in Int
                       /\ IF s = {} THEN F[s] = 0 /\ G[s] = 0
                                    ELSE Near(F[s], G[s], Cardinality(s))
           T == {n \in Nat : \A s \in SUBSET S : Cardinality(s) = n => Close(s)}
<1>0. \A s \in SUBSET S :
        /\ Cardinality(s) \in Nat /\ (Cardinality(s) = 0 <=> s = {})
        /\ s # {} => /\ Pick(s) \in s /\ s \ {Pick(s)} \in SUBSET S
                     /\ Cardinality(s \ {Pick(s)}) = Cardinality(s) - 1
  BY Smaller
<1>1. 0 \in T
  <2>1. F[{}] = 0 /\ G[{}] = 0
    BY DEF SumsUp
  <2>2. \A s \in SUBSET S : Cardinality(s) = 0 => s = {}
    BY <1>0
  <2>3. Close({})
    BY <2>1
  <2> QED BY <2>2, <2>3
<1>2. ASSUME NEW n \in Nat, n \in T PROVE n + 1 \in T
  <2> SUFFICES ASSUME NEW s \in SUBSET S, Cardinality(s) = n + 1 PROVE Close(s)
    OBVIOUS
  <2> DEFINE x == Pick(s)
             r == s \ {x}
  <2>1. x \in S /\ r \in SUBSET S /\ Cardinality(r) = n /\ s # {} /\ (r = {} <=> n = 0)
    <3>1. s # {}
      <4>1. Cardinality(s) # 0
        OBVIOUS
      <4> QED BY <1>0, <4>1
    <3>2. x \in s /\ r \in SUBSET S /\ Cardinality(r) = Cardinality(s) - 1
      BY <1>0, <3>1
    <3>3. Cardinality(r) = 0 <=> r = {}
      BY <1>0, <3>2
    <3> QED BY <3>1, <3>2, <3>3
  <2>2. F[s] = f[x] + F[r] /\ G[s] = g[x] + G[r]
    BY <2>1 DEF SumsUp
  <2>3. Close(r)
    BY <1>2, <2>1
  <2>4. Near(f[x], g[x], 1)
    BY <2>1
  <2>5. f[x] \in Int /\ g[x] \in Int /\ F[r] \in Int /\ G[r] \in Int
    BY <2>1, <2>3
  <2> HIDE DEF x, r
  <2> QED BY <2>1, <2>2, <2>3, <2>4, <2>5 DEF Near
<1> HIDE DEF T
<1>3. Nat \subseteq T
  BY <1>1, <1>2, Induction
<1> QED BY <1>3, <1>0 DEF T

(* A function on a finite set has a least value. *)
LEMMA HasLeast ==
  ASSUME NEW S, IsFiniteSet(S), S # {}, NEW f \in [S -> Int]
  PROVE  \E x \in S : \A y \in S : f[x] <= f[y]
<1> DEFINE T == {n \in Nat : \A s \in SUBSET S : Cardinality(s) = n /\ s # {} =>
                               \E x \in s : \A y \in s : f[x] <= f[y]}
<1>0. \A s \in SUBSET S :
        /\ Cardinality(s) \in Nat /\ (Cardinality(s) = 0 <=> s = {})
        /\ s # {} => /\ Pick(s) \in s /\ s \ {Pick(s)} \in SUBSET S
                     /\ Cardinality(s \ {Pick(s)}) = Cardinality(s) - 1
  BY Smaller
<1>1. 0 \in T
  BY <1>0
<1>2. ASSUME NEW n \in Nat, n \in T PROVE n + 1 \in T
  <2> SUFFICES ASSUME NEW s \in SUBSET S, Cardinality(s) = n + 1, s # {}
               PROVE  \E x \in s : \A y \in s : f[x] <= f[y]
    OBVIOUS
  <2> DEFINE x == Pick(s)
             r == s \ {x}
  <2>1. x \in s /\ r \in SUBSET S /\ Cardinality(r) = n
    BY <1>0
  <2>2. CASE r = {}
    <3>1. s = {x} /\ f[x] \in Int
      BY <2>1, <2>2
    <3> QED BY <3>1
  <2>3. CASE r # {}
    <3>1. PICK z \in r : \A y \in r : f[z] <= f[y]
      BY <1>2, <2>1, <2>3
    <3>2. \A y \in s : f[y] \in Int
      OBVIOUS
    <3>3. z \in s /\ s = r \cup {x}
      BY <2>1, <3>1
    <3> HIDE DEF x, r
    <3>4. CASE f[z] <= f[x]
      BY <3>1, <3>3, <3>4
    <3>5. CASE f[x] <= f[z]
      BY <2>1, <3>1, <3>2, <3>3, <3>5
    <3> QED BY <2>1, <3>2, <3>3, <3>4, <3>5
  <2> QED BY <2>2, <2>3
<1> HIDE DEF T
<1>3. Nat \subseteq T
  BY <1>1, <1>2, Induction
<1> QED BY <1>3, <1>0 DEF T

------------------------------------------------------------------------------
(* What the archive holds *)

(* The archive holds the jobs that were taken, and a worker that took a    *)
(* kill job left no command behind in the list; main writes the statistics *)
(* when every worker has exited.                                           *)
Joined ==
  /\ dpc = "join" => \A w \in 1 .. i : wpc[w] = "exited"
  /\ dpc \in {"stats", "free", "done"} => \A w \in Workers : wpc[w] = "exited"

ArchiveInv ==
  /\ Commands(archive) = Running \cup finished
  /\ Commands(queue) \cup Running \cup finished \subseteq Submitted
  /\ \A w \in Workers : wpc[w] \in {"quit", "exited"} =>
                           archive # <<>> /\ Commands(queue) = {}
  /\ Joined

(* A worker that has exited stays so, and one quits only by taking a kill job. *)
LEMMA ExitedStays ==
  ASSUME IInv, [Next]_vars, NEW w \in Workers
  PROVE  /\ wpc[w] = "exited" => wpc'[w] = "exited"
         /\ wpc'[w] \in {"quit", "exited"} =>
              wpc[w] \in {"quit", "exited"} \/ Take(w)
<1> USE DEF IInv, TypeOK
<1>1. CASE CreateThread
  <2>1. i + 1 \in Workers /\ (w = i + 1 => wpc[w] = "unborn")
    BY <1>1, JobQueueAssumption DEF CreateThread, Workers, NotCreatedYet
  <2> QED BY <1>1, <2>1 DEF CreateThread
<1>2. CASE ReadWorker \/ SendKill
  BY <1>2 DEF ReadWorker, SendKill, Enqueue, SignalNonEmpty, Asleep
<1>3. CASE ReadMsleep \/ ReadWait \/ QEmptySeen \/ NoActiveSeen \/ EndOfFile \/ JoinThread
           \/ WriteStats \/ FreeQueue \/ SpuriousDispatcher \/ UNCHANGED vars
  BY <1>3 DEF ReadMsleep, ReadWait, QEmptySeen, NoActiveSeen, EndOfFile, JoinThread,
              WriteStats, FreeQueue, SpuriousDispatcher, vars
<1>4. ASSUME NEW v \in Workers, Worker(v) \/ SpuriousWorker(v)
      PROVE  /\ wpc[w] = "exited" => wpc'[w] = "exited"
             /\ wpc'[w] \in {"quit", "exited"} =>
                  wpc[w] \in {"quit", "exited"} \/ Take(w)
  <2>1. CASE Take(v)
    <3>1. CASE v = w
      BY <2>1, <3>1 DEF Take
    <3>2. CASE v # w
      BY <2>1, <3>2 DEF Take
    <3> QED BY <3>1, <3>2
  <2>2. CASE ~Take(v)
    BY <1>4, <2>2 DEF Worker, Doze, Run, DecrementActive, Exit, SpuriousWorker
  <2> QED BY <2>1, <2>2
<1> QED BY <1>1, <1>2, <1>3, <1>4 DEF Next, Dispatcher, Terminated

(* The main thread passes the join loop when every worker has exited. *)
LEMMA NextJoined == IInv /\ Joined /\ [Next]_vars => Joined'
<1> SUFFICES ASSUME IInv, Joined, [Next]_vars PROVE Joined'
  OBVIOUS
<1>0. \A w \in Workers : wpc[w] = "exited" => wpc'[w] = "exited"
  BY ExitedStays
<1>1. i \in 0 .. NumThreads - 1 /\ NumThreads \in Nat /\ Workers = 1 .. NumThreads
  BY JobQueueAssumption DEF IInv, TypeOK, Workers
<1>2. CASE SendKill
  <2>1. dpc' \in {"kill", "join"} /\ (dpc' = "join" => i' = 0)
    BY <1>2 DEF SendKill, Loop
  <2> QED BY <2>1 DEF Joined
<1>3. CASE JoinThread
  <2>1. \A w \in 1 .. i + 1 : w \in Workers /\ wpc'[w] = "exited"
    BY <1>0, <1>1, <1>3 DEF JoinThread, Joined
  <2>2. CASE i + 1 = NumThreads
    <3>1. dpc' = "stats"
      BY <1>3, <2>2 DEF JoinThread, Loop
    <3> QED BY <1>1, <2>1, <2>2, <3>1 DEF Joined
  <2>3. CASE i + 1 # NumThreads
    <3>1. dpc' = "join" /\ i' = i + 1
      BY <1>3, <2>3 DEF JoinThread, Loop
    <3> QED BY <2>1, <3>1 DEF Joined
  <2> QED BY <2>2, <2>3
<1>4. CASE ~SendKill /\ ~JoinThread
  <2>1. /\ dpc' = "join" => dpc = "join" /\ i' = i
        /\ dpc' \in {"stats", "free", "done"} => dpc \in {"stats", "free", "done"}
    BY <1>4 DEF Next, Dispatcher, Terminated, CreateThread, Loop, ReadWorker, NextLineIs,
         ReadMsleep, ReadWait, QEmptySeen, NoActiveSeen, EndOfFile, WriteStats, FreeQueue,
         SpuriousDispatcher, Worker, Take, Doze, SignalQEmpty, Run, DecrementActive,
         SignalNoActive, Exit, SpuriousWorker, dispatcherVars, vars
  <2>2. \A w \in 1 .. i : w \in Workers
    BY <1>1
  <2> QED BY <1>0, <2>1, <2>2 DEF Joined
<1> QED BY <1>2, <1>3, <1>4

(* The job that is taken enters the archive, and is executed if it is a    *)
(* command; after a kill job there is no command in the list.              *)
LEMMA TakeArchives ==
  ASSUME IInv, NEW w \in Workers, Take(w)
  PROVE  /\ Commands(archive)' = Commands(archive) \cup (Running' \ Running)
         /\ Running \subseteq Running'
         /\ archive' # <<>>
         /\ wpc'[w] = "quit" => Commands(queue)' = {}
<1>1. /\ queue \in Seq(Jobs) /\ queue # <<>> /\ archive \in Seq(Jobs)
      /\ Jobs \subseteq Nat /\ Len(script) \in Nat /\ script' = script
  BY ScriptType, JobQueueAssumption DEF IInv, TypeOK, Take, Jobs, dispatcherVars
<1> DEFINE j == Head(queue)
           C == 1 .. Len(script)
<1>2. /\ j \in Jobs /\ 1 \in DOMAIN queue /\ queue[1] = j
      /\ \A k \in DOMAIN queue : queue[k] \in Nat /\ (k # 1 => j < queue[k])
      /\ \A k \in DOMAIN queue' : k + 1 \in DOMAIN queue /\ queue'[k] = queue[k + 1] /\ k + 1 # 1
  <2>1. /\ DOMAIN queue = 1 .. Len(queue) /\ Len(queue) \in Nat
        /\ \A k \in DOMAIN queue : queue[k] \in Jobs
    BY <1>1, SeqElements
  <2>2. /\ DOMAIN queue' = 1 .. Len(queue) - 1 /\ Head(queue) = queue[1]
        /\ \A k \in 1 .. Len(queue) - 1 : queue'[k] = queue[k + 1]
        /\ Len(queue) >= 1
    BY <1>1, TailElements DEF Take
  <2>3. queue[1] \in Jobs /\ 1 \in DOMAIN queue
    BY <2>1, <2>2
  <2>4. \A k \in DOMAIN queue : queue[k] \in Nat /\ (k # 1 => queue[1] < queue[k])
    <3>1. \A k \in DOMAIN queue : queue[k] \in Nat /\ (k # 1 => 1 < k)
      <4>1. \A k \in 1 .. Len(queue) : k # 1 => 1 < k
        BY <2>1
      <4> QED BY <1>1, <2>1, <4>1
    <3>2. \A k, l \in DOMAIN queue : k < l => queue[k] < queue[l]
      BY DEF IInv, JobsOrdered
    <3> QED BY <2>3, <3>1, <3>2
  <2>5. \A k \in 1 .. Len(queue) - 1 : k + 1 \in 1 .. Len(queue) /\ k + 1 # 1
    BY <2>1
  <2> QED BY <2>1, <2>2, <2>3, <2>4, <2>5
<1>3. /\ archive' # <<>>
      /\ {archive'[k] : k \in DOMAIN archive'} = {archive[k] : k \in DOMAIN archive} \cup {j}
  <2>0. archive' = <<j>> \o archive
    BY DEF Take
  <2> HIDE DEF j
  <2>1. /\ DOMAIN archive' = 1 .. Len(archive) + 1 /\ archive'[1] = j
        /\ \A k \in 1 .. Len(archive) : archive'[k + 1] = archive[k]
        /\ DOMAIN archive = 1 .. Len(archive) /\ Len(archive) \in Nat
    BY <1>1, <1>2, <2>0
  <2>2. \A k \in 1 .. Len(archive) : k + 1 \in 1 .. Len(archive) + 1
    BY <2>1
  <2>3. \A k \in 1 .. Len(archive) + 1 : k # 1 => k - 1 \in 1 .. Len(archive) /\ (k - 1) + 1 = k
    BY <2>1
  <2>4. 1 \in DOMAIN archive'
    BY <2>1
  <2>5. ASSUME NEW k \in DOMAIN archive', k # 1
        PROVE  archive'[k] \in {archive[l] : l \in DOMAIN archive}
    <3>1. k - 1 \in 1 .. Len(archive) /\ (k - 1) + 1 = k
      BY <2>1, <2>3, <2>5
    <3>2. archive'[(k - 1) + 1] = archive[k - 1] /\ k - 1 \in DOMAIN archive
      BY <2>1, <3>1
    <3> QED BY <3>1, <3>2
  <2>6. archive' # <<>>
    BY <2>4
  <2>7. ASSUME NEW k \in DOMAIN archive
        PROVE  archive[k] \in {archive'[l] : l \in DOMAIN archive'}
    BY <2>1, <2>2
  <2> QED BY <2>1, <2>4, <2>5, <2>6, <2>7
<1>4. Commands(archive)' = Commands(archive) \cup ({j} \cap C)
  BY <1>1, <1>3 DEF Commands
<1>5. CASE IsKill(j)
  <2>1. Executing' = Executing /\ j \notin C
    BY <1>1, <1>5, <1>2 DEF Take, Executing, IInv, TypeOK, IsKill
  <2>2. Running' = Running
    BY <2>1 DEF Running, Take, Executing, IInv, TypeOK
  <2>3. \A k \in DOMAIN queue' : queue'[k] \notin C
    BY <1>1, <1>2, <1>5 DEF IsKill, Jobs
  <2>4. Commands(queue)' = {}
    BY <1>1, <2>3 DEF Commands
  <2> QED BY <1>3, <1>4, <2>1, <2>2, <2>4
<1>6. CASE ~IsKill(j)
  <2>1. Executing' = Executing \cup {w} /\ w \notin Executing /\ wpc'[w] = "run"
    BY <1>6 DEF Take, Executing, IInv, TypeOK
  <2>2. Running' = Running \cup {j}
    BY <2>1 DEF Running, Take, Executing, IInv, TypeOK
  <2>3. j \in C
    BY <1>1, <1>2, <1>6 DEF IsKill, Jobs
  <2>4. j \notin Running
    <3>1. \A v \in Executing : job[v] < j
      BY <1>2 DEF IInv, JobsOrdered
    <3> QED BY <1>2, <3>1, <1>1 DEF Running
  <2> QED BY <1>3, <1>4, <2>1, <2>2, <2>3, <2>4
<1> QED BY <1>5, <1>6

(* What the archive holds, in every reachable state. *)
LEMMA ArchiveInvAlways == Spec => []ArchiveInv
<1>1. Init => ArchiveInv
  BY DEF Init, ArchiveInv, Joined, Commands, Running, Executing
<1>2. IInv /\ IdleInv /\ ArchiveInv /\ [Next]_vars => ArchiveInv'
  <2> SUFFICES ASSUME IInv, IdleInv, ArchiveInv, [Next]_vars PROVE ArchiveInv'
    OBVIOUS
  <2>1. Joined'
    BY NextJoined DEF ArchiveInv
  <2>2. Commands(queue)' \cup Running' \cup finished' \subseteq Submitted'
    BY PoolStep DEF ArchiveInv, Unseen, Submits, Starts, Finishes
  <2>3. CASE \E w \in Workers : Take(w)
    <3>1. PICK w \in Workers : Take(w)
      BY <2>3
    <3>2. /\ Commands(archive)' = Commands(archive) \cup (Running' \ Running)
          /\ Running \subseteq Running' /\ archive' # <<>>
          /\ wpc'[w] = "quit" => Commands(queue)' = {}
      BY <3>1, TakeArchives
    <3>3. finished' = finished
      BY <3>1 DEF Take
    <3>4. Commands(queue)' \subseteq Commands(queue)
      BY <3>1, TakeStep DEF Unseen, Starts
    <3>5. \A v \in Workers : v # w => wpc'[v] = wpc[v]
      BY <3>1 DEF Take, IInv, TypeOK
    <3>6. wpc'[w] # "exited"
      BY <3>1 DEF Take, IInv, TypeOK
    <3> QED BY <2>1, <2>2, <3>2, <3>3, <3>4, <3>5, <3>6 DEF ArchiveInv
  <2>4. CASE \A w \in Workers : ~Take(w)
    <3>1. archive' = archive /\ script' = script
      BY <2>4 DEF Next, Dispatcher, Terminated, CreateThread, ReadWorker, SendKill, JoinThread,
         ReadMsleep, ReadWait, QEmptySeen, NoActiveSeen, EndOfFile, WriteStats, FreeQueue,
         SpuriousDispatcher, Worker, Doze, Run, DecrementActive,
         Exit, SpuriousWorker, dispatcherVars, vars
    <3>2. Commands(archive)' = Commands(archive)
      BY <3>1 DEF Commands
    <3>3. /\ Running' \cup finished' = Running \cup finished
          /\ ReadWorker \/ Commands(queue)' = Commands(queue)
      <4>1. CASE \E w \in Workers : Run(w)
        BY <4>1, RunStep DEF Finishes
      <4>2. CASE ReadWorker
        BY <4>2, ReadWorkerStep DEF Submits
      <4>3. CASE ~ReadWorker /\ \A w \in Workers : ~Run(w)
        BY <2>4, <4>3, UnseenStep DEF Unseen
      <4> QED BY <4>1, <4>2, <4>3
    <3>4. \A w \in Workers : wpc'[w] \in {"quit", "exited"} => wpc[w] \in {"quit", "exited"}
      BY <2>4, ExitedStays
    <3>5. ReadWorker => \A w \in Workers : wpc[w] \notin {"quit", "exited"}
      BY DEF IdleInv, Reading, ReadWorker, NextLineIs
    <3> QED BY <2>1, <2>2, <3>1, <3>2, <3>3, <3>4, <3>5 DEF ArchiveInv
  <2> QED BY <2>3, <2>4
<1> QED BY <1>1, <1>2, Inductive, IdleInvAlways, PTL DEF Spec

(* When main writes the statistics, the archive holds the lines of the file. *)
LEMMA AllExecuted ==
  ASSUME IInv, Kept, ArchiveInv, dpc \in {"stats", "free", "done"}
  PROVE  /\ finished = Submitted /\ Commands(archive) = finished /\ archive # <<>>
<1>1. \A w \in Workers : wpc[w] = "exited"
  BY DEF ArchiveInv, Joined
<1>2. 1 \in Workers
  BY JobQueueAssumption DEF Workers
<1>3. Running = {}
  BY <1>1 DEF Running, Executing
<1>4. Commands(queue) = {} /\ archive # <<>>
  BY <1>1, <1>2 DEF ArchiveInv
<1> QED BY <1>3, <1>4 DEF ArchiveInv, Kept

(* C's division of integers is off by less than one. *)
LEMMA QuotientNear ==
  ASSUME NEW d \in Int
  PROVE  LET q == Quotient(d, 1000)
         IN  q \in Int /\ -1000 < 1000 * q - d /\ 1000 * q - d < 1000
<1> DEFINE Floor(n) == n \div 1000
<1>1. \A n \in Nat : Floor(n) \in Int /\ 1000 * Floor(n) <= n /\ n < 1000 * Floor(n) + 1000
  OBVIOUS
<1>2. CASE d < 0
  <2>1. Quotient(d, 1000) = -Floor(-d) /\ -d \in Nat
    BY <1>2 DEF Quotient
  <2> HIDE DEF Floor
  <2> QED BY <1>1, <2>1
<1>3. CASE ~(d < 0)
  <2>1. Quotient(d, 1000) = Floor(d) /\ d \in Nat
    BY <1>3 DEF Quotient
  <2> HIDE DEF Floor
  <2> QED BY <1>1, <2>1
<1> QED BY <1>2, <1>3

(* A millisecond off at most: seconds and microseconds subtracted apart. *)
LEMMA TurnaroundNear ==
  ASSUME NEW p \in Periods
  PROVE  /\ Turnaround(p) \in Int /\ Usec(p.end) - Usec(p.start) \in Int
         /\ Near(Turnaround(p), Usec(p.end) - Usec(p.start), 1)
<1>1. p.start \in Stamps /\ p.end \in Stamps
  BY DEF Periods
<1>2. \A t \in Stamps : t.sec \in Int /\ t.usec \in Int
  BY StampsAssumption
<1> DEFINE s == p.end.sec - p.start.sec
           d == p.end.usec - p.start.usec
           q == Quotient(d, 1000)
<1>3. s \in Int /\ d \in Int
  BY <1>1, <1>2
<1>4. Usec(p.end) - Usec(p.start) = 1000000 * s + d
  BY <1>1, <1>2 DEF Usec
<1>5. Turnaround(p) = s * 1000 + q
  BY DEF Turnaround
<1> HIDE DEF s, d
<1>6. q \in Int /\ -1000 < 1000 * q - d /\ 1000 * q - d < 1000
  BY <1>3, QuotientNear
<1> HIDE DEF q
<1> QED BY <1>3, <1>4, <1>5, <1>6 DEF Near

(* The least and the greatest value of a function on a finite set. *)
LEMMA MinMax ==
  ASSUME NEW S, IsFiniteSet(S), S # {}, NEW f \in [S -> Int],
         NEW T, \A n \in S : f[n] \in T, \A v \in T : \E n \in S : v = f[n]
  PROVE  /\ \E x \in S : Min(T) = f[x] /\ \A y \in S : f[x] <= f[y]
         /\ \E x \in S : Max(T) = f[x] /\ \A y \in S : f[y] <= f[x]
<1> DEFINE h == [n \in S |-> -f[n]]
<1>1. \E x \in T : \A y \in T : x <= y
  BY HasLeast
<1>2. \E x \in T : \A y \in T : x >= y
  <2>1. h \in [S -> Int]
    OBVIOUS
  <2> HIDE DEF h
  <2>2. PICK x \in S : \A y \in S : h[x] <= h[y]
    BY <2>1, HasLeast
  <2>3. \A y \in S : f[x] \in Int /\ f[y] \in Int /\ h[x] = -f[x] /\ h[y] = -f[y]
    BY DEF h
  <2> QED BY <2>2, <2>3
<1>3. Min(T) \in T /\ \A y \in T : Min(T) <= y
  BY <1>1 DEF Min
<1>4. Max(T) \in T /\ \A y \in T : Max(T) >= y
  BY <1>2 DEF Max
<1>5. \A y \in S : f[y] \in Int /\ f[y] \in T
  OBVIOUS
<1>6. PICK x \in S : Min(T) = f[x]
  BY <1>3
<1>7. PICK z \in S : Max(T) = f[z]
  BY <1>4
<1>8. \A y \in S : f[x] <= f[y] /\ f[y] <= f[z]
  BY <1>3, <1>4, <1>5, <1>6, <1>7
<1> QED BY <1>6, <1>7, <1>8

(* r totals f up over S.                                                   *)
Totalled(r, f, S) ==
  /\ \E G : SumsUp(G, f, S) /\ r.sum = G[S]
  /\ \E x \in S : r.min = f[x] /\ \A y \in S : f[x] <= f[y]
  /\ \E x \in S : r.max = f[x] /\ \A y \in S : f[y] <= f[x]
  /\ r.count = Cardinality(S)

(* What is written of an archive with jobs. *)
LEMMA TotalsAre ==
  ASSUME NEW S, IsFiniteSet(S), S # {}, Measured = S,
         NEW p, NEW f \in [S -> Int], \A n \in S : f[n] = Turnaround(p[n])
  PROVE  Totalled(Totals(p), f, S)
<1>1. PICK F : SumsUp(F, f, S)
  BY HasSum
<1> DEFINE Total(G) == G = [s \in SUBSET S |->
                              IF s = {} THEN 0 ELSE Turnaround(p[Pick(s)]) + G[s \ {Pick(s)}]]
<1>2. \A G : SumsUp(G, f, S) <=> Total(G)
  <2> SUFFICES ASSUME NEW G PROVE SumsUp(G, f, S) <=> Total(G)
    OBVIOUS
  <2>1. \A s \in SUBSET S : s # {} => f[Pick(s)] = Turnaround(p[Pick(s)])
    BY DEF Pick
  <2> QED BY <2>1 DEF SumsUp
<1>3. {f[n] : n \in S} = {Turnaround(p[n]) : n \in S}
  OBVIOUS
<1>4. \E G : /\ Total(G)
             /\ Totals(p) = [sum |-> G[S], min |-> Min({Turnaround(p[n]) : n \in S}),
                             max |-> Max({Turnaround(p[n]) : n \in S}), count |-> Cardinality(S)]
  <2>1. Total(F)
    BY <1>1, <1>2
  <2> QED BY <2>1, Zenon DEF Totals, MapThenSumSet, MapThenFoldSet, Pick
<1>5. PICK G : /\ Total(G)
               /\ Totals(p) = [sum |-> G[S], min |-> Min({f[n] : n \in S}),
                               max |-> Max({f[n] : n \in S}), count |-> Cardinality(S)]
  BY <1>3, <1>4, Zenon
<1> HIDE DEF Total
<1>6. SumsUp(G, f, S) /\ Totals(p).sum = G[S]
  BY <1>2, <1>5
<1>7. /\ Totals(p).min = Min({f[n] : n \in S}) /\ Totals(p).max = Max({f[n] : n \in S})
      /\ Totals(p).count = Cardinality(S)
  BY <1>5
<1> DEFINE T == {f[n] : n \in S}
<1>8. (\A n \in S : f[n] \in T) /\ (\A v \in T : \E n \in S : v = f[n])
  OBVIOUS
<1>9. Totals(p).min = Min(T) /\ Totals(p).max = Max(T)
  BY <1>7
<1> HIDE DEF T
<1>10. /\ \E x \in S : Min(T) = f[x] /\ \A y \in S : f[x] <= f[y]
       /\ \E x \in S : Max(T) = f[x] /\ \A y \in S : f[y] <= f[x]
  BY <1>8, MinMax
<1>11. \E H : SumsUp(H, f, S) /\ Totals(p).sum = H[S]
  BY <1>6
<1> QED BY <1>7, <1>9, <1>10, <1>11 DEF Totalled

------------------------------------------------------------------------------
(* The statistics *)

(* ReportIsTrue without sums and minima: what it says of any function that *)
(* sums the times up, and of any job that took least or most.              *)
ReportInv ==
  dpc \in {"free", "done"} =>
    LET r == Head(report)
    IN  /\ \A n \in finished : Spent(n) \in Int
        /\ IF finished = {} THEN r = NoJobs
           ELSE /\ r.count = Cardinality(finished)
                /\ \A G : SumsUp(G, [n \in finished |-> Spent(n)], finished) =>
                            Near(r.sum, G[finished], r.count)
                /\ \A x \in finished : (\A y \in finished : Spent(x) <= Spent(y)) =>
                                         Near(r.min, Spent(x), 1)
                /\ \A x \in finished : (\A y \in finished : Spent(y) <= Spent(x)) =>
                                         Near(r.max, Spent(x), 1)

(* The lines of the file can be counted. *)
LEMMA FinishedFinite == TypeOK => IsFiniteSet(finished) /\ Cardinality(finished) \in Nat
<1> SUFFICES ASSUME TypeOK PROVE IsFiniteSet(finished) /\ Cardinality(finished) \in Nat
  OBVIOUS
<1>1. IsFiniteSet(1 .. Len(script))
  BY ScriptType, FS_Interval DEF TypeOK
<1> QED BY <1>1, FS_Subset, FS_CardinalityType DEF TypeOK

(* The jobs that are measured are the commands of the archive. *)
LEMMA MeasuredCommands == TypeOK => Measured = Commands(archive)
<1> SUFFICES ASSUME TypeOK PROVE Measured = Commands(archive)
  OBVIOUS
<1>1. /\ DOMAIN archive = 1 .. Len(archive) /\ \A k \in DOMAIN archive : archive[k] \in Jobs
      /\ Len(script) \in Nat /\ Jobs \subseteq Nat \ {0}
  BY ScriptType, SeqElements, JobQueueAssumption DEF TypeOK, Jobs
<1>2. ToSet(archive) = {archive[k] : k \in DOMAIN archive}
  BY <1>1 DEF ToSet
<1>3. \A n \in Jobs : ~IsKill(n) <=> n \in 1 .. Len(script)
  BY <1>1 DEF IsKill
<1>4. Measured = {n \in {archive[k] : k \in DOMAIN archive} : ~IsKill(n)}
  BY <1>2, Zenon DEF Measured
<1> QED BY <1>1, <1>3, <1>4 DEF Commands

(* What is written is near the times really spent. *)
LEMMA WriteReportTrue ==
  ASSUME IInv, Kept, ArchiveInv, WriteReport
  PROVE  ReportInv'
<1> DEFINE S == finished
<1>1. /\ finished = Submitted /\ Measured = S /\ archive # <<>> /\ finished' = finished
      /\ IsFiniteSet(S) /\ Cardinality(S) \in Nat
  BY AllExecuted, MeasuredCommands, FinishedFinite DEF IInv, WriteReport, WriteStats
<1>2. \A n \in S : times'[n] \in Periods
  BY <1>1 DEF WriteReport, Measured
<1> DEFINE f == [n \in S |-> Turnaround(times'[n])]
           g == [n \in S |-> Usec(times'[n].end) - Usec(times'[n].start)]
           r == Report(times')
<1>3. /\ \A n \in S : f[n] \in Int /\ g[n] \in Int /\ Near(f[n], g[n], 1)
      /\ f \in [S -> Int] /\ g \in [S -> Int]
  BY <1>2, TurnaroundNear
<1>4. /\ Head(report)' = r
      /\ \A n \in S : Spent(n)' = g[n]
      /\ [n \in finished |-> Spent(n)]' = g
  BY <1>1 DEF WriteReport, Spent
<1>5. CASE S = {}
  <2>1. r = NoJobs
    BY <1>1, <1>5 DEF Report
  <2> QED BY <1>1, <1>3, <1>4, <1>5, <2>1 DEF ReportInv
<1>6. CASE S # {}
  <2>1. r = Totals(times')
    BY <1>1, <1>6 DEF Report
  <2>2. \A n \in S : f[n] = Turnaround(times'[n])
    OBVIOUS
  <2> HIDE DEF f, g, r, S
  <2>3. Totalled(r, f, S)
    <3>1. IsFiniteSet(S) /\ S # {} /\ Measured = S /\ f \in [S -> Int]
      BY <1>1, <1>3, <1>6
    <3> QED BY <2>1, <2>2, <3>1, TotalsAre, Zenon
  <2>4. ASSUME NEW G, SumsUp(G, g, S) PROVE Near(r.sum, G[S], r.count)
    <3>1. PICK F : SumsUp(F, f, S) /\ r.sum = F[S]
      BY <2>3 DEF Totalled
    <3>2. r.count = Cardinality(S)
      BY <2>3 DEF Totalled
    <3> QED BY <1>1, <1>3, <1>6, <2>4, <3>1, <3>2, SumsAreNear
  <2>5. PICK x \in S : r.min = f[x] /\ \A y \in S : f[x] <= f[y]
    BY <2>3 DEF Totalled
  <2>6. PICK z \in S : r.max = f[z] /\ \A y \in S : f[y] <= f[z]
    BY <2>3 DEF Totalled
  <2>7. ASSUME NEW m \in S, \A y \in S : g[m] <= g[y] PROVE Near(r.min, g[m], 1)
    <3>1. f[x] <= f[m] /\ g[m] <= g[x]
      BY <2>5, <2>7
    <3>2. f[x] \in Int /\ f[m] \in Int /\ g[m] \in Int /\ g[x] \in Int
      BY <1>3
    <3>3. Near(f[x], g[x], 1) /\ Near(f[m], g[m], 1)
      BY <1>3
    <3> QED BY <2>5, <3>1, <3>2, <3>3 DEF Near
  <2>8. ASSUME NEW m \in S, \A y \in S : g[y] <= g[m] PROVE Near(r.max, g[m], 1)
    <3>1. f[m] <= f[z] /\ g[z] <= g[m]
      BY <2>6, <2>8
    <3>2. f[z] \in Int /\ f[m] \in Int /\ g[m] \in Int /\ g[z] \in Int
      BY <1>3
    <3>3. Near(f[z], g[z], 1) /\ Near(f[m], g[m], 1)
      BY <1>3
    <3> QED BY <2>6, <3>1, <3>2, <3>3 DEF Near
  <2>9. finished' = S
    BY <1>1 DEF S
  <2>10. r.count = Cardinality(S)
    BY <2>3 DEF Totalled
  <2> QED BY <1>3, <1>4, <1>6, <2>4, <2>7, <2>8, <2>9, <2>10 DEF ReportInv
<1> QED BY <1>5, <1>6

(* Once written, the report is about what no step changes any more. *)
LEMMA OtherReport ==
  ASSUME IInv, ArchiveInv, ReportInv, [Other]_<<vars, statsVars>>
  PROVE  ReportInv'
<1> SUFFICES ASSUME dpc' \in {"free", "done"} PROVE ReportInv'
  BY DEF ReportInv
<1>1. dpc \in {"free", "done"}
  BY DEF Other, Next, Dispatcher, Terminated, CreateThread, Loop, ReadWorker, NextLineIs,
         ReadMsleep, ReadWait, QEmptySeen, NoActiveSeen, EndOfFile, SendKill, JoinThread,
         WriteStats, FreeQueue, SpuriousDispatcher, Worker, Take, Doze, SignalQEmpty, Run,
         DecrementActive, SignalNoActive, Exit, SpuriousWorker, dispatcherVars, vars
<1>2. \A w \in Workers : wpc[w] = "exited"
  BY <1>1 DEF ArchiveInv, Joined
<1>3. finished' = finished
  BY <1>1, <1>2 DEF Other, Next, Dispatcher, Terminated, CreateThread, ReadWorker, NextLineIs,
         ReadMsleep, ReadWait, QEmptySeen, NoActiveSeen, EndOfFile, SendKill, JoinThread,
         WriteStats, FreeQueue, SpuriousDispatcher, Worker, Take, Doze, Run,
         DecrementActive, Exit, SpuriousWorker, dispatcherVars, vars
<1>4. UNCHANGED <<times, report>>
  BY DEF Other, statsVars
<1>5. /\ \A n \in finished : Spent(n)' = Spent(n)
      /\ [n \in finished |-> Spent(n)]' = [n \in finished |-> Spent(n)]
      /\ Head(report)' = Head(report)
  BY <1>3, <1>4 DEF Spent
<1> QED BY <1>1, <1>3, <1>5 DEF ReportInv

(* The sum, the least and the greatest time satisfy what ReportInv says of all. *)
LEMMA ReportIsTrueIf ==
  ASSUME IInv, Kept, ArchiveInv, ReportInv
  PROVE  ReportIsTrue
<1> SUFFICES ASSUME dpc \in {"free", "done"} PROVE ReportIsTrue
  BY DEF ReportIsTrue
<1> DEFINE r == Head(report)
           S == finished
           g == [n \in S |-> Spent(n)]
<1>1. finished = Submitted
  BY AllExecuted
<1>2. CASE S = {}
  BY <1>1, <1>2 DEF ReportIsTrue, ReportInv
<1>3. CASE S # {}
  <2>1. g \in [S -> Int] /\ IsFiniteSet(S)
    BY FinishedFinite DEF IInv, ReportInv
  <2>2. PICK F : SumsUp(F, g, S)
    BY <2>1, HasSum
  <2> DEFINE Total(G) == G = [s \in SUBSET S |->
                               IF s = {} THEN 0 ELSE Spent(Pick(s)) + G[s \ {Pick(s)}]]
  <2>3. \A G : SumsUp(G, g, S) <=> Total(G)
    <3> SUFFICES ASSUME NEW G PROVE SumsUp(G, g, S) <=> Total(G)
      OBVIOUS
    <3>1. \A s \in SUBSET S : s # {} => g[Pick(s)] = Spent(Pick(s))
      BY DEF Pick
    <3> QED BY <3>1 DEF SumsUp
  <2>4. \E G : Total(G) /\ MapThenSumSet(Spent, finished) = G[S]
    <3>1. Total(F)
      BY <2>2, <2>3
    <3> QED BY <3>1, Zenon DEF MapThenSumSet, MapThenFoldSet, Pick
  <2>5. Near(r.sum, MapThenSumSet(Spent, finished), r.count) /\ r.count = Cardinality(finished)
    <3>1. PICK G : Total(G) /\ MapThenSumSet(Spent, finished) = G[S]
      BY <2>4, Zenon
    <3>2. SumsUp(G, g, S)
      BY <2>3, <3>1, Zenon
    <3>3. Near(r.sum, G[S], r.count) /\ r.count = Cardinality(finished)
      BY <1>3, <3>2 DEF ReportInv
    <3> QED BY <3>1, <3>3, Zenon
  <2> DEFINE T == {Spent(n) : n \in finished}
  <2>6. \A n \in S : g[n] = Spent(n)
    OBVIOUS
  <2>7. (\A n \in S : g[n] \in T) /\ (\A v \in T : \E n \in S : v = g[n])
    OBVIOUS
  <2> HIDE DEF T, g
  <2>8. Near(r.min, Min(T), 1) /\ Near(r.max, Max(T), 1)
    <3>1. PICK x \in S : Min(T) = g[x] /\ \A y \in S : g[x] <= g[y]
      BY <1>3, <2>1, <2>7, MinMax
    <3>2. PICK z \in S : Max(T) = g[z] /\ \A y \in S : g[y] <= g[z]
      BY <1>3, <2>1, <2>7, MinMax
    <3> QED BY <1>3, <2>6, <3>1, <3>2 DEF ReportInv
  <2> HIDE DEF r
  <2>9. /\ finished = Submitted /\ finished # {} /\ r.count = Cardinality(finished)
        /\ Near(r.sum, MapThenSumSet(Spent, finished), r.count)
        /\ Near(r.min, Min({Spent(n) : n \in finished}), 1)
        /\ Near(r.max, Max({Spent(n) : n \in finished}), 1)
    BY <1>1, <1>3, <2>5, <2>8 DEF T
  <2> QED BY <2>9, Zenon DEF ReportIsTrue, r
<1> QED BY <1>2, <1>3

(* stats.txt counts every worker line of the file, each executed by then,  *)
(* and its times are within a millisecond per job of those really spent.   *)
THEOREM ReportCorrect == StatsFairSpec => []ReportIsTrue
<1>1. StatsInit => Init /\ ReportInv
  BY DEF StatsInit, Init, ReportInv
<1>2. [StatsNext]_<<vars, statsVars>> => [Next]_vars
  BY DEF StatsNext, Other, WriteReport, Next, Dispatcher, vars
<1>3. StatsFairSpec => Spec
  BY <1>1, <1>2, PTL DEF StatsFairSpec, Spec
<1>4. IInv /\ Kept /\ ArchiveInv /\ ReportInv /\ [StatsNext]_<<vars, statsVars>> => ReportInv'
  BY WriteReportTrue, OtherReport DEF StatsNext
<1>5. IInv /\ Kept /\ ArchiveInv /\ ReportInv => ReportIsTrue
  BY ReportIsTrueIf
<1> QED
  BY <1>1, <1>3, <1>4, <1>5, Inductive, KeptAlways, ArchiveInvAlways, PTL DEF StatsFairSpec
==============================================================================
