------------------------------- MODULE JobStats -------------------------------
(***************************************************************************)
(* HW2: the statistics main writes at the end (print_job_stats_to_file),   *)
(* added to JobQueue.  gettimeofday stamps a job before and after its      *)
(* function is called; the stamps are read when all threads are joined, so *)
(* they are chosen then, from Stamps, instead of being kept with the job.  *)
(***************************************************************************)
EXTENDS JobQueue, SequencesExt

CONSTANT Stamps   \* the readings of gettimeofday considered

ASSUME StampsAssumption ==
  Stamps \subseteq [sec : Nat, usec : {u \in Nat : u < 1000000}]

VARIABLES
  times,    \* start_time and end_time of the jobs, once they are read
  report    \* what stats.txt says, <<>> before it is written

statsVars == <<times, report>>

StatsInit == Init /\ times = <<>> /\ report = <<>>

Usec(t) == 1000000 * t.sec + t.usec

(* The clock is not set back while a job runs.                             *)
Periods == {p \in [start : Stamps, end : Stamps] : Usec(p.start) <= Usec(p.end)}

(* add_kill_job sets both to {0, 0}.                                       *)
NoTime == [sec |-> 0, usec |-> 0]
KillPeriod == [start |-> NoTime, end |-> NoTime]

(* C's division of integers rounds towards zero.                           *)
Quotient(a, b) == IF a < 0 THEN -((-a) \div b) ELSE a \div b

(* Mutant: nothing is borrowed from the seconds. *)
Turnaround_NoBorrow(p) ==
  (p.end.sec - p.start.sec) * 1000 + Quotient(p.end.usec, 1000)

(* The turnaround time of a job, in milliseconds.                          *)
Turnaround(p) ==
  (p.end.sec - p.start.sec) * 1000 + Quotient(p.end.usec - p.start.usec, 1000)

(* The jobs of the archive whose arg is not NULL.                          *)
Measured == {n \in ToSet(archive) : ~IsKill(n)}

(* What is printed of no archive, and of one without such jobs, for which  *)
(* sum, min, average and max are 0, LLONG_MAX, 0.0 / 0 and LLONG_MIN.      *)
Empty  == [archived |-> 0]
NoJobs == [count |-> 0]

(* sum, min, max, and the average as sum and count.                        *)
Totals(period) ==
  LET spent(n) == Turnaround(period[n])
  IN  [sum   |-> MapThenSumSet(spent, Measured),
       min   |-> Min({spent(n) : n \in Measured}),
       max   |-> Max({spent(n) : n \in Measured}),
       count |-> Cardinality(Measured)]

Report(period) ==
  CASE archive = <<>> -> Empty
    [] Measured = {}  -> NoJobs
    [] OTHER          -> Totals(period)

WriteReport ==
  /\ WriteStats
  /\ \E p \in [Measured -> Periods] :
       /\ times' = [n \in ToSet(archive) |-> IF IsKill(n) THEN KillPeriod ELSE p[n]]
       /\ report' = <<Report(times')>>

Other ==
  /\ Next
  /\ ~(dpc = "stats" /\ dpc' = "free")
  /\ UNCHANGED statsVars

StatsNext == WriteReport \/ Other

StatsFairSpec == StatsInit /\ [][StatsNext]_<<vars, statsVars>> /\ Fairness

------------------------------------------------------------------------------
(* The statistics are about the worker lines of the file, each of which    *)
(* has been executed and stamped by then, and about nothing else; min and  *)
(* max are within a millisecond of the times really spent, and the sum     *)
(* within one per job, although seconds and microseconds are subtracted    *)
(* and rounded apart.  "Calculate sum, min, max, and count of job          *)
(* turnaround times" (job_queue.c:215).                                    *)
Near(ms, usec, n) == 1000 * (ms - n) < usec /\ usec < 1000 * (ms + n)

Spent(n) == Usec(times[n].end) - Usec(times[n].start)

ReportIsTrue ==
  dpc \in {"free", "done"} =>
    LET r == Head(report)
    IN  /\ finished = Submitted
        /\ IF finished = {} THEN r = NoJobs
           ELSE /\ r.count = Cardinality(finished)
                /\ Near(r.sum, MapThenSumSet(Spent, finished), r.count)
                /\ Near(r.min, Min({Spent(n) : n \in finished}), 1)
                /\ Near(r.max, Max({Spent(n) : n \in finished}), 1)
=============================================================================
