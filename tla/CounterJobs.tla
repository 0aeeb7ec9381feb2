----------------------------- MODULE CounterJobs -----------------------------
(***************************************************************************)
(* HW2: run_job and increment, decrement together (basic_commands.c): the  *)
(* workers of RunJob call the functions of CounterFile.  Of the counters   *)
(* one is followed, countNN.txt for NN = Counter; the others have files    *)
(* and mutexes of their own.                                               *)
(***************************************************************************)
EXTENDS RunJob, Integers, FiniteSets

CONSTANT Counter   \* the counter that is followed

ASSUME CounterJobsAssumption == Counter \in Nat

VARIABLES
  text, mutex, count,        \* as in CounterFile
  call,                      \* its pc: where in increment or decrement
  todo,                      \* the call a worker is in, <<>> for none
  mixed                      \* history: workers that cut their lines at the
                             \* same time as another did

fileVars == <<text, mutex, count, call, todo>>
allVars == <<vars, fileVars, mixed>>

Idle == [w \in Workers |-> <<>>]

File == INSTANCE CounterFile WITH pc <- call, Plans <- {Idle}

JobsInit == Init /\ File!Init /\ mixed = {}

(* What a command adds to the counter.                                     *)
Change(c) ==
  CASE c.arg # Counter        -> <<>>
    [] c.name = "increment"   -> <<1>>
    [] c.name = "decrement"   -> <<-1>>
    [] OTHER                  -> <<>>

Cutting == {w \in Workers : pc[w] \in {"more", "name", "arg"}}

(* atoi(NULL) ends the program, all of its threads.                        *)
Crashed == \E w \in Workers : pc[w] = "crashed"

(* run_job goes on, when the function it called last has returned.         *)
JobStep(w) ==
  /\ ~Crashed
  /\ todo[w] = <<>>
  /\ Worker(w)
  /\ todo' = [todo EXCEPT ![w] =
       IF executed[w] = executed'[w] THEN @ ELSE Change(Last(executed'[w]))]
  /\ mixed' = IF pc[w] = "split" /\ Cutting # {} THEN mixed \cup Cutting \cup {w}
              ELSE mixed
  /\ UNCHANGED <<text, mutex, count, call>>

FileStep(w) == ~Crashed /\ File!Worker(w) /\ UNCHANGED <<vars, mixed>>

AllReturned == todo = Idle /\ \A w \in Workers : pc[w] = "done"

Over == (AllReturned \/ Crashed) /\ UNCHANGED allVars

JobsNext ==
  \/ \E w \in Workers : JobStep(w) \/ FileStep(w)
  \/ Over

JobsSpec == JobsInit /\ [][JobsNext]_allVars

(* A thread that can run is run; the mutex of a finite number of updates   *)
(* reaches everyone in the end.                                            *)
JobsFairSpec ==
  JobsSpec /\ \A w \in Workers : WF_allVars(JobStep(w) \/ FileStep(w))

------------------------------------------------------------------------------
(* What a worker owes the counter: of one that cut its line while no other *)
(* was cutting, what the line says; strtok mixes up the lines of those who *)
(* cut at the same time, and of them nothing is left but what they called. *)
Share(w) == IF w \in mixed THEN executed[w] ELSE Meaning(line[w])

(* What all the workers do to the counter, in some order.                  *)
Changes ==
  FlattenSeq([k \in DOMAIN SetToSeq(Workers) |->
    FlattenSeq([n \in DOMAIN Share(SetToSeq(Workers)[k]) |->
      Change(Share(SetToSeq(Workers)[k])[n])])])

(* When every job is done the file holds what the workers' lines add up    *)
(* to: of a line cut alone no command is left out, done twice or taken     *)
(* from another's, and of no worker, mixed up or not, is an update lost    *)
(* between the reading and the writing of the file, or are characters of   *)
(* an older number left in it.  "Run a string of commands in order" and    *)
(* "Increment a counter in a file" (basic_commands.h:20, 14).  A counter   *)
(* that goes up and down is left out: its text may become shorter, and the *)
(* file does not.                                                          *)
FileHoldsTheLines ==
  AllReturned /\ Cardinality(ToSet(Changes)) <= 1 =>
    text = File!Printed(FoldLeft(+, 0, Changes))

(* The number a worker is about to add to is still the one in the file:    *)
(* nobody wrote since it was read.                                         *)
CountIsFresh == File!CountIsFresh

(* A worker that cut its line alone executes that line (as in RunJob,      *)
(* ExecutesItsLine), whatever strtok does to the lines of others before    *)
(* and after it.                                                           *)
AloneExecutesItsLine ==
  \A w \in Workers \ mixed :
    /\ IsPrefix(executed[w], Meaning(line[w]))
    /\ pc[w] = "done" => executed[w] = Meaning(line[w])

(* Every job ends, however the lines are mixed up; or the program does, in *)
(* atoi(NULL), and then two workers were cutting at the same time.         *)
EveryJobEnds == <>(AllReturned \/ (Crashed /\ mixed # {}))
=============================================================================
