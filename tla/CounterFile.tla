---------------------------- MODULE CounterFile ----------------------------
(***************************************************************************)
(* HW2: increment and decrement (basic_commands.c) on one counter, called  *)
(* by several workers.  The counter lives in a text file, countNN.txt; a   *)
(* call holds mutex_list[x], reads the number, goes back to the beginning  *)
(* of the file and writes the new number over the old one.  The file is    *)
(* opened "r+", so it is not truncated.                                    *)
(***************************************************************************)
EXTENDS Integers, SequencesExt

CONSTANTS
  Workers,   \* the threads that execute jobs
  Plans      \* what they are asked to begin with: for each worker a sequence
             \* of 1, -1

VARIABLES
  text,     \* the characters of the file: digits, perhaps after a minus
  mutex,    \* who holds mutex_list[x]: a set of at most one worker
  pc,       \* what each worker does next
  count,    \* the local variable count
  todo      \* the updates each worker has still to make

------------------------------------------------------------------------------
(* printf("%lld"), scanf("%lld"), and writing over a file *)

Digits[n \in Nat] ==
  IF n < 10 THEN <<n>> ELSE Append(Digits[n \div 10], n % 10)

Number(digits) == FoldLeft(LAMBDA v, d : 10 * v + d, 0, digits)

Minus == 10   \* the character "-"; the characters 0 .. 9 are the digits

Printed(n) == IF n < 0 THEN <<Minus>> \o Digits[-n] ELSE Digits[n]

Scanned(t) == IF Head(t) = Minus THEN -Number(Tail(t)) ELSE Number(t)

(* Mutant: the new number goes after the old one. *)
Overwritten_Append(old, new) == old \o new

(* What the file holds after `new' is written at offset 0.                 *)
Overwritten(old, new) == new \o SubSeq(old, Len(new) + 1, Len(old))

------------------------------------------------------------------------------
(* create_counter_files *)
Init ==
  /\ text = Printed(0)
  /\ mutex = {}
  /\ pc = [w \in Workers |-> "idle"]
  /\ count = [w \in Workers |-> 0]
  /\ todo \in Plans

(* Mutant: the mutex of another counter is taken. *)
Lock_Other(w) ==
  /\ pc[w] = "idle" /\ todo[w] # <<>>
  /\ mutex' = mutex \cup {w}
  /\ pc' = [pc EXCEPT ![w] = "read"]
  /\ UNCHANGED <<text, count, todo>>

Lock(w) ==
  /\ pc[w] = "idle" /\ todo[w] # <<>>
  /\ mutex = {}
  /\ mutex' = {w}
  /\ pc' = [pc EXCEPT ![w] = "read"]
  /\ UNCHANGED <<text, count, todo>>

(* fopen and fscanf. *)
ReadCount(w) ==
  /\ pc[w] = "read"
  /\ count' = [count EXCEPT ![w] = Scanned(text)]
  /\ pc' = [pc EXCEPT ![w] = "write"]
  /\ UNCHANGED <<text, mutex, todo>>

(* count++ or count--, fseek, fprintf; the text reaches the file in fclose. *)
WriteCount(w) ==
  /\ pc[w] = "write"
  /\ text' = Overwritten(text, Printed(count[w] + Head(todo[w])))
  /\ pc' = [pc EXCEPT ![w] = "unlock"]
  /\ UNCHANGED <<mutex, count, todo>>

Unlock(w) ==
  /\ pc[w] = "unlock"
  /\ mutex' = mutex \ {w}
  /\ todo' = [todo EXCEPT ![w] = Tail(@)]
  /\ pc' = [pc EXCEPT ![w] = "idle"]
  /\ UNCHANGED <<text, count>>

Worker(w) == Lock(w) \/ ReadCount(w) \/ WriteCount(w) \/ Unlock(w)

------------------------------------------------------------------------------
(* The number a worker is about to add to is still the one in the file:    *)
(* nobody wrote since it was read.                                         *)
CountIsFresh ==
  \A w \in Workers : pc[w] = "write" => count[w] = Scanned(text)
=============================================================================
