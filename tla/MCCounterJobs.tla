--------------------------- MODULE MCCounterJobs ---------------------------
(***************************************************************************)
(* Lines for model checking CounterJobs: two commands, or a repeat after   *)
(* one command and before at most another, on two counters, with and       *)
(* without the space after a semicolon.  The counter passes 9 and -9.      *)
(***************************************************************************)
EXTENDS CounterJobs

CONSTANT Rounds   \* the argument of repeat

ASSUME Rounds \in Nat

Up   == [name |-> "increment", arg |-> Counter, pad |-> 0]
Down == [name |-> "decrement", arg |-> Counter, pad |-> 0]

Others ==
  {[name |-> "increment", arg |-> Counter + 1, pad |-> 1],
   [name |-> "msleep", arg |-> Counter, pad |-> 1]}

Repeat(n) == [name |-> "repeat", arg |-> n, pad |-> 1]
Spaced(c) == [c EXCEPT !.pad = 1]

MCLines ==
  {<<Up, Spaced(Down)>>}
  \cup {<<c, Up>> : c \in Others}
  \cup {<<c, Repeat(Rounds), Spaced(c)>> : c \in {Up, Down}}
  \cup {<<Up, Repeat(0), Spaced(Up)>>}
=============================================================================
