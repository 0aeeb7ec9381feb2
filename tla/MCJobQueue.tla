----------------------------- MODULE MCJobQueue -----------------------------
(***************************************************************************)
(* Command files for model checking JobQueue and JobStats: every file of   *)
(* at most MaxLines lines over the kinds of line in Kinds; and the clock:  *)
(* two readings within a millisecond, one just before the second is full,  *)
(* one just after.                                                         *)
(***************************************************************************)
EXTENDS JobStats

CONSTANTS MaxLines, Kinds

ASSUME MaxLines \in Nat /\ Kinds \subseteq LineKinds

MCScripts == UNION {[1 .. n -> Kinds] : n \in 0 .. MaxLines}

Stamp(s, u) == [sec |-> s, usec |-> u]

MCStamps == {Stamp(7, 400), Stamp(7, 1200), Stamp(7, 999900), Stamp(8, 300)}
==============================================================================
