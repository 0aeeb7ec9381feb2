-------------------------------- MODULE MCPs --------------------------------
(* Instances of Ps for TLC. *)
EXTENDS Ps

MCDurations == {1, -1}

(* Programs that sleep, and programs that come and go while ps runs.       *)
MCPrograms == {{"fork", "sleep", "kill"},
               {"fork", "exit", "wait", "kill", "open", "close", "ps"}}
=============================================================================
