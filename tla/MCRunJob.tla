------------------------------ MODULE MCRunJob ------------------------------
(* Lines for model checking RunJob: at most MaxCommands commands, at most   *)
(* one of them a repeat.                                                    *)
EXTENDS RunJob

CONSTANTS MaxCommands, MaxRepeat

MCCommand ==
  [name : {"increment"}, arg : {1, 2}, pad : {0, 1}]
  \cup [name : {"msleep"}, arg : {3}, pad : {1}]
  \cup [name : {"repeat"}, arg : 0 .. MaxRepeat, pad : {0, 1}]

MCLines ==
  {l \in UNION {[1 .. n -> MCCommand] : n \in 1 .. MaxCommands} :
     \A j, k \in DOMAIN l :
       l[j].name = "repeat" /\ l[k].name = "repeat" => j = k}
=============================================================================
