------------------------------ MODULE MCShell ------------------------------
(* An instance of ShellLines for TLC. *)
EXTENDS ShellLines, TLC

MCWords == {"ls", "cd", "jobs", "exit", "dir", "here", "f", ">", "&"}

MCLines ==
  {<<>>, <<"ls">>, <<"ls", "&">>, <<"ls", ">", "f">>, <<"ls", ">", "f", "&">>,
   <<"ls", ">">>, <<"ls", ">", "&">>, <<">", "f">>, <<"&">>, <<"jobs">>, <<"jobs", ">", "f">>,
   <<"jobs", "&">>, <<"cd", "dir", ">", "f", "&">>, <<"cd", "dir">>, <<"cd", "here">>,
   <<"exit">>, <<"exit", "&">>, <<"exit", "f">>}

MCSpelling ==
  [w \in {"dir", "here", "f"} |-> CASE w = "dir" -> <<"d", "/", ".", ".">>
                                    [] w = "here" -> <<".", "/", ".">>
                                    [] OTHER -> <<"f">>]

(* The system may give any pid that is free. *)
Symmetry == Permutations(Pids)
=============================================================================
