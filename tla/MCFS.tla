-------------------------------- MODULE MCFS --------------------------------
(* Two processes, each keeping to the calls and the paths of its part of a *)
(* scenario: creating, unlinking and closing one name; reading and writing *)
(* it meanwhile; blocks passing from a file to another; link racing unlink *)
(* and create; paths of every shape, with fork and exit; and more names    *)
(* than the directory has room for.                                        *)
EXTENDS FSCalls, TLC

VARIABLE mix   \* the scenario of a behaviour

A == <<"a">>
B == <<"b">>
C == <<"c">>
MCPaths == {A, B, C, <<".", "a">>, <<"a", "b">>, <<".">>, <<>>}
MCTransfers == {<<0, 1>>, <<0, 2>>, <<1, 2>>, <<1, 3>>}

Part(calls, paths) == [calls |-> calls, paths |-> paths]
Scenarios ==
  <<[first |-> Part({"create", "unlink", "close"}, {A}),
     other |-> Part({"create", "unlink", "close"}, {A})],
    [first |-> Part({"create", "read", "write"}, {A}),
     other |-> Part({"open", "unlink"}, {A})],
    [first |-> Part({"create", "write", "unlink", "close"}, {A}),
     other |-> Part({"create", "write"}, {B})],
    [first |-> Part({"link"}, {A, B}),
     other |-> Part({"create", "unlink"}, {A})],
    [first |-> Part({"create", "link"}, {A, <<".">>}),
     other |-> Part({"open", "exit"}, MCPaths \ {C})],
    [first |-> Part({"create", "link"}, {A, B, C}),
     other |-> Part({"unlink"}, {B})]>>
PartOf(p) == IF p = INITPROC THEN Scenarios[mix].first ELSE Scenarios[mix].other

MCInit == Init /\ mix \in DOMAIN Scenarios
MCNext ==
  /\ Next
  /\ \A p \in Procs :
       /\ op'[p] \in PartOf(p).calls \cup {"none"}
       /\ pc[p] = "user" => {path'[p], newpath'[p]} \subseteq PartOf(p).paths \cup {<<>>}
  /\ UNCHANGED mix
MCSpec == MCInit /\ [][MCNext]_<<vars, mix>>

(* What an empty entry of the cache holds, and where a process that is     *)
(* neither in ilock nor in iput once returned to, are not read again.      *)
LiveView ==
  <<[s \in Slots |-> IF ref[s] = 0 THEN <<>>
       ELSE <<inum[s], ref[s], valid[s], lock[s], IF valid[s] THEN copy[s] ELSE <<>>>>],
    disk, ptr, pc,
    [p \in Procs |-> IF pc[p] = "ilock" THEN <<ret[p], which[p]>>
       ELSE IF pc[p] \in {"iput", "itrunc", "iput_free", "iput_invalid", "iput_drop"}
       THEN <<ret[p]>> ELSE <<>>],
    args, loop, panic, orphans, mix>>
=============================================================================
