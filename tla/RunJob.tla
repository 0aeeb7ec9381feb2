------------------------------- MODULE RunJob -------------------------------
(***************************************************************************)
(* HW2: run_job (basic_commands.c), executed by the workers.  It copies    *)
(* the line of a job, cuts it at the semicolons with strtok, cuts each     *)
(* piece at the spaces with strtok again, and executes the commands.       *)
(* strtok keeps the place where it goes on in a hidden variable, one for   *)
(* all threads of the process.  A call of strtok is one step here.         *)
(***************************************************************************)
EXTENDS Naturals, SequencesExt

CONSTANTS
  Workers,
  Lines      \* the lines considered: sequences of Commands

Basic == {"increment", "decrement", "msleep"}

(* A command, its argument, and the number of spaces written before it.    *)
Command == [name : Basic \cup {"repeat"}, arg : Nat, pad : Nat]

ASSUME RunJobAssumption == Lines \subseteq Seq(Command)

(* A text is a sequence of words, numbers and the characters strtok stops  *)
(* at; its last item, and no other, is the null.                           *)
Word(n)   == [word |-> n]
Num(a)    == [num |-> a]
Char(c)   == [char |-> c]
Nul       == Char("null")

TextOf(line) ==
  FlattenSeq([k \in DOMAIN line |->
    [p \in 1 .. line[k].pad |-> Char(" ")]
    \o <<Word(line[k].name), Char(" "), Num(line[k].arg)>>
    \o <<IF k = Len(line) THEN Nul ELSE Char(";")>>])

VARIABLES
  line,      \* the job of each worker
  tmp,       \* its copy, into which strtok writes nulls
  save,      \* strtok's hidden variable, a place
  pc,        \* what each worker does next
  commands,  \* the pointers to the pieces, places
  args,      \* their arguments
  i,         \* the loop index (from 1)
  repeats,   \* repeat_count - j: rounds still to begin
  repeatAt,  \* repeat_index
  executed   \* history: the basic commands executed, [name, arg]

vars == <<line, tmp, save, pc, commands, args, i, repeats, repeatAt, executed>>

(* A place is an item of some worker's tmp.                                *)
Place(w, at) == [of |-> w, at |-> at]
Item(p) == tmp[p.of][p.at]
Beyond(p) == Place(p.of, p.at + 1)

Init ==
  /\ line \in [Workers -> Lines]
  /\ tmp = [w \in Workers |-> TextOf(line[w])]
  /\ save = {}
  /\ pc = [w \in Workers |-> "split"]
  /\ commands = [w \in Workers |-> <<>>]
  /\ args = [w \in Workers |-> <<>>]
  /\ i = [w \in Workers |-> 1]
  /\ repeats = [w \in Workers |-> 0]
  /\ repeatAt = [w \in Workers |-> 0]
  /\ executed = [w \in Workers |-> <<>>]

------------------------------------------------------------------------------
(* strtok, started at place p: the token it returns ({} for NULL), the     *)
(* place it remembers, and the null it writes over the delimiter.          *)

Strtok(p, delimiter) ==
  LET text  == tmp[p.of]
      first == Min({k \in p.at .. Len(text) : text[k] # Char(delimiter)})
      stop  == Min({k \in first .. Len(text) : text[k] \in {Char(delimiter), Nul}})
  IN  IF text[first] = Nul
      THEN [token |-> {}, save |-> {Place(p.of, first)}, tmp |-> tmp]
      ELSE [token |-> {Place(p.of, first)},
            save  |-> {Place(p.of, IF text[stop] = Nul THEN stop ELSE stop + 1)},
            tmp   |-> [tmp EXCEPT ![p.of][stop] = Nul]]

(* strtok(NULL, delimiter) goes on at the remembered place, whoever left   *)
(* it there.                                                               *)
Saved == CHOOSE p \in save : TRUE

(* Cutting the line at the semicolons: the first call, then the others.    *)
Split(w) ==
  /\ pc[w] \in {"split", "more"}
  /\ LET r == Strtok(IF pc[w] = "split" THEN Place(w, 1) ELSE Saved, ";")
     IN  /\ tmp' = r.tmp /\ save' = r.save
         /\ commands' = [commands EXCEPT ![w] = @ \o SetToSeq(r.token)]
         /\ pc' = [pc EXCEPT ![w] = IF r.token = {} THEN "name" ELSE "more"]
  /\ UNCHANGED <<line, args, i, repeats, repeatAt, executed>>

(* Mutant: piece i is cut at the semicolon again. *)
CutName_Semicolon(w) ==
  /\ pc[w] = "name"
  /\ i[w] <= Len(commands[w])
  /\ LET r == Strtok(commands[w][i[w]], ";")
     IN  tmp' = r.tmp /\ save' = r.save
  /\ pc' = [pc EXCEPT ![w] = "arg"]
  /\ UNCHANGED <<line, commands, args, i, repeats, repeatAt, executed>>

(* Cutting piece i at its first space.                                     *)
CutName(w) ==
  /\ pc[w] = "name"
  /\ i[w] <= Len(commands[w])
  /\ LET r == Strtok(commands[w][i[w]], " ")
     IN  tmp' = r.tmp /\ save' = r.save
  /\ pc' = [pc EXCEPT ![w] = "arg"]
  /\ UNCHANGED <<line, commands, args, i, repeats, repeatAt, executed>>

Atoi(p) == IF "num" \in DOMAIN Item(p) THEN Item(p).num ELSE 0

(* ... and taking the token after it; atoi(NULL) is undefined.             *)
CutArg(w) ==
  /\ pc[w] = "arg"
  /\ LET r == Strtok(Saved, " ")
     IN  /\ tmp' = r.tmp /\ save' = r.save
         /\ IF r.token = {}
            THEN pc' = [pc EXCEPT ![w] = "crashed"] /\ UNCHANGED <<args, i>>
            ELSE /\ args' = [args EXCEPT ![w] =
                               Append(@, Atoi(CHOOSE p \in r.token : TRUE))]
                 /\ i' = [i EXCEPT ![w] = @ + 1]
                 /\ pc' = [pc EXCEPT ![w] = "name"]
  /\ UNCHANGED <<line, commands, repeats, repeatAt, executed>>

Parsed(w) ==
  /\ pc[w] = "name"
  /\ i[w] > Len(commands[w])
  /\ pc' = [pc EXCEPT ![w] = "once"]
  /\ i' = [i EXCEPT ![w] = 1]
  /\ UNCHANGED <<line, tmp, save, commands, args, repeats, repeatAt, executed>>

------------------------------------------------------------------------------
(* Execution *)

(* strcmp(command, name) = 0, one space before the command being skipped.  *)
Spelled(p, name) ==
  LET q == IF Item(p) = Char(" ") THEN Beyond(p) ELSE p
  IN  /\ Item(q) = Word(name)
      /\ Item(Beyond(q)) = Nul

(* Piece i, if it is a basic command, is called with its argument.         *)
Execute(w) ==
  LET called == {n \in Basic : Spelled(commands[w][i[w]], n)}
  IN  executed' = [executed EXCEPT ![w] = @ \o
        SetToSeq({[name |-> n, arg |-> args[w][i[w]]] : n \in called})]

(* The commands before the first repeat.                                   *)
RunOnce(w) ==
  /\ pc[w] = "once"
  /\ i[w] <= Len(commands[w])
  /\ ~Spelled(commands[w][i[w]], "repeat")
  /\ Execute(w)
  /\ i' = [i EXCEPT ![w] = @ + 1]
  /\ UNCHANGED <<line, tmp, save, pc, commands, args, repeats, repeatAt>>

(* Mutant: the repeated part begins at the repeat's successor's successor. *)
BeginRepeat_OffByOne(w) ==
  /\ pc[w] = "once"
  /\ i[w] <= Len(commands[w])
  /\ Spelled(commands[w][i[w]], "repeat")
  /\ repeats' = [repeats EXCEPT ![w] = args[w][i[w]]]
  /\ repeatAt' = [repeatAt EXCEPT ![w] = i[w] + 1]
  /\ pc' = [pc EXCEPT ![w] = "round"]
  /\ UNCHANGED <<line, tmp, save, commands, args, i, executed>>

BeginRepeat(w) ==
  /\ pc[w] = "once"
  /\ i[w] <= Len(commands[w])
  /\ Spelled(commands[w][i[w]], "repeat")
  /\ repeats' = [repeats EXCEPT ![w] = args[w][i[w]]]
  /\ repeatAt' = [repeatAt EXCEPT ![w] = i[w]]
  /\ pc' = [pc EXCEPT ![w] = "round"]
  /\ UNCHANGED <<line, tmp, save, commands, args, i, executed>>

NoRepeat(w) ==
  /\ pc[w] = "once"
  /\ i[w] > Len(commands[w])
  /\ pc' = [pc EXCEPT ![w] = "round"]
  /\ UNCHANGED <<line, tmp, save, commands, args, i, repeats, repeatAt, executed>>

NextRound(w) ==
  /\ pc[w] = "round"
  /\ IF repeats[w] = 0
     THEN pc' = [pc EXCEPT ![w] = "done"] /\ UNCHANGED <<i, repeats>>
     ELSE /\ repeats' = [repeats EXCEPT ![w] = @ - 1]
          /\ i' = [i EXCEPT ![w] = repeatAt[w] + 1]
          /\ pc' = [pc EXCEPT ![w] = "again"]
  /\ UNCHANGED <<line, tmp, save, commands, args, repeatAt, executed>>

RunAgain(w) ==
  /\ pc[w] = "again"
  /\ IF i[w] > Len(commands[w])
     THEN pc' = [pc EXCEPT ![w] = "round"] /\ UNCHANGED <<i, executed>>
     ELSE /\ Execute(w)
          /\ i' = [i EXCEPT ![w] = @ + 1]
          /\ UNCHANGED pc
  /\ UNCHANGED <<line, tmp, save, commands, args, repeats, repeatAt>>

Worker(w) ==
  \/ Split(w) \/ CutName(w) \/ CutArg(w) \/ Parsed(w)
  \/ RunOnce(w) \/ BeginRepeat(w) \/ NoRepeat(w) \/ NextRound(w) \/ RunAgain(w)

Ended == \A w \in Workers : pc[w] \in {"done", "crashed"}

Next ==
  \/ \E w \in Workers : Worker(w)
  \/ Ended /\ UNCHANGED vars

Spec == Init /\ [][Next]_vars

------------------------------------------------------------------------------
(* What a line means: the commands before its repeat once, those after it  *)
(* as many times as its argument says.  Lines with two repeats are not     *)
(* given a meaning.                                                        *)

Called(cmds) == [k \in DOMAIN cmds |-> [name |-> cmds[k].name, arg |-> cmds[k].arg]]

Meaning(l) ==
  LET at == {k \in DOMAIN l : l[k].name = "repeat"}
  IN  IF at = {} THEN Called(l)
      ELSE LET k    == Min(at)
               body == Called(SubSeq(l, k + 1, Len(l)))
           IN  Called(SubSeq(l, 1, k - 1))
               \o FlattenSeq([r \in 1 .. l[k].arg |-> body])

(* A worker has executed a beginning of what its own line means, and all   *)
(* of it when it is done: "Run a string of commands in order"              *)
(* (basic_commands.h:20).                                                  *)
ExecutesItsLine ==
  \A w \in Workers :
    /\ IsPrefix(executed[w], Meaning(line[w]))
    /\ pc[w] = "done" => executed[w] = Meaning(line[w])
=============================================================================
