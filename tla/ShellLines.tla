----------------------------- MODULE ShellLines -----------------------------
(***************************************************************************)
(* HW1: the shell with the lines it is given (main.c).  parse_command      *)
(* splits a line into words, takes the & and the redirection off its end   *)
(* and keeps the redirect file's name in a buffer of main, which the next  *)
(* lines find as it was left; cd and jobs run in the shell itself, with    *)
(* stdout moved to the file and back; every internal command leaves one    *)
(* more descriptor open.                                                   *)
(***************************************************************************)
EXTENDS Shell, Sequences

CONSTANTS
  Words, Lines,   \* words, and the lines typed, as sequences of them
  Spelling,       \* the characters of the words cd is given
  MaxFiles        \* how many descriptors the shell may open beside its three

NoFile == "no file"   \* an empty redirect_file

ASSUME LinesAssumption ==
  /\ {">", "&"} \subseteq Words /\ NoFile \notin Words
  /\ Lines \subseteq Seq(Words)
  /\ MaxFiles \in Nat

VARIABLES
  line, args,     \* the last line, and what parse_command has left of it
  redirect_file,
  dups,           \* copies of stdout that were not closed
  stdout, cwd

words == <<line, args, redirect_file>>
descriptors == <<dups, stdout>>
lineVars == <<vars, words, descriptors, cwd>>

(* redirect_file is not initialised: its first byte may be 0 or not.       *)
LinesInit ==
  /\ Init
  /\ line = <<>> /\ args = <<>> /\ redirect_file \in {NoFile, "garbage"}
  /\ dups = 0 /\ stdout = "terminal" /\ cwd = "start"

------------------------------------------------------------------------------
(* parse_command *)

is_background_command(l) == l # <<>> /\ l[Len(l)] = "&"
WithoutAmp(l) == IF is_background_command(l) THEN SubSeq(l, 1, Len(l) - 1) ELSE l

Arrows(a) == {k \in DOMAIN a : a[k] = ">"}

(* Mutant: a redirection stays on until another one. *)
Redirect_Kept(a) == Arrows(a) # {} \/ cmd.redirect

Redirect(a) == Arrows(a) # {}

(* The word after the first > is copied; if there is none, the buffer      *)
(* stays as it is.                                                         *)
RedirectFile(a) ==
  LET first == CHOOSE k \in Arrows(a) : \A j \in Arrows(a) : k <= j IN
  IF Arrows(a) # {} /\ first < Len(a) THEN a[first + 1] ELSE redirect_file

(* The two last words are taken off, wherever the > is.  (Of ">" alone the *)
(* second one would be args[-1], which is written too.)                    *)
Args(a) == IF Redirect(a) THEN SubSeq(a, 1, Len(a) - 2) ELSE a

(* is_internal_command looks at the first word before they are taken off.  *)
KindOf(l, a) ==
  CASE l # <<>> /\ Head(l) \notin {"exit", "cd", "jobs"} -> "external"
    [] l = <<>> \/ a = <<>> \/ (Head(a) = "exit" /\ Len(a) > 1) -> "empty"
    [] OTHER -> IF Head(a) = "exit" THEN "exit" ELSE "builtin"

(* A line that names no file, now or before, is invalid.                   *)
ReadLine ==
  /\ pc = "prompt"
  /\ \E l \in Lines :
       LET a == WithoutAmp(l) IN
       /\ line' = l
       /\ args' = Args(a)
       /\ redirect_file' = RedirectFile(a)
       /\ \/ /\ Redirect(a) => RedirectFile(a) # NoFile
             /\ cmd' = [kind |-> KindOf(l, Args(a)), redirect |-> Redirect(a),
                        background |-> is_background_command(l)]
             /\ ReadCommand
          \/ /\ Redirect(a) /\ RedirectFile(a) = NoFile
             /\ UNCHANGED vars
  /\ UNCHANGED <<descriptors, cwd>>

------------------------------------------------------------------------------
(* run_internal_process and run_external_process *)

Spare == MaxFiles - dups - Cardinality(files)

(* original_stdout = dup(STDOUT_FILENO), which fails without a descriptor. *)
Dup == dups' = IF Spare > 0 THEN dups + 1 ELSE dups

(* Mutant: stdout is copied after the file has been opened. *)
RunRedirected_OpenFirst ==
  /\ Spare > 0
  /\ dups' = IF Spare > 1 THEN dups + 1 ELSE dups
  /\ stdout' = IF dups' > dups THEN "terminal" ELSE redirect_file

(* dup, fopen, dup2, the command, fclose, and dup2 back.                   *)
RunRedirected ==
  /\ Dup
  /\ Spare > dups' - dups
  /\ stdout' = IF dups' > dups THEN "terminal" ELSE redirect_file

Characters(word) == {Spelling[word][k] : k \in DOMAIN Spelling[word]}

is_valid_dir(word) ==
  \/ Spelling[word] = <<".", ".">>
  \/ /\ Spelling[word] \notin {<<"-">>, <<"~">>, <<".">>}
     /\ Characters(word) \ {".", "/"} # {}

(* cd with a directory, if chdir succeeds; words after it are not looked at.*)
ChangeDirectory ==
  \/ /\ args # <<>> /\ Head(args) = "cd"
     /\ Len(args) > 1 /\ is_valid_dir(args[2])
     /\ cwd' = args[2]
  \/ UNCHANGED cwd

InternalLine ==
  /\ RunInternal
  /\ IF cmd.kind = "builtin" /\ cmd.redirect THEN RunRedirected
     ELSE Dup /\ UNCHANGED stdout
  /\ IF cmd.kind = "builtin" THEN ChangeDirectory ELSE UNCHANGED cwd
  /\ UNCHANGED words

InBackground == StartInternal /\ Dup /\ UNCHANGED <<words, stdout, cwd>>

OpenAndFork ==
  /\ Fork
  /\ cmd.redirect => Spare > 0
  /\ UNCHANGED <<words, descriptors, cwd>>

Others ==
  /\ \/ Refuse \/ StartExternal \/ ForkFails \/ OpenFails \/ WaitForeground
     \/ AddProcess \/ CleanEnded \/ CleanOther \/ Cleaned \/ Exit \/ KillSlot
     \/ Killed \/ ChildEnds
  /\ UNCHANGED <<words, descriptors, cwd>>

LinesNext == ReadLine \/ InternalLine \/ InBackground \/ OpenAndFork \/ Others

LinesSpec == LinesInit /\ [][LinesNext]_lineVars

------------------------------------------------------------------------------
(* Properties *)

Plain(a) == a # <<>> /\ \A k \in DOMAIN a : a[k] \notin {">", "&"}

(* The line that says: run a, with its output to file, if any , in the   *)
(* background or not.                                                      *)
Said(a, file, background) ==
  a \o (IF file = NoFile THEN <<>> ELSE <<">", file>>) \o (IF background THEN <<"&">> ELSE <<>>)

(* Whatever lines came before, and whatever they left in redirect_file, a  *)
(* line that is complete is carried out as it says.                        *)
LinesAreMeant ==
  pc \in {"external", "internal"} =>
    \A k \in DOMAIN line, background \in BOOLEAN,
       file \in {NoFile} \cup ({line[j] : j \in DOMAIN line} \ {">", "&"}) :
      LET a == SubSeq(line, 1, k) IN
      Plain(a) /\ line = Said(a, file, background) =>
        /\ args = a /\ cmd.background = background /\ cmd.redirect = (file # NoFile)
        /\ file # NoFile => redirect_file = file

(* Each time the shell asks for a command its stdout is the terminal, also *)
(* after so many internal commands that no descriptor is left.             *)
StdoutIsBack == pc = "prompt" => stdout = "terminal"
=============================================================================
