------------------------------ MODULE DirLine -------------------------------
(***************************************************************************)
(* HW5: the lines dir prints (print_root_dir of main.c), added to FAT12.   *)
(* An entry has a time and a date of creation as well, packed in sixteen   *)
(* bits each.  A line keeps its fields, not the blanks between them; of a  *)
(* number that is printed with leading zeros, the number.                  *)
(***************************************************************************)
EXTENDS FAT12, SequencesExt

(* The times and dates are those of a day of twenty-four hours, in sixteen *)
(* bits each.                                                              *)
ASSUME TimesAssumption ==
  \A im \in Images : \A k \in 0 .. im.boot.dir_entries - 1 :
    Entry(im, k).kind \in {"file", "dir"} =>
      /\ Entry(im, k).ctime \in Nat /\ Entry(im, k).ctime < 24 * 2048
      /\ Entry(im, k).cdate \in Nat /\ Entry(im, k).cdate < 65536

VARIABLE lines    \* what dir has printed so far

dirVars == <<vars, lines>>

DirInit == Init /\ lines = <<>>

Shown(entry) == entry.kind \in {"file", "dir"}

time_to_string(ctime) ==
  LET hours == ctime \div 2048
  IN [hours   |-> IF hours > 12 THEN hours - 12 ELSE IF hours = 0 THEN 12 ELSE hours,
      minutes |-> (ctime \div 32) % 64,
      am_pm   |-> IF hours >= 12 THEN "PM" ELSE "AM"]

date_to_string(cdate) ==
  [month |-> (cdate \div 32) % 16, day |-> cdate % 32,
   year |-> ((cdate \div 512) % 128) + 1980]

Digit == <<"1", "2", "3", "4", "5", "6", "7", "8", "9", "0">>

(* Mutant: a comma before the first group too. *)
Comma_Always(count) == IF count % 3 = 0 THEN <<",">> ELSE <<>>

Comma(count) == IF count % 3 = 0 /\ count # 0 THEN <<",">> ELSE <<>>

(* What one round of its loop writes. *)
Round(num, count) == Comma(count) \o <<Digit[((num + 9) % 10) + 1]>>

(* The characters of a number from its end, count of whose digits have     *)
(* been written.                                                           *)
temp[num \in Nat] ==
  [count \in Nat |->
     IF num = 0 THEN <<>> ELSE Round(num, count) \o temp[num \div 10][count + 1]]

format_number(num) == IF num = 0 THEN <<"0">> ELSE Reverse(temp[num][0])

Line(entry) ==
  [date |-> date_to_string(entry.cdate), time |-> time_to_string(entry.ctime),
   size |-> IF entry.kind = "dir" THEN <<"<DIR>">> ELSE format_number(entry.size),
   name |-> normal_name(entry.name)]

PrintEntry ==
  /\ ListEntry
  /\ lines' = IF Shown(Entry(image, i)) THEN Append(lines, Line(Entry(image, i))) ELSE lines

(* The program ends. *)
DirEnds == EndDir /\ lines' = <<>>

Copying ==
  /\ \/ SkipChecked \/ FileExists \/ FileMissing \/ SkipInfo \/ FoundInfo
     \/ CopyCluster \/ CopyLast \/ EndCopy
  /\ UNCHANGED lines

Start == (StartDir \/ StartCp) /\ UNCHANGED lines

DirRun == PrintEntry \/ DirEnds \/ Copying

DirNext == Start \/ DirRun

DirSpec == DirInit /\ [][DirNext]_dirVars

------------------------------------------------------------------------------
(* Properties *)

(* A time, a date and a number as a reader of the line takes them.         *)
Minute(time) ==
  60 * ((time.hours % 12) + IF time.am_pm = "PM" THEN 12 ELSE 0) + time.minutes

Value(c) == (CHOOSE d \in 1 .. 10 : Digit[d] = c) % 10

Number(str) ==
  FoldLeft(LAMBDA n, c : IF c = "," THEN n ELSE 10 * n + Value(c), 0, str)

(* Groups of three, from the end.                                          *)
Grouped(str) ==
  /\ str[1] # ","
  /\ \A n \in DOMAIN str : str[n] = "," <=> (Len(str) - n) % 4 = 3

Tells(line, entry) ==
  /\ line.name = normal_name(entry.name)
  /\ line.time.hours \in 1 .. 12
  /\ Minute(line.time) = 60 * (entry.ctime \div 2048) + ((entry.ctime % 2048) \div 32)
  /\ 512 * (line.date.year - 1980) + 32 * line.date.month + line.date.day = entry.cdate
  /\ entry.kind = "file" => Grouped(line.size) /\ Number(line.size) = entry.size

(* The listing is true: when dir comes to its end it has printed a line    *)
(* for every file and subdirectory before the end mark, in their order,    *)
(* and each line, read by somebody who knows a clock of twelve hours and   *)
(* thousands separators, gives the entry's minute, date and size back.     *)
ListingIsTrue ==
  pc = "dir" /\ AtEnd(i) =>
    LET before == {k \in 0 .. image.boot.dir_entries - 1 :
                     \A j \in 0 .. k : Entry(image, j).kind # "end"}
        shown == {k \in before : Shown(Entry(image, k))}
    IN /\ Len(lines) = Cardinality(shown)
       /\ \A k \in shown :
            Tells(lines[Cardinality({j \in shown : j <= k})], Entry(image, k))
=============================================================================
