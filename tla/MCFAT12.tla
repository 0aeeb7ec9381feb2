------------------------------ MODULE MCFAT12 -------------------------------
(***************************************************************************)
(* Images for model checking FAT12: two files, README (with an extension)  *)
(* and FS, with every way to lay them out on the clusters 2 to             *)
(* LastCluster, under root directories where entries that must be passed   *)
(* over stand before, between and behind them.                             *)
(***************************************************************************)
EXTENDS DirLine

(* The disk of floppy.img, and one with a root directory of one sector. *)
Disk == [reserved |-> 1, fats |-> 2, fat_length |-> 9, dir_entries |-> 224]
SmallDisk == [reserved |-> 2, fats |-> 2, fat_length |-> 15, dir_entries |-> 16]

README == [base |-> <<"R">>, ext |-> <<"C">>]
FS == [base |-> <<"F", "S">>, ext |-> <<>>]

MCTyped == {<<"r", ".", "c">>, <<"F", "s">>, <<"f">>}
MCtoupper == [c \in {"r", "c", "f", "s", "R", "C", "F", "S", "."} |->
  CASE c = "r" -> "R" [] c = "c" -> "C" [] c = "f" -> "F" [] c = "s" -> "S" [] OTHER -> c]

Chains == UNION {Injection(1 .. n, 2 .. LastCluster) : n \in 0 .. LastCluster - 1}
ChainPairs == {p \in Chains \X Chains : Range(p[1]) \cap Range(p[2]) = {}}

(* The sizes of a file of n clusters: one byte more than n - 1 full ones,  *)
(* one less than n full ones, n full ones.                                 *)
SizesOf(n) == IF n = 0 THEN {0} ELSE {n * 512 - 511, n * 512 - 1, n * 512}

(* The first and the last minute of both halves of a day, and noon's next; *)
(* the last two seconds of a minute; the first and the last day there is.  *)
Times == <<0, 11 * 2048 + 59 * 32, 12 * 2048, 23 * 2048 + 59 * 32 + 29, 13 * 2048 + 32>>
Dates == <<33, 65439, 42 * 512 + 2 * 32 + 23, 41 * 512 + 12 * 32 + 31, 10 * 512 + 10 * 32 + 9>>
Nth(seq, n) == seq[(n % 5) + 1]

File(name, chain, size) ==
  [kind |-> "file", name |-> name, size |-> size, clusters |-> chain,
   start |-> IF chain = <<>> THEN 0 ELSE chain[1],
   ctime |-> Nth(Times, size + Len(chain)), cdate |-> Nth(Dates, size)]

(* An entry of another kind; a deleted one still has what it had.          *)
Other(kind, name, start) ==
  [kind |-> kind, name |-> name, start |-> start, size |-> 7, clusters |-> <<>>,
   ctime |-> Nth(Times, start), cdate |-> Nth(Dates, start)]

Roots(f, g) ==
  << <<Other("volume", FS, 0), f, Other("deleted", FS, 2), g>>,
     <<Other("dir", README, 3), g, Other("end", FS, 0), f>>,
     <<Other("deleted", FS, 4), f, Other("dir", FS, 3), f>>,
     [k \in 1 .. 15 |-> Other("deleted", FS, 2)] \o <<g>> >>

(* A table: what the chains say, the media mark, and bad clusters around.  *)
Table(chains, eof) ==
  [c \in 0 .. LastCluster + 1 |->
     IF \E chain \in chains : c \in Range(chain)
     THEN LET chain == CHOOSE ch \in chains : c \in Range(ch)
              n == CHOOSE m \in DOMAIN chain : chain[m] = c
          IN IF n = Len(chain) THEN eof ELSE chain[n + 1]
     ELSE IF c = 0 THEN 4080 ELSE 4087]

ImageOf(disk, p, eof, s, t, r) ==
  [boot |-> disk, fat |-> Table({p[1], p[2]}, eof),
   root |-> Roots(File(README, p[1], s), File(FS, p[2], t))[r]]

Sizes == UNION {SizesOf(n) : n \in 0 .. LastCluster - 1}

MCImages ==
  {ImageOf(q[1], q[2], q[3], q[4], q[5], q[6]) :
     q \in {c \in {Disk, SmallDisk} \X ChainPairs \X {4088, 4095} \X Sizes \X Sizes \X (1 .. 4) :
              c[4] \in SizesOf(Len(c[2][1])) /\ c[5] \in SizesOf(Len(c[2][2]))}}
=============================================================================
