------------------------------- MODULE FAT12 -------------------------------
(***************************************************************************)
(* HW5: dir and cp on the image of a FAT12 floppy disk (main.c).           *)
(*                                                                         *)
(* An image is a boot sector, a file allocation table and a root           *)
(* directory.  The program sees the table as bytes, two entries of twelve  *)
(* bits in three bytes; a sector's data is left out, it is known by its    *)
(* number.  Of dir's listing the names of the files are kept; DirLine has  *)
(* the lines.  A behaviour is a sequence of runs of the program on one     *)
(* image.                                                                  *)
(***************************************************************************)
EXTENDS Integers, Sequences

CONSTANTS
  LastCluster,    \* the clusters are 2 .. LastCluster
  Images,
  Typed,          \* the names typed after cp, as sequences of characters
  toupper         \* the C function, on the characters of those names

SECTOR_SIZE == 512
FIXED_OFFSET == 31
MAX_FAT12 == 4084

Clusters == 2 .. LastCluster
TableIndex == 0 .. LastCluster + 1
TwelveBits == 0 .. 4095
EndMarks == 4088 .. 4095

------------------------------------------------------------------------------
(* The format, as msdos_fs.h and the image in the repository have it.  A   *)
(* directory entry is known by its kind: a file, a subdirectory, a volume  *)
(* label, a deleted entry, or the end mark; the rest of the root directory *)
(* is zero, which is the end mark too.  Not part of the image: clusters,   *)
(* the clusters a file's contents are in, in their order.                  *)

Kinds == {"file", "dir", "volume", "deleted", "end"}

Entry(im, k) ==
  IF k < Len(im.root) THEN im.root[k + 1]
  ELSE [kind |-> "end", name |-> [base |-> <<>>, ext |-> <<>>],
        start |-> 0, size |-> 0, clusters |-> <<>>]

(* Where the data of a cluster is. *)
DataSector(boot, c) ==
  boot.reserved + boot.fats * boot.fat_length + (boot.dir_entries * 32) \div SECTOR_SIZE + (c - 2)

(* The entries before the end mark that are files. *)
Files(im) ==
  {k \in 0 .. im.boot.dir_entries - 1 :
     Entry(im, k).kind = "file" /\ \A j \in 0 .. k : Entry(im, j).kind # "end"}

(* A file fills its clusters but for the last; the table leads from each   *)
(* to the next and from the last to an end mark.                           *)
WellFormed(im, file) ==
  /\ file.clusters \in Seq(Clusters) /\ file.size \in Nat
  /\ IF file.clusters = <<>> THEN file.start = 0 /\ file.size = 0
     ELSE /\ file.start = file.clusters[1]
          /\ file.size > (Len(file.clusters) - 1) * SECTOR_SIZE
          /\ file.size <= Len(file.clusters) * SECTOR_SIZE
          /\ \A n \in 1 .. Len(file.clusters) - 1 :
               im.fat[file.clusters[n]] = file.clusters[n + 1]
          /\ im.fat[file.clusters[Len(file.clusters)]] \in EndMarks

(* The pieces of a file: how many bytes of which sector. *)
Contents(im, file) ==
  [n \in 1 .. Len(file.clusters) |->
     [sector |-> DataSector(im.boot, file.clusters[n]),
      bytes |-> IF n < Len(file.clusters) THEN SECTOR_SIZE
                ELSE file.size - (Len(file.clusters) - 1) * SECTOR_SIZE]]

(* "physical sector number = 33 + FAT entry number - 2" (main.h:2), and    *)
(* the fields the program computes with are as small as on a floppy disk.  *)
Floppy(boot) ==
  /\ boot.reserved \in 1 .. 32 /\ boot.fats \in 1 .. 2 /\ boot.fat_length \in 1 .. 32
  /\ boot.dir_entries \in 1 .. 255
  /\ DataSector(boot, 2) = 33

FilesWellFormed(im) == \A k \in Files(im) : WellFormed(im, Entry(im, k))

ASSUME ImagesAssumption ==
  /\ LastCluster \in Nat /\ 2 <= LastCluster /\ LastCluster <= MAX_FAT12
  /\ \A im \in Images :
      /\ Floppy(im.boot)
      /\ im.fat \in [TableIndex -> TwelveBits]
      /\ FilesWellFormed(im)

------------------------------------------------------------------------------
VARIABLES
  image,
  pc,             \* the loop the program is in, or "idle" between two runs
  i,              \* the directory entry it is at
  typed,          \* argv[3] in upper case
  start_entry, file_size,
  current_entry,
  new_file,       \* what has been written
  listed,         \* history: the files the last dir showed
  result          \* of the last cp: copied or missing

found == <<start_entry, file_size>>
copy == <<current_entry, new_file>>
vars == <<image, pc, i, typed, found, copy, listed, result>>

(* Two entries in three bytes, and the byte of the image at a position in  *)
(* its first table.                                                        *)
Packed(a, b) == <<a % 256, a \div 256 + 16 * (b % 16), b \div 16>>

Byte(pos) ==
  LET o == pos - image.boot.reserved * SECTOR_SIZE
      k == 2 * (o \div 3)
  IN Packed(image.fat[k], image.fat[k + 1])[(o % 3) + 1]

u16(n) == n % 65536

(* Mutant: odd entries are not shifted. *)
get_next_entry_NoShift(c) ==
  LET pos == u16(u16(image.boot.reserved * SECTOR_SIZE) + u16((c \div 2) * 3))
      bits == Byte(pos) + 256 * Byte(pos + 1) + 65536 * Byte(pos + 2)
  IN bits % 4096

(* The offset is computed in 16 bits; the 24 bits there are two entries.   *)
get_next_entry(c) ==
  LET pos == u16(u16(image.boot.reserved * SECTOR_SIZE) + u16((c \div 2) * 3))
      bits == Byte(pos) + 256 * Byte(pos + 1) + 65536 * Byte(pos + 2)
  IN (IF c % 2 = 0 THEN bits ELSE bits \div 4096) % 4096

(* A name and its extension without their padding, joined by a dot. *)
normal_name(name) ==
  name.base \o IF name.ext = <<>> THEN <<>> ELSE <<".">> \o name.ext

str_to_upper_case(str) == [n \in DOMAIN str |-> toupper[str[n]]]

(* Where the three scans of the root directory stop; dir_entries[0] is the *)
(* low byte of the number of entries.                                      *)
AtEnd(k) == k >= image.boot.dir_entries % 256 \/ Entry(image, k).kind = "end"

Matches(k) ==
  Entry(image, k).kind = "file" /\ normal_name(Entry(image, k).name) = typed

Index == 0 .. 255
Pieces == [sector : Nat, bytes : 0 .. SECTOR_SIZE]
Arguments == {str_to_upper_case(t) : t \in Typed} \cup {<<>>}
FileNames(im) == {normal_name(Entry(im, k).name) : k \in Files(im)}

TypeOK ==
  /\ pc \in {"idle", "dir", "check", "info", "copy"}
  /\ i \in Index
  /\ typed \in Arguments
  /\ start_entry \in TwelveBits /\ file_size \in Nat
  /\ current_entry \in TwelveBits
  /\ new_file \in Seq(Pieces)
  /\ listed \subseteq FileNames(image)
  /\ result \in {"none", "copied", "missing"}

Init ==
  /\ image \in Images
  /\ pc = "idle" /\ i = 0 /\ typed = <<>>
  /\ start_entry = 0 /\ file_size = 0
  /\ current_entry = 0 /\ new_file = <<>>
  /\ listed = {} /\ result = "none"

Advance == i' = i + 1 /\ UNCHANGED pc
Go(place) == pc' = place /\ i' = 0

------------------------------------------------------------------------------
(* dir *)

StartDir ==
  /\ pc = "idle"
  /\ Go("dir")
  /\ typed' = <<>> /\ listed' = {} /\ result' = "none"
  /\ UNCHANGED <<image, found, copy>>

(* print_root_dir, one entry.  Subdirectories are shown as such. *)
ListEntry ==
  /\ pc = "dir" /\ ~AtEnd(i)
  /\ listed' = IF Entry(image, i).kind = "file"
               THEN listed \cup {normal_name(Entry(image, i).name)} ELSE listed
  /\ Advance
  /\ UNCHANGED <<image, typed, found, copy, result>>

EndDir ==
  /\ pc = "dir" /\ AtEnd(i)
  /\ Go("idle")
  /\ UNCHANGED <<image, typed, found, copy, listed, result>>

------------------------------------------------------------------------------
(* cp *)

StartCp ==
  /\ pc = "idle"
  /\ \E t \in Typed : typed' = str_to_upper_case(t)
  /\ Go("check")
  /\ result' = "none"
  /\ UNCHANGED <<image, found, copy, listed>>

(* check_if_file_in_root_dir *)
SkipChecked ==
  /\ pc = "check" /\ ~AtEnd(i) /\ ~Matches(i)
  /\ Advance
  /\ UNCHANGED <<image, typed, found, copy, listed, result>>

FileExists ==
  /\ pc = "check" /\ ~AtEnd(i) /\ Matches(i)
  /\ Go("info")
  /\ UNCHANGED <<image, typed, found, copy, listed, result>>

(* Mutant: a deleted entry ends the scan. *)
FileMissing_AtDeleted ==
  /\ pc = "check" /\ (AtEnd(i) \/ Entry(image, i).kind = "deleted")
  /\ Go("idle")
  /\ result' = "missing"
  /\ UNCHANGED <<image, typed, found, copy, listed>>

(* "File %s does not exist in the root directory" *)
FileMissing ==
  /\ pc = "check" /\ AtEnd(i)
  /\ Go("idle")
  /\ result' = "missing"
  /\ UNCHANGED <<image, typed, found, copy, listed>>

(* get_file_info.  It leaves start_entry and file_size as they are, which  *)
(* is uninitialised, if it comes to the end: see InfoIsFound.              *)
SkipInfo ==
  /\ pc = "info" /\ ~AtEnd(i) /\ ~Matches(i)
  /\ Advance
  /\ UNCHANGED <<image, typed, found, copy, listed, result>>

FoundInfo ==
  /\ pc = "info" /\ ~AtEnd(i) /\ Matches(i)
  /\ start_entry' = Entry(image, i).start
  /\ file_size' = Entry(image, i).size
  /\ Go("copy")
  /\ current_entry' = start_entry' /\ new_file' = <<>>
  /\ UNCHANGED <<image, typed, listed, result>>

(* extract_file_from_fat12 *)

InChain(c) == c < 4088 /\ c # 0 /\ c # 1

Piece(bytes) == [sector |-> FIXED_OFFSET + current_entry, bytes |-> bytes]

(* A cluster with another after it. *)
CopyCluster ==
  /\ pc = "copy" /\ InChain(current_entry)
  /\ get_next_entry(current_entry) < 4088
  /\ new_file' = Append(new_file, Piece(SECTOR_SIZE))
  /\ current_entry' = get_next_entry(current_entry)
  /\ UNCHANGED <<image, pc, i, typed, found, listed, result>>

(* The last cluster: the remaining bytes. *)
CopyLast ==
  /\ pc = "copy" /\ InChain(current_entry)
  /\ get_next_entry(current_entry) >= 4088
  /\ new_file' = Append(new_file, Piece(file_size % SECTOR_SIZE))
  /\ Go("idle")
  /\ result' = "copied"
  /\ UNCHANGED <<image, typed, found, current_entry, listed>>

(* The loop's own end, of an empty file. *)
EndCopy ==
  /\ pc = "copy" /\ ~InChain(current_entry)
  /\ Go("idle")
  /\ result' = "copied"
  /\ UNCHANGED <<image, typed, found, copy, listed>>

Run ==
  \/ ListEntry \/ EndDir
  \/ SkipChecked \/ FileExists \/ FileMissing \/ SkipInfo \/ FoundInfo
  \/ CopyCluster \/ CopyLast \/ EndCopy

Next == StartDir \/ StartCp \/ Run

Spec == Init /\ [][Next]_vars

------------------------------------------------------------------------------
(* Properties *)

Named == {k \in Files(image) : normal_name(Entry(image, k).name) = typed}

(* What was written has every piece of the file but the last one, which    *)
(* the file's size cuts off.                                               *)
AllButLast(file) ==
  /\ Len(new_file) = Len(file.clusters)
  /\ \A n \in 1 .. Len(file.clusters) - 1 : new_file[n] = Contents(image, file)[n]

(* What cp has written is the contents of the first file of that name:     *)
(* every cluster of its chain, from its own sector, in order, and only the *)
(* bytes of the last that are the file's.  If the last is full (the size   *)
(* is a multiple of 512) none of its bytes are written, and what is there  *)
(* is the rest of the file.                                                *)
CopyIsFile ==
  result = "copied" =>
    \E k \in Named :
      /\ \A j \in Named : k <= j
      /\ AllButLast(Entry(image, k))
      /\ Entry(image, k).size % SECTOR_SIZE # 0 \/ Entry(image, k).size = 0 =>
           new_file = Contents(image, Entry(image, k))

(* A file that dir shows is never said to be missing, and one that is said *)
(* to be missing is not there, neither deleted nor behind the end mark.    *)
ListedCanBeCopied ==
  result = "missing" => typed \notin listed /\ Named = {}

(* get_file_info finds what check_if_file_in_root_dir has found: cp never  *)
(* goes on with a start entry and a size that have not been set.           *)
InfoIsFound == pc = "info" => ~AtEnd(i)
=============================================================================
