---------------------------- MODULE FAT12Proofs ----------------------------
(***************************************************************************)
(* Proofs about FAT12, for every set of well-formed images with the        *)
(* geometry of a floppy disk and every name typed.                         *)
(*                                                                         *)
(* The table of bytes is first shown to give back the entries it packs.    *)
(* The invariant then says how far each loop has come: what the scans have *)
(* passed over, and which clusters of the file have been written.          *)
(*                                                                         *)
(* Then DirLine: a number that format_number has written is read back, by  *)
(* induction on its digits, and the invariant says which lines have been   *)
(* printed.                                                                *)
(***************************************************************************)
EXTENDS DirLine, FiniteSetTheorems, WellFoundedInduction, TLAPS

(* What the assumption says of an image's boot sector and table. *)
LEMMA BootFacts ==
  ASSUME image \in Images
  PROVE  /\ image.boot.dir_entries \in 1 .. 255
         /\ image.boot.dir_entries % 256 = image.boot.dir_entries
         /\ image.boot.reserved \in Int /\ 1 <= image.boot.reserved /\ image.boot.reserved <= 32
         /\ \A c \in Clusters : DataSector(image.boot, c) = FIXED_OFFSET + c
         /\ image.fat \in [TableIndex -> TwelveBits]
         /\ LastCluster \in Int /\ 2 <= LastCluster /\ LastCluster <= 4084
         /\ FilesWellFormed(image)
<1>1. Floppy(image.boot) /\ LastCluster \in Int /\ 2 <= LastCluster /\ LastCluster <= 4084
      /\ image.fat \in [TableIndex -> TwelveBits]
      /\ FilesWellFormed(image)
  BY ImagesAssumption DEF MAX_FAT12
<1>2. image.boot.dir_entries \in 1 .. 255 /\ image.boot.reserved \in 1 .. 32
      /\ image.boot.fats \in 1 .. 2 /\ image.boot.fat_length \in 1 .. 32
      /\ DataSector(image.boot, 2) = 33
  BY <1>1 DEF Floppy
<1>3. image.boot.dir_entries % 256 = image.boot.dir_entries
  BY <1>2
<1>4. \A c \in Clusters : DataSector(image.boot, c) = FIXED_OFFSET + c
  <2> DEFINE base == image.boot.reserved + image.boot.fats * image.boot.fat_length
                       + (image.boot.dir_entries * 32) \div SECTOR_SIZE
  <2>1. base \in Int
    BY <1>2 DEF SECTOR_SIZE
  <2>2. \A c \in Int : DataSector(image.boot, c) = base + (c - 2)
    BY DEF DataSector
  <2> HIDE DEF base
  <2>3. QED
    BY <1>1, <1>2, <2>1, <2>2 DEF FIXED_OFFSET, Clusters
<1>5. LastCluster \in Int /\ 2 <= LastCluster /\ LastCluster <= 4084
  BY <1>1
<1>6. image.boot.reserved \in Int /\ 1 <= image.boot.reserved /\ image.boot.reserved <= 32
  BY <1>2
<1>7. QED
  BY <1>1, <1>2, <1>3, <1>4, <1>5, <1>6

(* A cluster of the data area is a number of at most twelve bits. *)
LEMMA ClusterFacts ==
  ASSUME image \in Images, NEW c \in Clusters
  PROVE  c \in Int /\ 2 <= c /\ c <= LastCluster /\ c <= 4084
<1>1. LastCluster \in Int /\ LastCluster <= 4084
  BY BootFacts
<1>2. c \in Int /\ 2 <= c /\ c <= LastCluster
  BY <1>1 DEF Clusters
<1>3. QED
  BY <1>1, <1>2

(* The three bytes give both entries back. *)
LEMMA Unpacking ==
  ASSUME NEW a \in TwelveBits, NEW b \in TwelveBits, NEW bits,
         bits = Packed(a, b)[1] + 256 * Packed(a, b)[2] + 65536 * Packed(a, b)[3]
  PROVE  bits % 4096 = a /\ (bits \div 4096) % 4096 = b
<1>1. a \in Int /\ b \in Int /\ 0 <= a /\ a < 4096 /\ 0 <= b /\ b < 4096
  BY DEF TwelveBits
<1>2. bits = (a % 256) + 256 * (a \div 256 + 16 * (b % 16)) + 65536 * (b \div 16)
  BY DEF Packed
<1>3. bits = a + 4096 * b
  BY <1>1, <1>2
<1>4. QED
  BY <1>1, <1>3

(* Where the two entries are. *)
LEMMA Halves ==
  \A n \in Int :
    /\ 2 <= n /\ n <= 4084 =>
         n \div 2 \in Int /\ 1 <= n \div 2 /\ n \div 2 <= 2042
    /\ n % 2 = 0 => n = 2 * (n \div 2)
    /\ n % 2 # 0 => n = 2 * (n \div 2) + 1
  OBVIOUS

(* A byte of the table belongs to the pair its offset says. *)
LEMMA ByteAt ==
  ASSUME NEW p, NEW o, o = p - image.boot.reserved * SECTOR_SIZE
  PROVE  Byte(p) = Packed(image.fat[2 * (o \div 3)], image.fat[2 * (o \div 3) + 1])[(o % 3) + 1]
<1>1. Byte(p) = LET x == p - image.boot.reserved * SECTOR_SIZE
                    k == 2 * (x \div 3)
                IN Packed(image.fat[k], image.fat[k + 1])[(x % 3) + 1]
  BY DEF Byte
<1>2. QED
  BY <1>1

(* The three bytes of a pair of entries. *)
LEMMA BytesOfPair ==
  ASSUME image \in Images, NEW h \in Int, NEW pos \in Int,
         pos = image.boot.reserved * SECTOR_SIZE + 3 * h
  PROVE  /\ Byte(pos) = Packed(image.fat[2 * h], image.fat[2 * h + 1])[1]
         /\ Byte(pos + 1) = Packed(image.fat[2 * h], image.fat[2 * h + 1])[2]
         /\ Byte(pos + 2) = Packed(image.fat[2 * h], image.fat[2 * h + 1])[3]
<1> DEFINE R == image.boot.reserved * SECTOR_SIZE
<1>1. R \in Int
  <2>1. image.boot.reserved \in Int
    BY BootFacts
  <2>2. QED
    BY <2>1 DEF SECTOR_SIZE
<1>2. pos = R + 3 * h
  OBVIOUS
<1>3. ASSUME NEW d \in 0 .. 2, NEW p \in Int, p = pos + d
      PROVE  Byte(p) = Packed(image.fat[2 * h], image.fat[2 * h + 1])[d + 1]
  <2>1. PICK o : o = p - R
    OBVIOUS
  <2>2. Byte(p) = Packed(image.fat[2 * (o \div 3)], image.fat[2 * (o \div 3) + 1])[(o % 3) + 1]
    BY <2>1, ByteAt
  <2> HIDE DEF R
  <2>3. o = 3 * h + d
    BY <1>1, <1>2, <1>3, <2>1
  <2>4. o \div 3 = h /\ o % 3 = d
    BY <2>3
  <2>5. QED
    BY <2>2, <2>4
<1>4. pos + 0 = pos /\ pos + 1 \in Int /\ pos + 2 \in Int
  OBVIOUS
<1>5. Byte(pos) = Packed(image.fat[2 * h], image.fat[2 * h + 1])[1]
  BY <1>3, <1>4
<1>6. Byte(pos + 1) = Packed(image.fat[2 * h], image.fat[2 * h + 1])[2]
  BY <1>3, <1>4
<1>7. Byte(pos + 2) = Packed(image.fat[2 * h], image.fat[2 * h + 1])[3]
  BY <1>3, <1>4
<1>8. QED
  BY <1>5, <1>6, <1>7

(* get_next_entry reads the entry of the cluster: neither the shift of the *)
(* odd entries nor the sixteen bits of the offset lose anything.           *)
LEMMA NextEntry ==
  ASSUME image \in Images, NEW c \in Clusters
  PROVE  get_next_entry(c) = image.fat[c]
<1>1. /\ image.boot.reserved \in Int /\ 1 <= image.boot.reserved /\ image.boot.reserved <= 32
      /\ LastCluster \in Int
  BY BootFacts
<1>2. c \in Int /\ 2 <= c /\ c <= LastCluster /\ c <= 4084
  BY ClusterFacts
<1>3. PICK h : h = c \div 2
  OBVIOUS
<1>4. /\ h \in Int /\ 1 <= h /\ h <= 2042
      /\ c % 2 = 0 => c = 2 * h
      /\ c % 2 # 0 => c = 2 * h + 1
  BY <1>2, <1>3, Halves
<1>5. 2 * h \in TableIndex /\ 2 * h + 1 \in TableIndex
  <2>1. 2 * h <= c /\ 2 * h >= 0
    BY <1>2, <1>4
  <2>2. QED
    BY <1>1, <1>2, <1>4, <2>1 DEF TableIndex
<1>6. image.fat[2 * h] \in TwelveBits /\ image.fat[2 * h + 1] \in TwelveBits
  BY <1>5, BootFacts
<1>7. PICK pos \in Int : pos = image.boot.reserved * SECTOR_SIZE + 3 * h
  BY <1>1, <1>4 DEF SECTOR_SIZE
<1>8. u16(u16(image.boot.reserved * SECTOR_SIZE) + u16(h * 3)) = pos
  BY <1>1, <1>4, <1>7 DEF SECTOR_SIZE, u16
<1>9. PICK bits : bits = Byte(pos) + 256 * Byte(pos + 1) + 65536 * Byte(pos + 2)
  OBVIOUS
<1>10. get_next_entry(c) = (IF c % 2 = 0 THEN bits ELSE bits \div 4096) % 4096
  BY <1>3, <1>8, <1>9 DEF get_next_entry
<1>11. bits % 4096 = image.fat[2 * h] /\ (bits \div 4096) % 4096 = image.fat[2 * h + 1]
  BY <1>4, <1>6, <1>7, <1>9, BytesOfPair, Unpacking
<1>12. QED
  BY <1>4, <1>10, <1>11

------------------------------------------------------------------------------
(* The invariant *)

First(k) == k \in Named /\ \A j \in Named : k <= j

(* What the scans have passed over; get_file_info has something to find.   *)
Scanned ==
  /\ pc \in {"dir", "check", "info"} => \A j \in Nat : j < i => ~AtEnd(j)
  /\ pc \in {"check", "info"} => \A j \in Nat : j < i => ~Matches(j)
  /\ pc = "info" => Named # {}

(* The clusters before the current one have been written.                  *)
Written(file) ==
  /\ file_size = file.size
  /\ \/ file.clusters = <<>> /\ current_entry = 0 /\ new_file = <<>>
     \/ \E n \in 1 .. Len(file.clusters) :
          /\ current_entry = file.clusters[n]
          /\ Len(new_file) = n - 1
          /\ \A m \in 1 .. n - 1 : new_file[m] =
                [sector |-> FIXED_OFFSET + file.clusters[m], bytes |-> SECTOR_SIZE]

Underway == pc = "copy" => \E k : First(k) /\ Written(Entry(image, k))

Results ==
  /\ result # "none" => pc = "idle"
  /\ result = "missing" => Named = {}
  /\ CopyIsFile

IInv == TypeOK /\ image \in Images /\ Scanned /\ Underway /\ Results

(* A scan that has not come to the end is at an entry of the directory, and *)
(* a matching one there is a file of the name typed.                       *)
LEMMA NamedIs ==
  ASSUME image \in Images
  PROVE  /\ \A k \in Named : k \in Nat /\ Matches(k) /\ ~AtEnd(k) /\ k \in Files(image)
         /\ \A k \in Named : \A j \in Nat : j <= k => ~AtEnd(j)
         /\ \A k \in Nat : Matches(k) /\ (\A j \in Nat : j <= k => ~AtEnd(j)) => k \in Named
<1>1. /\ image.boot.dir_entries \in Int
      /\ image.boot.dir_entries % 256 = image.boot.dir_entries
  BY BootFacts
<1>2. ASSUME NEW k \in Named
      PROVE  k \in Nat /\ Matches(k) /\ k \in Files(image) /\ \A j \in Nat : j <= k => ~AtEnd(j)
  <2>1. k \in Files(image) /\ Entry(image, k).kind = "file" /\ Matches(k)
    BY DEF Named, Files, Matches
  <2>2. k \in Nat /\ k < image.boot.dir_entries
    BY <1>1, <2>1 DEF Files
  <2>3. ASSUME NEW j \in Nat, j <= k PROVE ~AtEnd(j)
    <3>1. Entry(image, j).kind # "end"
      BY <2>1, <2>2, <2>3 DEF Files
    <3>2. j < image.boot.dir_entries
      BY <1>1, <2>2, <2>3
    <3>3. QED
      BY <1>1, <3>1, <3>2 DEF AtEnd
  <2>4. QED
    BY <2>1, <2>2, <2>3
<1>3. ASSUME NEW k \in Nat, Matches(k), \A j \in Nat : j <= k => ~AtEnd(j)
      PROVE  k \in Named
  <2>1. k < image.boot.dir_entries
    BY <1>1, <1>3 DEF AtEnd
  <2>2. \A j \in 0 .. k : Entry(image, j).kind # "end"
    BY <1>3 DEF AtEnd
  <2>3. k \in 0 .. image.boot.dir_entries - 1
    BY <1>1, <2>1
  <2>4. QED
    BY <1>3, <2>2, <2>3 DEF Named, Files, Matches
<1>4. QED
  BY <1>2, <1>3

(* A file's clusters: each leads to the next, the last to an end mark.     *)
LEMMA ChainFacts ==
  ASSUME image \in Images, NEW k \in Files(image),
         NEW n \in 1 .. Len(Entry(image, k).clusters)
  PROVE  LET cs == Entry(image, k).clusters
         IN /\ cs \in Seq(Clusters) /\ cs[n] \in Clusters /\ InChain(cs[n])
            /\ n < Len(cs) => get_next_entry(cs[n]) = cs[n + 1] /\ get_next_entry(cs[n]) < 4088
            /\ n = Len(cs) => get_next_entry(cs[n]) >= 4088
            /\ get_next_entry(cs[n]) \in TwelveBits
<1> DEFINE cs == Entry(image, k).clusters
<1>1. WellFormed(image, Entry(image, k))
  BY BootFacts DEF FilesWellFormed
<1>2. cs \in Seq(Clusters) /\ cs # <<>>
  BY <1>1 DEF WellFormed
<1>3. /\ \A m \in 1 .. Len(cs) - 1 : image.fat[cs[m]] = cs[m + 1]
      /\ image.fat[cs[Len(cs)]] \in EndMarks
  BY <1>1, <1>2 DEF WellFormed
<1> HIDE DEF cs
<1>4. cs[n] \in Clusters
  BY <1>2 DEF cs
<1>5. InChain(cs[n])
  <2>1. cs[n] \in Int /\ 2 <= cs[n] /\ cs[n] <= 4084
    BY <1>4, ClusterFacts
  <2>2. QED
    BY <2>1 DEF InChain
<1>6. get_next_entry(cs[n]) = image.fat[cs[n]]
  BY <1>4, NextEntry
<1>7. n < Len(cs) => get_next_entry(cs[n]) = cs[n + 1] /\ get_next_entry(cs[n]) < 4088
  <2> SUFFICES ASSUME n < Len(cs)
               PROVE  get_next_entry(cs[n]) = cs[n + 1] /\ get_next_entry(cs[n]) < 4088
    OBVIOUS
  <2>1. n \in 1 .. Len(cs) - 1 /\ n + 1 \in 1 .. Len(cs)
    BY <1>2 DEF cs
  <2>2. get_next_entry(cs[n]) = cs[n + 1] /\ cs[n + 1] \in Clusters
    BY <1>2, <1>3, <1>6, <2>1
  <2>3. get_next_entry(cs[n]) \in Int /\ get_next_entry(cs[n]) <= 4084
    BY <2>2, ClusterFacts
  <2>4. QED
    BY <2>2, <2>3
<1>8. n = Len(cs) => get_next_entry(cs[n]) >= 4088
  BY <1>3, <1>6 DEF EndMarks
<1>9. get_next_entry(cs[n]) \in TwelveBits
  <2>1. cs[n] \in TableIndex
    <3>1. LastCluster \in Int
      BY BootFacts
    <3>2. cs[n] \in Int /\ 2 <= cs[n] /\ cs[n] <= LastCluster
      BY <1>4, ClusterFacts
    <3>3. QED
      BY <3>1, <3>2 DEF TableIndex
  <2>2. QED
    BY <1>6, <2>1, BootFacts
<1>10. QED
  BY <1>2, <1>4, <1>5, <1>7, <1>8, <1>9 DEF cs

(* The copy is at a cluster of the file.                                   *)
LEMMA AtCluster ==
  ASSUME image \in Images, Underway, pc = "copy", InChain(current_entry)
  PROVE  \E k \in Files(image) : \E n \in 1 .. Len(Entry(image, k).clusters) :
           /\ First(k)
           /\ file_size = Entry(image, k).size
           /\ current_entry = Entry(image, k).clusters[n]
           /\ Len(new_file) = n - 1
           /\ \A m \in 1 .. n - 1 : new_file[m] =
                [sector |-> FIXED_OFFSET + Entry(image, k).clusters[m], bytes |-> SECTOR_SIZE]
<1>1. PICK k : First(k) /\ Written(Entry(image, k))
  BY DEF Underway
<1>2. k \in Files(image)
  BY <1>1, NamedIs DEF First
<1>3. current_entry # 0
  BY DEF InChain
<1>4. QED
  BY <1>1, <1>2, <1>3 DEF Written

------------------------------------------------------------------------------
(* Its preservation *)

(* An entry before the end of the directory leaves room for the next.      *)
LEMMA RoomAfter ==
  ASSUME image \in Images, i \in Index, ~AtEnd(i)
  PROVE  i + 1 \in Index /\ i \in Nat /\ \A j \in Nat : j < i + 1 <=> j < i \/ j = i
<1>1. /\ image.boot.dir_entries \in Int /\ image.boot.dir_entries <= 255
      /\ image.boot.dir_entries % 256 = image.boot.dir_entries
  BY BootFacts
<1>2. i \in Int /\ 0 <= i
  BY DEF Index
<1>3. i < image.boot.dir_entries
  BY <1>1, <1>2 DEF AtEnd
<1>4. i + 1 \in Index
  BY <1>1, <1>2, <1>3 DEF Index
<1>5. QED
  BY <1>2, <1>4

(* A file before the end mark is one of the image's files. *)
LEMMA FileAt ==
  ASSUME image \in Images, NEW k \in Nat, Entry(image, k).kind = "file",
         \A j \in Nat : j <= k => ~AtEnd(j)
  PROVE  k \in Files(image)
<1>1. /\ image.boot.dir_entries \in Int
      /\ image.boot.dir_entries % 256 = image.boot.dir_entries
  BY BootFacts
<1>2. k < image.boot.dir_entries
  BY <1>1 DEF AtEnd
<1>3. \A j \in 0 .. k : Entry(image, j).kind # "end"
  BY DEF AtEnd
<1>4. k \in 0 .. image.boot.dir_entries - 1
  BY <1>1, <1>2
<1>5. QED
  BY <1>3, <1>4 DEF Files

(* What cp writes of a cluster is a piece of a sector. *)
LEMMA PieceType ==
  ASSUME current_entry \in TwelveBits, NEW b \in Int, 0 <= b, b <= 512
  PROVE  Piece(b) \in Pieces
<1>1. FIXED_OFFSET + current_entry \in Nat
  BY DEF TwelveBits, FIXED_OFFSET
<1>2. b \in 0 .. SECTOR_SIZE
  BY DEF SECTOR_SIZE
<1>3. QED
  BY <1>1, <1>2 DEF Piece, Pieces

(* A table entry is a number. *)
LEMMA BitsAreNumbers == \A x \in TwelveBits : x \in Int
  BY DEF TwelveBits

(* 0 and the clusters of the data area are table entries. *)
LEMMA Words ==
  /\ 0 \in TwelveBits /\ 0 \in Index
  /\ image \in Images => Clusters \subseteq TwelveBits
<1>1. ASSUME image \in Images, NEW c \in Clusters PROVE c \in TwelveBits
  <2>1. c \in Int /\ 2 <= c /\ c <= 4084
    BY <1>1, ClusterFacts
  <2>2. QED
    BY <2>1 DEF TwelveBits
<1>2. 0 \in TwelveBits /\ 0 \in Index
  BY DEF TwelveBits, Index
<1>3. QED
  BY <1>1, <1>2

(* Types are preserved. *)
LEMMA TypeStep == IInv /\ [Next]_vars => TypeOK' /\ image' = image
<1> SUFFICES ASSUME IInv, [Next]_vars PROVE TypeOK' /\ image' = image
  OBVIOUS
<1> USE DEF IInv, TypeOK
<1>a. ~AtEnd(i) => i + 1 \in Index /\ i \in Nat /\ \A j \in Nat : j < i + 1 <=> j < i \/ j = i
  BY RoomAfter
<1>b. 0 \in Index /\ <<>> \in Seq(Pieces) /\ <<>> \in Arguments
  BY Words DEF Arguments
<1>0. CASE UNCHANGED vars
  BY <1>0 DEF vars, found, copy
<1>1. CASE StartDir
  BY <1>1, <1>b DEF StartDir, Go, found, copy
<1>2. CASE StartCp
  <2>1. typed' \in Arguments
    BY <1>2 DEF StartCp, Arguments
  <2>2. QED
    BY <1>2, <1>b, <2>1 DEF StartCp, Go, found, copy
<1>3. CASE ListEntry
  <2>1. Entry(image, i).kind = "file" => i \in Files(image)
    <3>1. \A j \in Nat : j <= i => ~AtEnd(j)
      BY <1>3, <1>a DEF ListEntry, Scanned
    <3>2. QED
      BY <1>3, <1>a, <3>1, FileAt DEF ListEntry
  <2>2. listed' \subseteq FileNames(image)
    BY <1>3, <2>1 DEF ListEntry, FileNames
  <2>3. QED
    BY <1>3, <1>a, <2>2 DEF ListEntry, Advance, found, copy
<1>4. CASE EndDir
  BY <1>4, <1>b DEF EndDir, Go, found, copy
<1>5. CASE SkipChecked
  BY <1>5, <1>a DEF SkipChecked, Advance, found, copy
<1>6. CASE FileExists
  BY <1>6, <1>b DEF FileExists, Go, found, copy
<1>7. CASE FileMissing
  BY <1>7, <1>b DEF FileMissing, Go, found, copy
<1>8. CASE SkipInfo
  BY <1>8, <1>a DEF SkipInfo, Advance, found, copy
<1>9. CASE FoundInfo
  <2>1. Entry(image, i).start \in TwelveBits /\ Entry(image, i).size \in Nat
    <3>1. i \in Files(image)
      <4>1. \A j \in Nat : j <= i => ~AtEnd(j)
        BY <1>9, <1>a DEF FoundInfo, Scanned
      <4>2. QED
        BY <1>9, <1>a, <4>1, FileAt DEF FoundInfo, Matches
    <3>2. WellFormed(image, Entry(image, i))
      BY <3>1, BootFacts DEF FilesWellFormed
    <3>3. CASE Entry(image, i).clusters = <<>>
      BY <3>2, <3>3, Words DEF WellFormed
    <3>4. CASE Entry(image, i).clusters # <<>>
      <4>1. Entry(image, i).clusters[1] \in Clusters
        BY <3>2, <3>4 DEF WellFormed
      <4>2. Entry(image, i).clusters[1] \in TwelveBits
        BY <4>1, Words
      <4>3. QED
        BY <3>2, <3>4, <4>2 DEF WellFormed
    <3>5. QED
      BY <3>3, <3>4
  <2>2. QED
    BY <1>9, <1>b, <2>1 DEF FoundInfo, Go
<1>10. CASE CopyCluster
  <2>1. current_entry' \in TwelveBits
    <3>1. get_next_entry(current_entry) \in TwelveBits
      BY <1>10, AtCluster, ChainFacts DEF CopyCluster
    <3>2. QED
      BY <1>10, <3>1, Words DEF CopyCluster
  <2>2. Piece(SECTOR_SIZE) \in Pieces
    BY PieceType DEF SECTOR_SIZE
  <2>3. QED
    BY <1>10, <2>1, <2>2 DEF CopyCluster, found
<1>11. CASE CopyLast
  <2>1. Piece(file_size % SECTOR_SIZE) \in Pieces
    <3>1. file_size % 512 \in Int /\ 0 <= file_size % 512 /\ file_size % 512 <= 512
      OBVIOUS
    <3>2. QED
      BY <3>1, PieceType DEF SECTOR_SIZE
  <2>2. QED
    BY <1>11, <1>b, <2>1 DEF CopyLast, Go, found
<1>12. CASE EndCopy
  BY <1>12, <1>b DEF EndCopy, Go, found, copy
<1>13. QED
  BY <1>0, <1>1, <1>2, <1>3, <1>4, <1>5, <1>6, <1>7, <1>8, <1>9, <1>10, <1>11, <1>12 DEF Next, Run

(* What an action that keeps the image and the name leaves as it was.      *)
LEMMA Kept ==
  /\ UNCHANGED image => \A j : AtEnd(j)' <=> AtEnd(j)
  /\ UNCHANGED <<image, typed>> =>
       /\ Named' = Named
       /\ \A j : Matches(j)' <=> Matches(j)
  BY DEF AtEnd, Matches, Named

(* Scans go on from where they are. *)
LEMMA ScannedStep == IInv /\ [Next]_vars => Scanned'
<1> SUFFICES ASSUME IInv, [Next]_vars PROVE Scanned'
  OBVIOUS
<1> USE DEF IInv, Scanned
<1>a. ~AtEnd(i) => i \in Nat /\ \A j \in Nat : j < i + 1 <=> j < i \/ j = i
  BY RoomAfter DEF TypeOK
<1>b. \A j \in Nat : ~(j < 0)
  OBVIOUS
<1>0. CASE UNCHANGED vars
  BY <1>0, Kept DEF vars
<1>1. CASE StartDir
  BY <1>1, <1>b DEF StartDir, Go
<1>2. CASE StartCp
  BY <1>2, <1>b DEF StartCp, Go
<1>3. CASE ListEntry
  BY <1>3, <1>a, Kept DEF ListEntry, Advance
<1>4. CASE EndDir
  BY <1>4 DEF EndDir, Go
<1>5. CASE SkipChecked
  BY <1>5, <1>a, Kept DEF SkipChecked, Advance
<1>6. CASE FileExists
  <2>1. \A j \in Nat : j <= i => ~AtEnd(j)
    BY <1>6, <1>a DEF FileExists
  <2>2. i \in Named
    BY <1>6, <1>a, <2>1, NamedIs DEF FileExists
  <2>3. QED
    BY <1>6, <1>b, <2>2, Kept DEF FileExists, Go
<1>7. CASE FileMissing
  BY <1>7 DEF FileMissing, Go
<1>8. CASE SkipInfo
  BY <1>8, <1>a, Kept DEF SkipInfo, Advance
<1>9. CASE FoundInfo
  BY <1>9 DEF FoundInfo, Go
<1>10. CASE CopyCluster
  BY <1>10 DEF CopyCluster
<1>11. CASE CopyLast
  BY <1>11 DEF CopyLast, Go
<1>12. CASE EndCopy
  BY <1>12 DEF EndCopy, Go
<1>13. QED
  BY <1>0, <1>1, <1>2, <1>3, <1>4, <1>5, <1>6, <1>7, <1>8, <1>9, <1>10, <1>11, <1>12 DEF Next, Run

(* The copy follows the file's clusters. *)
LEMMA CopyingStep == IInv /\ [Next]_vars => Underway'
<1> SUFFICES ASSUME IInv, [Next]_vars, pc' = "copy"
             PROVE  \E k : First(k)' /\ Written(Entry(image, k))'
  BY DEF Underway
<1> USE DEF IInv
<1>0. CASE UNCHANGED vars
  BY <1>0, Kept DEF vars, found, copy, Underway, First, Written, Entry
<1>9. CASE FoundInfo
  <2>k. PICK k : k = i
    OBVIOUS
  <2> DEFINE file == Entry(image, k)
  <2>a. i \in Nat /\ \A j \in Nat : j < i => ~AtEnd(j) /\ ~Matches(j)
    BY <1>9, RoomAfter DEF FoundInfo, Scanned, TypeOK
  <2>1. i \in Named
    <3>1. \A j \in Nat : j <= i => ~AtEnd(j)
      BY <1>9, <2>a DEF FoundInfo
    <3>2. QED
      BY <1>9, <2>a, <3>1, NamedIs DEF FoundInfo
  <2>2. First(k)
    <3>1. \A j \in Named : j \in Nat /\ ~(j < i)
      BY <2>a, NamedIs
    <3>2. QED
      BY <2>k, <2>a, <2>1, <3>1 DEF First
  <2>3. WellFormed(image, file)
    BY <2>k, <2>1, NamedIs, BootFacts DEF FilesWellFormed
  <2>4. current_entry' = file.start /\ new_file' = <<>> /\ file_size' = file.size
    BY <1>9, <2>k DEF FoundInfo
  <2>5. First(k)' /\ Entry(image, k)' = file
    <3>1. UNCHANGED <<image, typed>>
      BY <1>9 DEF FoundInfo
    <3>2. First(k)'
      BY <2>2, <3>1, Kept DEF First
    <3>3. Entry(image, k)' = Entry(image, k)
      BY <3>1 DEF Entry
    <3>4. QED
      BY <3>2, <3>3
  <2>6. \/ file.clusters = <<>> /\ current_entry' = 0
        \/ 1 \in 1 .. Len(file.clusters) /\ current_entry' = file.clusters[1]
    <3> HIDE DEF file
    <3>1. CASE file.clusters = <<>>
      BY <2>3, <2>4, <3>1 DEF WellFormed
    <3>2. CASE file.clusters # <<>>
      <4>1. file.clusters \in Seq(Clusters) /\ file.start = file.clusters[1]
        BY <2>3, <3>2 DEF WellFormed
      <4>2. QED
        BY <2>4, <3>2, <4>1
    <3>3. QED
      BY <3>1, <3>2
  <2>7. Len(new_file') = 1 - 1 /\ \A m \in 1 .. 1 - 1 : FALSE
    BY <2>4
  <2>8. QED
    <3> HIDE DEF file
    <3>1. Written(file)'
      BY <2>4, <2>5, <2>6, <2>7 DEF Written, file
    <3>2. QED
      BY <2>5, <3>1 DEF file
<1>10. CASE CopyCluster
  <2>1. PICK k \in Files(image) : \E n \in 1 .. Len(Entry(image, k).clusters) :
           /\ First(k)
           /\ file_size = Entry(image, k).size
           /\ current_entry = Entry(image, k).clusters[n]
           /\ Len(new_file) = n - 1
           /\ \A m \in 1 .. n - 1 : new_file[m] =
                [sector |-> FIXED_OFFSET + Entry(image, k).clusters[m], bytes |-> SECTOR_SIZE]
    BY <1>10, AtCluster DEF CopyCluster
  <2> DEFINE file == Entry(image, k)
  <2>2. PICK n \in 1 .. Len(file.clusters) :
           /\ First(k)
           /\ file_size = file.size
           /\ current_entry = file.clusters[n]
           /\ Len(new_file) = n - 1
           /\ \A m \in 1 .. n - 1 : new_file[m] =
                [sector |-> FIXED_OFFSET + file.clusters[m], bytes |-> SECTOR_SIZE]
    BY <2>1
  <2>3. /\ file.clusters \in Seq(Clusters)
        /\ n < Len(file.clusters) => get_next_entry(current_entry) = file.clusters[n + 1]
        /\ n = Len(file.clusters) => get_next_entry(current_entry) >= 4088
        /\ get_next_entry(current_entry) \in TwelveBits
    BY <2>2, ChainFacts
  <2>4. get_next_entry(current_entry) \in Int
    BY <2>3, BitsAreNumbers
  <2>5. /\ get_next_entry(current_entry) < 4088
        /\ current_entry' = get_next_entry(current_entry)
        /\ new_file' = Append(new_file, Piece(SECTOR_SIZE))
        /\ UNCHANGED <<image, typed, file_size>>
    BY <1>10 DEF CopyCluster, found
  <2>6. First(k)' /\ Entry(image, k)' = file
    <3>1. First(k)'
      BY <2>2, <2>5, Kept DEF First
    <3>2. Entry(image, k)' = Entry(image, k)
      BY <2>5 DEF Entry
    <3>3. QED
      BY <3>1, <3>2
  <2> HIDE DEF file
  <2>7. n < Len(file.clusters)
    BY <2>3, <2>4, <2>5
  <2>8. PICK q \in 1 .. Len(file.clusters) : q = n + 1
    BY <2>3, <2>7
  <2>9. current_entry' = file.clusters[q]
    BY <2>3, <2>5, <2>7, <2>8
  <2>10. Len(new_file') = q - 1
    BY <2>2, <2>5, <2>8 DEF TypeOK
  <2>11. \A m \in 1 .. q - 1 : new_file'[m] =
            [sector |-> FIXED_OFFSET + file.clusters[m], bytes |-> SECTOR_SIZE]
    <3> SUFFICES ASSUME NEW m \in 1 .. q - 1
                 PROVE  new_file'[m] =
                   [sector |-> FIXED_OFFSET + file.clusters[m], bytes |-> SECTOR_SIZE]
      OBVIOUS
    <3>1. CASE m = n
      <4>1. new_file'[m] = Piece(SECTOR_SIZE)
        BY <2>2, <2>5, <3>1 DEF TypeOK
      <4>2. QED
        BY <2>2, <3>1, <4>1 DEF Piece
    <3>2. CASE m # n
      <4>1. m \in 1 .. n - 1
        BY <2>8, <3>2
      <4>2. new_file'[m] = new_file[m]
        BY <2>2, <2>5, <4>1 DEF TypeOK
      <4>3. QED
        BY <2>2, <4>1, <4>2
    <3>3. QED
      BY <3>1, <3>2
  <2>12. Written(file)'
    <3>1. file_size' = file.size /\ file' = file
      BY <2>2, <2>5, <2>6 DEF file
    <3>2. QED
      BY <2>9, <2>10, <2>11, <3>1 DEF Written
  <2>13. QED
    BY <2>6, <2>12 DEF file
<1>13. QED
  BY <1>0, <1>9, <1>10 DEF Next, Run, StartDir, StartCp, ListEntry, EndDir, SkipChecked,
    FileExists, FileMissing, SkipInfo, CopyLast, EndCopy, Advance, Go

(* What is left of a file in its last cluster, unless that is full.        *)
LEMMA Remaining ==
  ASSUME NEW size \in Nat, NEW n \in Nat, n >= 1,
         size > (n - 1) * SECTOR_SIZE, size <= n * SECTOR_SIZE, size % SECTOR_SIZE # 0
  PROVE  size % SECTOR_SIZE = size - (n - 1) * SECTOR_SIZE
<1>1. PICK d \in Int : size = d + 512 * (n - 1)
  BY DEF SECTOR_SIZE
<1>2. 0 < d /\ d <= 512 /\ size % 512 = d % 512
  BY <1>1 DEF SECTOR_SIZE
<1>3. d # 512
  BY <1>2 DEF SECTOR_SIZE
<1>4. size % 512 = d
  BY <1>2, <1>3
<1>5. QED
  BY <1>1, <1>4 DEF SECTOR_SIZE

(* The end of a run, with its result. *)
LEMMA ResultsStep == IInv /\ [Next]_vars => Results'
<1> SUFFICES ASSUME IInv, [Next]_vars PROVE Results'
  OBVIOUS
<1> USE DEF IInv
<1>a. image' = image /\ TypeOK'
  BY TypeStep
<1>0. CASE UNCHANGED vars
  <2>1. UNCHANGED <<image, typed, new_file, result, pc>>
    BY <1>0 DEF vars, copy
  <2>2. Named' = Named /\ (\A k : Entry(image, k)' = Entry(image, k) /\ Contents(image, Entry(image, k))' = Contents(image, Entry(image, k)))
    BY <2>1, Kept DEF Entry, Contents
  <2>3. QED
    BY <2>1, <2>2 DEF Results, CopyIsFile, AllButLast
<1>7. CASE FileMissing
  <2>1. \A j \in Nat : j < i => ~Matches(j)
    BY <1>7 DEF FileMissing, Scanned
  <2>2. AtEnd(i) /\ i \in Nat
    BY <1>7 DEF FileMissing, TypeOK, Index
  <2>3. Named = {}
    <3> SUFFICES ASSUME NEW k \in Named PROVE FALSE
      OBVIOUS
    <3>1. k \in Nat /\ Matches(k) /\ ~AtEnd(k) /\ \A j \in Nat : j <= k => ~AtEnd(j)
      BY NamedIs
    <3>2. QED
      BY <2>1, <2>2, <3>1
  <2>4. UNCHANGED <<image, typed>> /\ result' = "missing" /\ pc' = "idle"
    BY <1>7 DEF FileMissing, Go
  <2>5. QED
    BY <2>3, <2>4, Kept DEF Results, CopyIsFile
<1>11. CASE CopyLast
  <2>1. PICK k \in Files(image) : \E n \in 1 .. Len(Entry(image, k).clusters) :
           /\ First(k)
           /\ file_size = Entry(image, k).size
           /\ current_entry = Entry(image, k).clusters[n]
           /\ Len(new_file) = n - 1
           /\ \A m \in 1 .. n - 1 : new_file[m] =
                [sector |-> FIXED_OFFSET + Entry(image, k).clusters[m], bytes |-> SECTOR_SIZE]
    BY <1>11, AtCluster DEF CopyLast
  <2> DEFINE file == Entry(image, k)
  <2>2. PICK n \in 1 .. Len(file.clusters) :
           /\ First(k)
           /\ file_size = file.size
           /\ current_entry = file.clusters[n]
           /\ Len(new_file) = n - 1
           /\ \A m \in 1 .. n - 1 : new_file[m] =
                [sector |-> FIXED_OFFSET + file.clusters[m], bytes |-> SECTOR_SIZE]
    BY <2>1
  <2>3. /\ file.clusters \in Seq(Clusters)
        /\ n < Len(file.clusters) => get_next_entry(current_entry) < 4088
        /\ get_next_entry(current_entry) \in TwelveBits
    BY <2>2, ChainFacts
  <2>4. /\ get_next_entry(current_entry) >= 4088
        /\ new_file' = Append(new_file, Piece(file_size % SECTOR_SIZE))
        /\ UNCHANGED <<image, typed>>
        /\ pc' = "idle" /\ result' = "copied"
    BY <1>11 DEF CopyLast, Go
  <2>5. n = Len(file.clusters)
    <3>1. get_next_entry(current_entry) \in Int
      BY <2>3, BitsAreNumbers
    <3> HIDE DEF file
    <3>2. QED
      BY <2>3, <2>4, <3>1
  <2>6. /\ file.size \in Nat
        /\ file.size > (n - 1) * SECTOR_SIZE
        /\ file.size <= n * SECTOR_SIZE
    <3>1. WellFormed(image, file) /\ file.clusters # <<>>
      BY <2>2, BootFacts DEF FilesWellFormed
    <3>2. QED
      BY <2>5, <3>1 DEF WellFormed
  <2>7. ASSUME file.size % SECTOR_SIZE # 0
        PROVE  new_file' = Contents(image, file)
    <3> HIDE DEF file
    <3>a. n \in Nat /\ n >= 1
      BY <2>2, <2>3
    <3>1. file.size % SECTOR_SIZE = file.size - (n - 1) * SECTOR_SIZE
      BY <2>6, <2>7, <3>a, Remaining
    <3>2. Len(new_file') = n /\ new_file' \in Seq(Pieces)
      <4>1. Len(new_file') = n
        BY <2>2, <2>4 DEF TypeOK
      <4>2. QED
        BY <1>a, <4>1 DEF TypeOK
    <3>3. \A m \in 1 .. n : DataSector(image.boot, file.clusters[m]) = FIXED_OFFSET + file.clusters[m]
      BY <2>3, <2>5, BootFacts
    <3>4. ASSUME NEW m \in 1 .. n
          PROVE  new_file'[m] =
            [sector |-> DataSector(image.boot, file.clusters[m]),
             bytes |-> IF m < Len(file.clusters) THEN SECTOR_SIZE
                       ELSE file.size - (Len(file.clusters) - 1) * SECTOR_SIZE]
      <4>1. CASE m = n
        <5>1. new_file'[m] = Piece(file_size % SECTOR_SIZE)
          BY <2>2, <2>4, <4>1 DEF TypeOK
        <5>2. QED
          BY <2>2, <2>5, <3>1, <3>3, <4>1, <5>1 DEF Piece
      <4>2. CASE m # n
        <5>1. m \in 1 .. n - 1 /\ m < n
          BY <3>a, <4>2
        <5>2. new_file'[m] = new_file[m]
          BY <2>2, <2>4, <5>1 DEF TypeOK
        <5>3. QED
          BY <2>2, <2>5, <3>3, <5>1, <5>2
      <4>3. QED
        BY <4>1, <4>2
    <3>5. new_file' = [m \in 1 .. n |-> new_file'[m]]
      BY <3>2
    <3>6. QED
      BY <2>5, <3>4, <3>5 DEF Contents
  <2>12. /\ Len(new_file') = Len(file.clusters)
         /\ \A m \in 1 .. Len(file.clusters) - 1 : new_file'[m] = Contents(image, file)[m]
    <3> HIDE DEF file
    <3>a. n \in Nat /\ n >= 1
      BY <2>2, <2>3
    <3>1. Len(new_file') = n
      BY <2>2, <2>4 DEF TypeOK
    <3>2. ASSUME NEW m \in 1 .. n - 1
          PROVE  new_file'[m] = Contents(image, file)[m]
      <4>1. m \in 1 .. n /\ m < n
        BY <3>a
      <4>2. new_file'[m] = [sector |-> FIXED_OFFSET + file.clusters[m], bytes |-> SECTOR_SIZE]
        BY <2>2, <2>4, <4>1 DEF TypeOK
      <4>3. DataSector(image.boot, file.clusters[m]) = FIXED_OFFSET + file.clusters[m]
        BY <2>3, <2>5, <4>1, BootFacts
      <4>4. Contents(image, file)[m] =
              [sector |-> DataSector(image.boot, file.clusters[m]), bytes |-> SECTOR_SIZE]
        BY <2>5, <4>1 DEF Contents
      <4>5. QED
        BY <4>2, <4>3, <4>4
    <3>3. QED
      BY <2>5, <3>1, <3>2
  <2>8. file.size # 0
    BY <2>2, <2>6 DEF SECTOR_SIZE
  <2>9. k \in Named' /\ (\A j \in Named' : k <= j) /\ Entry(image, k)' = file
        /\ Contents(image, file)' = Contents(image, file)
    <3>1. k \in Named' /\ \A j \in Named' : k <= j
      BY <2>2, <2>4, Kept DEF First
    <3>2. QED
      BY <2>4, <3>1 DEF Entry, Contents
  <2>10. CopyIsFile'
    <3> HIDE DEF file
    <3>1. Entry(image', k) = file /\ Contents(image', file) = Contents(image, file)
      BY <2>4 DEF file
    <3>2. QED
      BY <2>7, <2>8, <2>9, <2>12, <3>1 DEF CopyIsFile, AllButLast
  <2>11. QED
    BY <2>4, <2>10 DEF Results
<1>12. CASE EndCopy
  <2>1. PICK k : First(k) /\ Written(Entry(image, k))
    BY <1>12 DEF EndCopy, Underway
  <2> DEFINE file == Entry(image, k)
  <2>2. file.clusters = <<>> /\ new_file = <<>>
    <3> SUFFICES ASSUME NEW n \in 1 .. Len(file.clusters), current_entry = file.clusters[n]
                 PROVE  FALSE
      BY <2>1 DEF Written
    <3>1. k \in Files(image)
      BY <2>1, NamedIs DEF First
    <3>2. InChain(current_entry)
      BY <3>1, ChainFacts
    <3>3. QED
      BY <1>12, <3>2 DEF EndCopy
  <2>3. new_file = Contents(image, file)
    <3> HIDE DEF file
    <3>1. Len(file.clusters) = 0
      BY <2>2
    <3>2. QED
      BY <2>2, <3>1 DEF Contents
  <2>4. UNCHANGED <<image, typed, new_file>> /\ pc' = "idle" /\ result' = "copied"
    BY <1>12 DEF EndCopy, Go, copy
  <2>5. k \in Named' /\ \A j \in Named' : k <= j
    BY <2>1, <2>4, Kept DEF First
  <2>6. Len(file.clusters) = 0 /\ Len(new_file) = 0
    BY <2>2
  <2>7. file' = file /\ Contents(image, file)' = Contents(image, file)
    BY <2>4 DEF Entry, Contents
  <2>8. AllButLast(file)'
    <3> HIDE DEF file
    <3>1. QED
      BY <2>4, <2>6, <2>7 DEF AllButLast
  <2>9. QED
    BY <2>3, <2>4, <2>5, <2>7, <2>8 DEF Results, CopyIsFile
<1>13. CASE /\ ~FileMissing /\ ~CopyLast /\ ~EndCopy
            /\ Next
  <2>1. result' = "none"
    BY <1>13 DEF Next, Run, StartDir, StartCp, ListEntry, EndDir, SkipChecked, FileExists,
      SkipInfo, FoundInfo, CopyCluster, Results
  <2>2. QED
    BY <2>1 DEF Results, CopyIsFile
<1>14. QED
  BY <1>0, <1>7, <1>11, <1>12, <1>13

------------------------------------------------------------------------------
(* What is proved of every run of the program *)

(* The invariant holds at the start. *)
LEMMA InitEstablishes == Init => IInv
<1> SUFFICES ASSUME Init PROVE IInv
  OBVIOUS
<1>1. TypeOK
  BY Words DEF Init, TypeOK, Arguments
<1>2. Scanned /\ Underway /\ Results /\ image \in Images
  BY DEF Init, Scanned, Underway, Results, CopyIsFile
<1>3. QED
  BY <1>1, <1>2 DEF IInv

(* Every step keeps it. *)
LEMMA InvariantStep == IInv /\ [Next]_vars => IInv'
<1> SUFFICES ASSUME IInv, [Next]_vars PROVE IInv'
  OBVIOUS
<1>1. TypeOK' /\ image' \in Images
  BY TypeStep DEF IInv
<1>2. Scanned' /\ Underway' /\ Results'
  BY ScannedStep, CopyingStep, ResultsStep
<1>3. QED
  BY <1>1, <1>2 DEF IInv

(* The invariant of every run of the program. *)
LEMMA Invariant == Spec => []IInv
  BY InitEstablishes, InvariantStep, PTL DEF Spec

(* Every variable keeps its type: the positions of the scans stay within   *)
(* the directory, and every piece that is written within a sector.         *)
THEOREM TypeCorrect == Spec => []TypeOK
<1>1. IInv => TypeOK
  BY DEF IInv
<1>2. QED
  BY <1>1, Invariant, PTL

(* cp writes the contents of the first file of the name it was given, for  *)
(* every image that is well formed.                                        *)
THEOREM CopyCorrect == Spec => []CopyIsFile
<1>1. IInv => CopyIsFile
  BY DEF IInv, Results
<1>2. QED
  BY <1>1, Invariant, PTL

(* A file that dir has shown is never missing for cp.                      *)
THEOREM ListedCorrect == Spec => []ListedCanBeCopied
<1>1. IInv => ListedCanBeCopied
  <2> SUFFICES ASSUME IInv, result = "missing"
               PROVE  typed \notin listed /\ Named = {}
    BY DEF ListedCanBeCopied
  <2>1. Named = {} /\ listed \subseteq FileNames(image)
    BY DEF IInv, Results, TypeOK
  <2>2. typed \notin FileNames(image)
    BY <2>1 DEF FileNames, Named
  <2>3. QED
    BY <2>1, <2>2
<1>2. QED
  BY <1>1, Invariant, PTL

(* get_file_info finds the file that check_if_file_in_root_dir has found:  *)
(* the start entry and the size are set before they are used.              *)
THEOREM InfoCorrect == Spec => []InfoIsFound
<1>1. IInv => InfoIsFound
  <2> SUFFICES ASSUME IInv, pc = "info" PROVE ~AtEnd(i)
    BY DEF InfoIsFound
  <2>1. PICK k : k \in Named
    BY DEF IInv, Scanned
  <2>2. k \in Nat /\ Matches(k) /\ \A j \in Nat : j <= k => ~AtEnd(j)
    BY <2>1, NamedIs DEF IInv
  <2>3. i \in Nat /\ ~(k < i)
    BY <2>2 DEF IInv, Scanned, TypeOK, Index
  <2>4. QED
    BY <2>2, <2>3
<1>2. QED
  BY <1>1, Invariant, PTL

------------------------------------------------------------------------------
(* The lines of dir *)

(* Every non-empty set of naturals has a least element. *)
LEMMA LeastNat ==
  ASSUME NEW S \in SUBSET Nat, S # {}
  PROVE  \E x \in S : \A y \in S : x <= y
<1> DEFINE R == OpToRel(<, Nat)
<1>1. IsWellFoundedOn(R, Nat)
  BY NatLessThanWellFounded
<1>2. \A x, y \in Nat : <<y, x>> \in R <=> y < x
  BY DEF OpToRel
<1> HIDE DEF R
<1>3. PICK x \in S : \A y \in S : ~(<<y, x>> \in R)
  BY <1>1, WFMin
<1>4. \A y \in S : x \in Nat /\ y \in Nat /\ ~(y < x)
  BY <1>2, <1>3
<1> QED BY <1>3, <1>4

(* Induction over the naturals, of a set instead of a predicate. *)
LEMMA Induction ==
  ASSUME NEW S, 0 \in S, \A n \in Nat : n \in S => n + 1 \in S
  PROVE  Nat \subseteq S
<1> SUFFICES ASSUME Nat \ S # {} PROVE FALSE
  OBVIOUS
<1>1. PICK x \in Nat \ S : \A y \in Nat \ S : x <= y
  BY LeastNat
<1>2. x # 0 /\ x - 1 \in Nat /\ (x - 1) + 1 = x /\ ~(x <= x - 1)
  BY <1>1
<1> QED BY <1>1, <1>2

(* A recursive definition on D, with values in V: it ends in Z, and goes   *)
(* from elsewhere to an argument that measures less.                       *)
Descends(D, V, mu, next, Z, c, B) ==
  /\ mu \in [D -> Nat] /\ next \in [D -> D] /\ Z \subseteq D
  /\ c \in [D -> V] /\ B \in [D -> [V -> V]]
  /\ \A d \in D \ Z : mu[next[d]] < mu[d]

(* Such a definition has a solution. *)
LEMMA Recursion ==
  ASSUME NEW D, NEW V, NEW mu, NEW next, NEW Z, NEW c, NEW B, Descends(D, V, mu, next, Z, c, B)
  PROVE  \E F \in [D -> V] : \A d \in D : F[d] = IF d \in Z THEN c[d] ELSE B[d][F[next[d]]]
<1> USE DEF Descends
<1> DEFINE Fits(n, g) == \A d \in D : mu[d] < n =>
             g[d] = IF d \in Z THEN c[d] ELSE B[d][g[next[d]]]
           S == {n \in Nat : \E g \in [D -> V] : Fits(n, g)}
           h(n) == CHOOSE g \in [D -> V] : Fits(n, g)
           F == [d \in D |-> h(mu[d] + 1)[d]]
<1>1. Nat \subseteq S
  <2>1. 0 \in S
    <3>1. Fits(0, c)
      OBVIOUS
    <3> QED BY <3>1
  <2>2. ASSUME NEW n \in Nat, n \in S PROVE n + 1 \in S
    <3>1. PICK g \in [D -> V] : Fits(n, g)
      BY <2>2
    <3> DEFINE k == [d \in D |-> IF d \in Z THEN c[d] ELSE B[d][g[next[d]]]]
    <3>2. k \in [D -> V]
      OBVIOUS
    <3>3. ASSUME NEW d \in D, mu[d] < n + 1
          PROVE  k[d] = IF d \in Z THEN c[d] ELSE B[d][k[next[d]]]
      <4>1. CASE d \in Z
        BY <4>1
      <4>2. CASE d \notin Z
        <5>1. next[d] \in D /\ mu[next[d]] < n
          <6>1. next[d] \in D /\ mu[d] \in Nat /\ mu[next[d]] \in Nat
            OBVIOUS
          <6> QED BY <3>3, <4>2, <6>1
        <5>2. k[next[d]] = g[next[d]]
          BY <3>1, <5>1
        <5> QED BY <4>2, <5>2
      <4> QED BY <4>1, <4>2
    <3> HIDE DEF k
    <3>4. Fits(n + 1, k)
      BY <3>3
    <3> QED BY <3>2, <3>4
  <2> HIDE DEF S
  <2> QED BY <2>1, <2>2, Induction
<1>2. \A n \in Nat : h(n) \in [D -> V] /\ Fits(n, h(n))
  BY <1>1
<1>3. ASSUME NEW m \in Nat, NEW n \in Nat, NEW e \in D, mu[e] < m, mu[e] < n
      PROVE  h(m)[e] = h(n)[e]
  <2> DEFINE G == h(m)
             H == h(n)
             Bad == {d \in D : mu[d] < m /\ mu[d] < n /\ G[d] # H[d]}
             T == {mu[d] : d \in Bad}
  <2>1. Fits(m, G) /\ Fits(n, H)
    BY <1>2
  <2> HIDE DEF h, G, H
  <2> SUFFICES ASSUME T # {} PROVE FALSE
    BY <1>3 DEF G, H
  <2>2. T \in SUBSET Nat
    OBVIOUS
  <2> HIDE DEF T
  <2>3. PICK x \in T : \A y \in T : x <= y
    BY <2>2, LeastNat
  <2>4. PICK d \in Bad : x = mu[d]
    BY <2>3 DEF T
  <2>5. d \notin Z
    BY <2>1, <2>4
  <2>6. next[d] \in D /\ mu[next[d]] < mu[d] /\ mu[d] \in Nat /\ mu[next[d]] \in Nat
    BY <2>4, <2>5
  <2>7. mu[next[d]] \notin T
    BY <2>3, <2>4, <2>6
  <2>8. next[d] \notin Bad
    BY <2>7 DEF T
  <2>9. G[next[d]] = H[next[d]]
    BY <2>4, <2>6, <2>8
  <2> QED BY <2>1, <2>4, <2>5, <2>9
<1> HIDE DEF h
<1>4. F \in [D -> V]
  BY <1>2
<1>5. ASSUME NEW d \in D PROVE F[d] = IF d \in Z THEN c[d] ELSE B[d][F[next[d]]]
  <2>1. F[d] = h(mu[d] + 1)[d] /\ mu[d] \in Nat
    OBVIOUS
  <2>2. Fits(mu[d] + 1, h(mu[d] + 1))
    BY <1>2, <2>1
  <2>3. F[d] = IF d \in Z THEN c[d] ELSE B[d][h(mu[d] + 1)[next[d]]]
    BY <2>1, <2>2
  <2>4. ASSUME d \notin Z PROVE h(mu[d] + 1)[next[d]] = F[next[d]]
    <3>1. next[d] \in D /\ mu[next[d]] \in Nat /\ mu[next[d]] < mu[d]
      BY <2>4
    <3>2. h(mu[d] + 1)[next[d]] = h(mu[next[d]] + 1)[next[d]]
      BY <1>3, <2>1, <3>1
    <3> QED BY <3>1, <3>2
  <2> QED BY <2>3, <2>4
<1> QED BY <1>4, <1>5

------------------------------------------------------------------------------
(* Sequences of one element and of two.                                    *)
LEMMA Singleton ==
  /\ \A S : \A x \in S : <<x>> \in Seq(S)
  /\ \A S : \A s, t \in Seq(S) : s \o t \in Seq(S)
  OBVIOUS

(* What format_number writes.                                              *)
Characters == {Digit[k] : k \in 1 .. 10} \cup {","}

(* What a digit is worth. *)
LEMMA DigitValue ==
  /\ \A k \in 1 .. 10 : Value(Digit[k]) = k % 10 /\ Digit[k] # ","
  /\ \A c \in Characters : c # "," => Value(c) \in Int
<1>1. \A k \in 1 .. 10 : Value(Digit[k]) = k % 10 /\ Digit[k] # ","
  <2>1. \A k \in 1 .. 10 : Value(Digit[k]) = k % 10
    BY DEF Value, Digit
  <2>2. \A k \in 1 .. 10 : Digit[k] \in {"1", "2", "3", "4", "5", "6", "7", "8", "9", "0"}
    BY DEF Digit
  <2>3. "," \notin {"1", "2", "3", "4", "5", "6", "7", "8", "9", "0"}
    OBVIOUS
  <2> QED BY <2>1, <2>2, <2>3
<1>2. \A k \in 1 .. 10 : k % 10 \in Int
  OBVIOUS
<1> QED BY <1>1, <1>2, Zenon DEF Characters

(* What a round of the loop writes. *)
LEMMA RoundIs ==
  ASSUME NEW n \in Nat, NEW c \in Nat
  PROVE  \E d \in Characters :
           /\ d # "," /\ Value(d) = n % 10
           /\ Round(n, c) = IF c % 3 = 0 /\ c # 0 THEN <<",">> \o <<d>> ELSE <<d>>
<1> DEFINE k == ((n + 9) % 10) + 1
           d == Digit[k]
<1>1. k \in 1 .. 10 /\ k % 10 = n % 10
  OBVIOUS
<1>2. d \in Characters /\ d # "," /\ Value(d) = n % 10
  <2> HIDE DEF k
  <2>1. Value(d) = k % 10 /\ d # ","
    BY <1>1, DigitValue
  <2> QED BY <1>1, <2>1 DEF Characters
<1>3. Round(n, c) = IF c % 3 = 0 /\ c # 0 THEN <<",">> \o <<d>> ELSE <<d>>
  <2>1. Round(n, c) = Comma(c) \o <<d>>
    BY DEF Round
  <2> HIDE DEF d
  <2>2. CASE c % 3 = 0 /\ c # 0
    <3>1. Comma(c) = <<",">>
      BY <2>2 DEF Comma
    <3> QED BY <2>1, <2>2, <3>1
  <2>3. CASE ~(c % 3 = 0 /\ c # 0)
    <3>1. Comma(c) = <<>>
      BY <2>3 DEF Comma
    <3>2. <<>> \o <<d>> = <<d>>
      OBVIOUS
    <3> QED BY <2>1, <2>3, <3>1, <3>2
  <2> QED BY <2>2, <2>3
<1> QED BY <1>2, <1>3

(* The recursion of format_number ends. *)
LEMMA TempIs ==
  /\ temp \in [Nat -> [Nat -> Seq(Characters)]]
  /\ \A n, c \in Nat :
       temp[n][c] = IF n = 0 THEN <<>> ELSE Round(n, c) \o temp[n \div 10][c + 1]
<1> DEFINE V == [Nat -> Seq(Characters)]
           mu == [n \in Nat |-> n]
           next == [n \in Nat |-> n \div 10]
           zero == [n \in Nat |-> [c \in Nat |-> <<>>]]
           B == [n \in Nat |-> [v \in V |-> [c \in Nat |-> Round(n, c) \o v[c + 1]]]]
           Z == {0}
<1>1. \A n, c \in Nat : Round(n, c) \in Seq(Characters)
  <2> SUFFICES ASSUME NEW n \in Nat, NEW c \in Nat PROVE Round(n, c) \in Seq(Characters)
    OBVIOUS
  <2>1. PICK d \in Characters : Round(n, c) = IF c % 3 = 0 /\ c # 0 THEN <<",">> \o <<d>> ELSE <<d>>
    BY RoundIs
  <2>2. <<",">> \in Seq(Characters) /\ <<d>> \in Seq(Characters)
    BY <2>1, Singleton DEF Characters
  <2>3. <<",">> \o <<d>> \in Seq(Characters)
    BY <2>2, Singleton
  <2> QED BY <2>1, <2>2, <2>3
<1>2. Descends(Nat, V, mu, next, Z, zero, B)
  <2>1. mu \in [Nat -> Nat] /\ Z \subseteq Nat /\ zero \in [Nat -> V]
    OBVIOUS
  <2>2. next \in [Nat -> Nat] /\ \A n \in Nat \ Z : next[n] < mu[n]
    OBVIOUS
  <2>3. B \in [Nat -> [V -> V]]
    <3>1. ASSUME NEW n \in Nat, NEW v \in V PROVE [c \in Nat |-> Round(n, c) \o v[c + 1]] \in V
      <4>1. ASSUME NEW c \in Nat PROVE Round(n, c) \o v[c + 1] \in Seq(Characters)
        BY <1>1
      <4> QED BY <4>1
    <3> HIDE DEF V
    <3> QED BY <3>1
  <2>4. \A n \in Nat \ Z : mu[next[n]] < mu[n]
    BY <2>2
  <2> HIDE DEF V, mu, next, zero, B, Z
  <2> QED BY <2>1, <2>2, <2>3, <2>4 DEF Descends
<1> HIDE DEF V, mu, next, zero, B, Z
<1>3. PICK F \in [Nat -> V] : \A n \in Nat : F[n] = IF n \in Z THEN zero[n] ELSE B[n][F[next[n]]]
  BY <1>2, Recursion
<1> DEFINE Unfolds(G) == G = [n \in Nat |-> [c \in Nat |->
                           IF n = 0 THEN <<>> ELSE Round(n, c) \o G[n \div 10][c + 1]]]
<1>4. Unfolds(F)
  <2>1. ASSUME NEW n \in Nat
        PROVE  F[n] = [c \in Nat |-> IF n = 0 THEN <<>> ELSE Round(n, c) \o F[n \div 10][c + 1]]
    <3>1. n \div 10 \in Nat /\ next[n] = n \div 10 /\ F[n \div 10] \in V
      BY <1>3 DEF next
    <3>2. CASE n = 0
      BY <1>3, <3>2 DEF Z, zero
    <3>3. CASE n # 0
      <4>1. F[n] = [c \in Nat |-> Round(n, c) \o F[n \div 10][c + 1]]
        BY <1>3, <3>1, <3>3 DEF Z, B
      <4> QED BY <3>3, <4>1
    <3> QED BY <3>2, <3>3
  <2>2. DOMAIN F = Nat
    BY <1>3
  <2> QED BY <1>3, <2>1, <2>2
<1>5. Unfolds(temp)
  BY <1>4, Zenon DEF temp
<1>6. \A n, c \in Nat : temp[n][c] = IF n = 0 THEN <<>> ELSE Round(n, c) \o temp[n \div 10][c + 1]
  <2> SUFFICES ASSUME NEW n \in Nat, NEW c \in Nat
               PROVE  temp[n][c] = IF n = 0 THEN <<>> ELSE Round(n, c) \o temp[n \div 10][c + 1]
    OBVIOUS
  <2>1. temp[n] = [e \in Nat |-> IF n = 0 THEN <<>> ELSE Round(n, e) \o temp[n \div 10][e + 1]]
    BY <1>5
  <2> QED BY <2>1
<1>7. \A n \in Nat : temp[n] \in V
  <2> DEFINE S == {n \in Nat : \A m \in Nat : m <= n => temp[m] \in V}
  <2>0. ASSUME NEW m \in Nat, m = 0 \/ temp[m \div 10] \in V PROVE temp[m] \in V
    <3>1. temp[m] = [c \in Nat |-> IF m = 0 THEN <<>> ELSE Round(m, c) \o temp[m \div 10][c + 1]]
      BY <1>5
    <3>2. ASSUME NEW c \in Nat
          PROVE  (IF m = 0 THEN <<>> ELSE Round(m, c) \o temp[m \div 10][c + 1]) \in Seq(Characters)
      <4>1. CASE m = 0
        BY <4>1
      <4>2. CASE m # 0
        <5>1. temp[m \div 10][c + 1] \in Seq(Characters)
          BY <2>0, <4>2 DEF V
        <5>2. Round(m, c) \in Seq(Characters)
          BY <1>1
        <5> QED BY <4>2, <5>1, <5>2
      <4> QED BY <4>1, <4>2
    <3> QED BY <3>1, <3>2 DEF V
  <2>1. 0 \in S
    BY <2>0
  <2>2. ASSUME NEW n \in Nat, n \in S PROVE n + 1 \in S
    <3>1. (n + 1) \div 10 \in Nat /\ (n + 1) \div 10 <= n
      OBVIOUS
    <3>2. temp[n + 1] \in V
      BY <2>0, <2>2, <3>1
    <3>3. \A m \in Nat : m <= n + 1 => m <= n \/ m = n + 1
      OBVIOUS
    <3> QED BY <2>2, <3>2, <3>3
  <2> HIDE DEF S
  <2>3. Nat \subseteq S
    BY <2>1, <2>2, Induction
  <2> QED BY <2>3 DEF S
<1>8. DOMAIN temp = Nat
  BY <1>5
<1> QED BY <1>5, <1>6, <1>7, <1>8 DEF V

------------------------------------------------------------------------------
(* A sequence with one element more in front. *)
Prefix(S, x, r, s) ==
  /\ s \in Seq(S) /\ Len(s) = Len(r) + 1 /\ Len(r) \in Nat /\ s[1] = x
  /\ \A j \in 1 .. Len(r) : s[j + 1] = r[j]
  /\ Reverse(r) \in Seq(S) /\ Len(Reverse(r)) = Len(r) /\ Reverse(s) = Append(Reverse(r), x)

LEMMA Prefixed ==
  ASSUME NEW S, NEW x \in S, NEW r \in Seq(S), NEW s, s = <<x>> \o r
  PROVE  Prefix(S, x, r, s)
<1>1. /\ s \in Seq(S) /\ Len(s) = Len(r) + 1 /\ Len(r) \in Nat /\ s[1] = x
      /\ \A j \in 1 .. Len(r) : s[j + 1] = r[j]
  OBVIOUS
<1>2. Reverse(r) \in Seq(S) /\ Len(Reverse(r)) = Len(r) /\ \A j \in 1 .. Len(r) : Reverse(r)[j] = r[Len(r) - j + 1]
  BY DEF Reverse
<1>3. Reverse(s) \in Seq(S) /\ Len(Reverse(s)) = Len(s) /\ \A j \in 1 .. Len(s) : Reverse(s)[j] = s[Len(s) - j + 1]
  BY <1>1 DEF Reverse
<1> HIDE DEF Reverse
<1> DEFINE a == Append(Reverse(r), x)
<1>4. a \in Seq(S) /\ Len(a) = Len(r) + 1 /\ a[Len(r) + 1] = x /\ \A j \in 1 .. Len(r) : a[j] = Reverse(r)[j]
  BY <1>2
<1> HIDE DEF a
<1>5. ASSUME NEW j \in 1 .. Len(s) PROVE Reverse(s)[j] = a[j]
  <2>1. CASE j = Len(r) + 1
    BY <1>1, <1>3, <1>4, <2>1
  <2>2. CASE j # Len(r) + 1
    <3>1. j \in 1 .. Len(r) /\ Len(r) - j + 1 \in 1 .. Len(r)
      BY <1>1, <2>2
    <3>2. Reverse(s)[j] = s[(Len(r) - j + 1) + 1]
      <4>1. Reverse(s)[j] = s[Len(s) - j + 1]
        BY <1>3
      <4>2. Len(s) - j + 1 = (Len(r) - j + 1) + 1
        <5>1. \A u, v \in Nat : (u + 1) - v + 1 = (u - v + 1) + 1
          OBVIOUS
        <5> QED BY <1>1, <3>1, <5>1
      <4> QED BY <4>1, <4>2
    <3>3. s[(Len(r) - j + 1) + 1] = r[Len(r) - j + 1]
      BY <1>1, <3>1
    <3> QED BY <1>2, <1>4, <3>1, <3>2, <3>3
  <2> QED BY <2>1, <2>2
<1>6. Reverse(s) = a
  <2>1. DOMAIN Reverse(s) = 1 .. Len(s) /\ DOMAIN a = 1 .. Len(s)
    <3>1. \A u \in Seq(S) : DOMAIN u = 1 .. Len(u)
      OBVIOUS
    <3>2. Len(Reverse(s)) = Len(s) /\ Len(a) = Len(s)
      BY <1>1, <1>3, <1>4
    <3> QED BY <1>3, <1>4, <3>1, <3>2
  <2>2. Reverse(s) = [j \in DOMAIN Reverse(s) |-> Reverse(s)[j]] /\ a = [j \in DOMAIN a |-> a[j]]
    BY <1>3, <1>4
  <2> QED BY <1>5, <2>1, <2>2
<1> QED BY <1>1, <1>2, <1>6 DEF a, Prefix

(* A round of the loop puts a digit in front, or a comma and a digit. *)
LEMMA TempUnfolds ==
  ASSUME NEW n \in Nat, n # 0, NEW c \in Nat
  PROVE  LET r == temp[n \div 10][c + 1]
         IN  \E d \in Characters :
               /\ d # "," /\ Value(d) = n % 10
               /\ r \in Seq(Characters)
               /\ temp[n][c] = IF c % 3 = 0 /\ c # 0 THEN <<",">> \o (<<d>> \o r) ELSE <<d>> \o r
<1> DEFINE r == temp[n \div 10][c + 1]
<1>1. r \in Seq(Characters)
  BY TempIs
<1>2. temp[n][c] = Round(n, c) \o r
  BY TempIs
<1> HIDE DEF r
<1>3. PICK d \in Characters :
        /\ d # "," /\ Value(d) = n % 10
        /\ Round(n, c) = IF c % 3 = 0 /\ c # 0 THEN <<",">> \o <<d>> ELSE <<d>>
  BY RoundIs
<1>4. (<<",">> \o <<d>>) \o r = <<",">> \o (<<d>> \o r)
  <2>1. \A t, u, v \in Seq(Characters) : (t \o u) \o v = t \o (u \o v)
    OBVIOUS
  <2>2. <<",">> \in Seq(Characters) /\ <<d>> \in Seq(Characters)
    BY <1>3, Singleton DEF Characters
  <2> QED BY <1>1, <2>1, <2>2
<1>5. temp[n][c] = IF c % 3 = 0 /\ c # 0 THEN <<",">> \o (<<d>> \o r) ELSE <<d>> \o r
  BY <1>2, <1>3, <1>4
<1> QED BY <1>1, <1>3, <1>5 DEF r

(* A number that has been read up to a character, and the next one.        *)
Reads(n, c) == IF c = "," THEN n ELSE 10 * n + Value(c)

(* The greatest of some positions. *)
LEMMA MaxIs ==
  ASSUME NEW L \in Nat, NEW s \in SUBSET (1 .. L), s # {}
  PROVE  Max(s) \in s /\ \A x \in s : x <= Max(s)
<1> DEFINE T == {L - x : x \in s}
<1>1. T \in SUBSET Nat /\ T # {}
  <2>1. \A x \in 1 .. L : L - x \in Nat
    OBVIOUS
  <2> QED BY <2>1
<1> HIDE DEF T
<1>2. PICK t \in T : \A u \in T : t <= u
  BY <1>1, LeastNat
<1>3. PICK x \in s : t = L - x
  BY <1>2 DEF T
<1>4. \A y \in s : L - y \in T
  BY DEF T
<1>5. \A y \in s : x >= y
  <2> SUFFICES ASSUME NEW y \in s PROVE x >= y
    OBVIOUS
  <2>1. x \in Int /\ y \in Int /\ L - x <= L - y
    BY <1>2, <1>3, <1>4
  <2> QED BY <2>1
<1>6. Max(s) \in s /\ \A y \in s : Max(s) >= y
  BY <1>3, <1>5 DEF Max
<1> QED BY <1>6

(* Number reads from left to right. *)
LEMMA NumberReads ==
  ASSUME NEW q \in Seq(Characters)
  PROVE  \E h : /\ h[0] = 0 /\ \A m \in 0 .. Len(q) : h[m] \in Int
                /\ \A m \in 1 .. Len(q) : h[m] = Reads(h[m - 1], q[m])
                /\ Number(q) = h[Len(q)]
<1> DEFINE L == Len(q)
           D == SUBSET (1 .. L)
           Z == {{}}
           mu == [s \in D |-> Cardinality(s)]
           next == [s \in D |-> s \ {Max(s)}]
           zero == [s \in D |-> 0]
           B == [s \in D |-> [v \in Int |-> IF s = {} THEN 0 ELSE Reads(v, q[Max(s)])]]
<1>1. L \in Nat /\ DOMAIN q = 1 .. L /\ \A k \in 1 .. L : q[k] \in Characters
  OBVIOUS
<1>2. \A v \in Int : \A c \in Characters : Reads(v, c) \in Int
  <2> SUFFICES ASSUME NEW v \in Int, NEW c \in Characters PROVE Reads(v, c) \in Int
    OBVIOUS
  <2>1. c # "," => Value(c) \in Int
    BY DigitValue
  <2>2. CASE c = ","
    BY <2>2 DEF Reads
  <2>3. CASE c # ","
    <3>1. \A w \in Int : 10 * v + w \in Int
      OBVIOUS
    <3>2. Value(c) \in Int
      BY <2>1, <2>3
    <3>3. 10 * v + Value(c) \in Int
      BY <3>1, <3>2
    <3> QED BY <2>3, <3>3 DEF Reads
  <2> QED BY <2>2, <2>3
<1> HIDE DEF L
<1>3. Descends(D, Int, mu, next, Z, zero, B)
  <2>1. \A s \in D : Cardinality(s) \in Nat /\ \A x \in s : Cardinality(s \ {x}) = Cardinality(s) - 1
    <3> SUFFICES ASSUME NEW s \in D
                 PROVE  Cardinality(s) \in Nat /\ \A x \in s : Cardinality(s \ {x}) = Cardinality(s) - 1
      OBVIOUS
    <3>1. IsFiniteSet(s)
      <4>1. IsFiniteSet(1 .. L)
        BY <1>1, FS_Interval
      <4> QED BY <4>1, FS_Subset
    <3> QED BY <3>1, FS_CardinalityType, FS_RemoveElement
  <2>2. mu \in [D -> Nat]
    BY <2>1
  <2>3. next \in [D -> D] /\ Z \subseteq D /\ zero \in [D -> Int]
    OBVIOUS
  <2>4. \A s \in D : s # {} => Max(s) \in s
    BY <1>1, MaxIs
  <2>5. B \in [D -> [Int -> Int]]
    <3>1. ASSUME NEW s \in D, NEW v \in Int
          PROVE  (IF s = {} THEN 0 ELSE Reads(v, q[Max(s)])) \in Int
      <4>1. CASE s = {}
        BY <4>1
      <4>2. CASE s # {}
        <5>1. q[Max(s)] \in Characters
          BY <1>1, <2>4, <4>2
        <5> QED BY <1>2, <4>2, <5>1
      <4> QED BY <4>1, <4>2
    <3> HIDE DEF D
    <3> QED BY <3>1
  <2>6. ASSUME NEW s \in D \ Z PROVE mu[next[s]] < mu[s]
    <3>1. next[s] = s \ {Max(s)} /\ next[s] \in D /\ Max(s) \in s
      BY <2>4
    <3>2. Cardinality(next[s]) = Cardinality(s) - 1 /\ Cardinality(s) \in Nat
      BY <2>1, <3>1
    <3> QED BY <3>1, <3>2
  <2> HIDE DEF D, Z, mu, next, zero, B
  <2> QED BY <2>2, <2>3, <2>5, <2>6 DEF Descends
<1> HIDE DEF mu, next, zero, B
<1>4. PICK F \in [D -> Int] : \A s \in D : F[s] = IF s \in Z THEN zero[s] ELSE B[s][F[next[s]]]
  <2> HIDE DEF D, Z
  <2> QED BY <1>3, Recursion
<1> DEFINE Unfolds(G) == G = [s \in SUBSET DOMAIN q |->
             IF s = {} THEN 0 ELSE IF q[Max(s)] = "," THEN G[s \ {Max(s)}]
                                   ELSE 10 * G[s \ {Max(s)}] + Value(q[Max(s)])]
<1>5. Unfolds(F)
  <2>1. ASSUME NEW s \in D
        PROVE  F[s] = IF s = {} THEN 0 ELSE Reads(F[s \ {Max(s)}], q[Max(s)])
    <3>1. next[s] = s \ {Max(s)} /\ zero[s] = 0 /\ F[next[s]] \in Int
      BY <1>4 DEF next, zero
    <3>2. s # {} => B[s][F[next[s]]] = Reads(F[next[s]], q[Max(s)])
      BY <3>1 DEF B
    <3> QED BY <1>4, <3>1, <3>2
  <2> QED BY <1>1, <1>4, <2>1 DEF Reads
<1>6. PICK G : Unfolds(G) /\ Number(q) = G[DOMAIN q]
  <2>1. \E G : Unfolds(G) /\ Number(q) = G[DOMAIN q]
    BY <1>5, Zenon DEF Number, FoldLeft, MapThenFoldSet
  <2> QED BY <2>1, Zenon
<1> DEFINE h == [m \in 0 .. L |-> G[1 .. m]]
<1>7. h[0] = 0
  <2>1. 1 .. 0 = {} /\ 0 \in 0 .. L
    BY <1>1
  <2> QED BY <1>1, <1>6, <2>1
<1>8. ASSUME NEW m \in 1 .. L PROVE h[m] = Reads(h[m - 1], q[m])
  <2>1. 1 .. m \in SUBSET (1 .. L) /\ m \in 1 .. m /\ m - 1 \in 0 .. L /\ m \in 0 .. L
    BY <1>1
  <2>2. Max(1 .. m) = m
    <3>1. Max(1 .. m) \in 1 .. m /\ \A x \in 1 .. m : x <= Max(1 .. m)
      BY <1>1, <2>1, MaxIs
    <3> QED BY <2>1, <3>1
  <2>3. (1 .. m) \ {m} = 1 .. m - 1
    BY <1>1
  <2>4. G[1 .. m] = IF q[m] = "," THEN G[1 .. m - 1] ELSE 10 * G[1 .. m - 1] + Value(q[m])
    <3> DEFINE s == 1 .. m
    <3>1. s \in SUBSET DOMAIN q /\ s # {} /\ Max(s) = m /\ s \ {m} = 1 .. m - 1
      BY <1>1, <2>1, <2>2, <2>3
    <3> HIDE DEF s
    <3>2. G[s] = IF q[m] = "," THEN G[1 .. m - 1] ELSE 10 * G[1 .. m - 1] + Value(q[m])
      BY <1>6, <3>1
    <3> QED BY <3>2 DEF s
  <2> QED BY <2>1, <2>4 DEF Reads
<1>9. Number(q) = h[L]
  <2>1. L \in 0 .. L
    BY <1>1
  <2> QED BY <1>1, <1>6, <2>1
<1> HIDE DEF h
<1>10. \A m \in 0 .. L : h[m] \in Int
  <2> DEFINE S == {m \in Nat : m <= L => h[m] \in Int}
  <2>1. 0 \in S
    BY <1>7
  <2>2. ASSUME NEW m \in Nat, m \in S PROVE m + 1 \in S
    <3> SUFFICES ASSUME m + 1 <= L PROVE h[m + 1] \in Int
      OBVIOUS
    <3>1. m + 1 \in 1 .. L /\ (m + 1) - 1 = m /\ h[m] \in Int
      BY <1>1, <2>2
    <3> QED BY <1>1, <1>2, <1>8, <3>1
  <2> HIDE DEF S
  <2>3. Nat \subseteq S
    BY <2>1, <2>2, Induction
  <2> QED BY <1>1, <2>3 DEF S
<1> QED BY <1>7, <1>8, <1>9, <1>10 DEF L

------------------------------------------------------------------------------
(* A character more at the end. *)
LEMMA NumberAppend ==
  /\ Number(<<>>) = 0
  /\ \A q \in Seq(Characters) : Number(q) \in Int
  /\ \A q \in Seq(Characters), x \in Characters : Number(Append(q, x)) = Reads(Number(q), x)
<1>1. Number(<<>>) = 0
  <2>1. <<>> \in Seq(Characters) /\ Len(<<>>) = 0
    OBVIOUS
  <2> QED BY <2>1, NumberReads
<1>2. ASSUME NEW q \in Seq(Characters) PROVE Number(q) \in Int
  <2>1. Len(q) \in 0 .. Len(q)
    OBVIOUS
  <2> QED BY <2>1, NumberReads
<1>3. ASSUME NEW q \in Seq(Characters), NEW x \in Characters
      PROVE  Number(Append(q, x)) = Reads(Number(q), x)
  <2> DEFINE p == Append(q, x)
             L == Len(q)
  <2>1. /\ p \in Seq(Characters) /\ Len(p) = L + 1 /\ p[L + 1] = x /\ L \in Nat
        /\ \A m \in 1 .. L : p[m] = q[m]
    OBVIOUS
  <2> HIDE DEF p
  <2>2. PICK h : /\ h[0] = 0 /\ \A m \in 1 .. L : h[m] = Reads(h[m - 1], q[m])
                 /\ Number(q) = h[L]
    BY NumberReads
  <2>3. PICK g : /\ g[0] = 0 /\ \A m \in 1 .. L + 1 : g[m] = Reads(g[m - 1], p[m])
                 /\ Number(p) = g[L + 1]
    BY <2>1, NumberReads
  <2> HIDE DEF L
  <2> DEFINE S == {m \in Nat : m <= L => g[m] = h[m]}
  <2>4. 0 \in S
    BY <2>2, <2>3
  <2>5. ASSUME NEW m \in Nat, m \in S PROVE m + 1 \in S
    <3> SUFFICES ASSUME m + 1 <= L PROVE g[m + 1] = h[m + 1]
      OBVIOUS
    <3>1. m + 1 \in 1 .. L /\ m + 1 \in 1 .. L + 1 /\ (m + 1) - 1 = m /\ g[m] = h[m]
      BY <2>1, <2>5
    <3> QED BY <2>1, <2>2, <2>3, <3>1
  <2> HIDE DEF S
  <2>6. Nat \subseteq S
    BY <2>4, <2>5, Induction
  <2>7. g[L] = h[L] /\ L + 1 \in 1 .. L + 1 /\ (L + 1) - 1 = L
    BY <2>1, <2>6 DEF S
  <2>8. Number(p) = Reads(Number(q), x)
    BY <2>1, <2>2, <2>3, <2>7
  <2> QED BY <2>8 DEF p
<1> QED BY <1>1, <1>2, <1>3

(* The characters, read from the other end, are those of the number. *)
LEMMA NumberOfTemp == \A n, c \in Nat : Number(Reverse(temp[n][c])) = n
<1> DEFINE S == {n \in Nat : \A m, c \in Nat : m <= n => Number(Reverse(temp[m][c])) = m}
<1>1. 0 \in S
  <2> SUFFICES ASSUME NEW m \in Nat, NEW c \in Nat, m <= 0 PROVE Number(Reverse(temp[m][c])) = m
    OBVIOUS
  <2>0. m = 0
    OBVIOUS
  <2>1. temp[m][c] = <<>>
    BY <2>0, TempIs
  <2>2. Reverse(<<>>) = <<>>
    BY DEF Reverse
  <2> QED BY <2>0, <2>1, <2>2, NumberAppend
<1>2. ASSUME NEW n \in Nat, n \in S PROVE n + 1 \in S
  <2> SUFFICES ASSUME NEW m \in Nat, NEW c \in Nat, m <= n + 1 PROVE Number(Reverse(temp[m][c])) = m
    OBVIOUS
  <2>1. CASE m <= n
    BY <1>2, <2>1
  <2>2. CASE ~(m <= n)
    <3> DEFINE k == m \div 10
               r == temp[k][c + 1]
    <3>1. m # 0 /\ k \in Nat /\ k <= n /\ m = 10 * k + (m % 10) /\ c + 1 \in Nat
      BY <2>2
    <3>2. Number(Reverse(r)) = k
      BY <1>2, <3>1
    <3>3. PICK d \in Characters :
            /\ d # "," /\ Value(d) = m % 10 /\ r \in Seq(Characters)
            /\ temp[m][c] = IF c % 3 = 0 /\ c # 0 THEN <<",">> \o (<<d>> \o r) ELSE <<d>> \o r
      BY <3>1, TempUnfolds
    <3> HIDE DEF k, r
    <3> DEFINE s == <<d>> \o r
    <3>d. s = <<d>> \o r
      OBVIOUS
    <3> HIDE DEF s
    <3>4. s \in Seq(Characters) /\ Reverse(r) \in Seq(Characters) /\ Reverse(s) = Append(Reverse(r), d)
      <4>1. Prefix(Characters, d, r, s)
        BY <3>3, <3>d, Prefixed, Zenon
      <4> QED BY <4>1 DEF Prefix
    <3>5. Number(Reverse(s)) = m
      <4>1. Number(Reverse(s)) = 10 * k + Value(d)
        BY <3>2, <3>3, <3>4, NumberAppend DEF Reads
      <4> QED BY <3>1, <3>3, <4>1
    <3>6. CASE temp[m][c] = s
      BY <3>5, <3>6
    <3>7. CASE temp[m][c] = <<",">> \o s
      <4>1. "," \in Characters
        BY DEF Characters
      <4>2. Reverse(s) \in Seq(Characters) /\ Reverse(temp[m][c]) = Append(Reverse(s), ",")
        <5>1. Prefix(Characters, ",", s, temp[m][c])
          BY <3>4, <3>7, <4>1, Prefixed, Zenon
        <5> QED BY <5>1 DEF Prefix
      <4> QED BY <3>5, <4>1, <4>2, NumberAppend DEF Reads
    <3> QED BY <3>3, <3>6, <3>7 DEF s
  <2> QED BY <2>1, <2>2
<1> HIDE DEF S
<1>3. Nat \subseteq S
  BY <1>1, <1>2, Induction
<1> QED BY <1>3 DEF S

(* How many characters stand behind count digits.                          *)
Behind(count) == count + IF count = 0 THEN 0 ELSE (count - 1) \div 3

LEMMA CommaPlaces ==
  ASSUME NEW c \in Nat
  PROVE  /\ Behind(c) \in Nat
         /\ c % 3 = 0 /\ c # 0 => /\ (Behind(c) + 1) % 4 = 0 /\ (Behind(c) + 2) % 4 # 0
                                  /\ Behind(c + 1) = Behind(c) + 2
         /\ ~(c % 3 = 0 /\ c # 0) => /\ (Behind(c) + 1) % 4 # 0
                                     /\ Behind(c + 1) = Behind(c) + 1
<1>1. PICK k \in Nat : c = 3 * k \/ c = 3 * k + 1 \/ c = 3 * k + 2
  <2>1. c \div 3 \in Nat /\ (c = 3 * (c \div 3) \/ c = 3 * (c \div 3) + 1 \/ c = 3 * (c \div 3) + 2)
    OBVIOUS
  <2> QED BY <2>1
<1>2. CASE c = 0
  BY <1>2 DEF Behind
<1>3. CASE c = 3 * k /\ c # 0
  BY <1>3 DEF Behind
<1>4. CASE c = 3 * k + 1
  BY <1>4 DEF Behind
<1>5. CASE c = 3 * k + 2
  BY <1>5 DEF Behind
<1> QED BY <1>1, <1>2, <1>3, <1>4, <1>5

(* Every fourth character is a comma, and the last one is not.             *)
LEMMA CommasOfTemp ==
  \A n, c \in Nat :
    LET s == temp[n][c]
    IN  /\ \A j \in 1 .. Len(s) : s[j] = "," <=> (Behind(c) + j) % 4 = 0
        /\ n # 0 => Len(s) > 0
        /\ Len(s) > 0 => s[Len(s)] # ","
<1> DEFINE Good(s, c) == /\ \A j \in 1 .. Len(s) : s[j] = "," <=> (Behind(c) + j) % 4 = 0
                         /\ Len(s) > 0 => s[Len(s)] # ","
           S == {n \in Nat : \A m, c \in Nat : m <= n => Good(temp[m][c], c) /\ (m # 0 => Len(temp[m][c]) > 0)}
<1>1. 0 \in S
  <2> SUFFICES ASSUME NEW m \in Nat, NEW c \in Nat, m <= 0
               PROVE  Good(temp[m][c], c) /\ (m # 0 => Len(temp[m][c]) > 0)
    OBVIOUS
  <2>0. m = 0
    OBVIOUS
  <2>1. temp[m][c] = <<>> /\ Len(<<>>) = 0
    BY <2>0, TempIs
  <2> QED BY <2>0, <2>1
<1>2. ASSUME NEW n \in Nat, n \in S PROVE n + 1 \in S
  <2> SUFFICES ASSUME NEW m \in Nat, NEW c \in Nat, m <= n + 1
               PROVE  Good(temp[m][c], c) /\ (m # 0 => Len(temp[m][c]) > 0)
    <3> HIDE DEF Good
    <3> QED OBVIOUS
  <2>1. CASE m <= n
    BY <1>2, <2>1
  <2>2. CASE ~(m <= n)
    <3> DEFINE k == m \div 10
               r == temp[k][c + 1]
    <3>1. m # 0 /\ k \in Nat /\ k <= n /\ c + 1 \in Nat
      BY <2>2
    <3>2. Good(r, c + 1)
      BY <1>2, <3>1
    <3>3. PICK d \in Characters :
            /\ d # "," /\ r \in Seq(Characters)
            /\ temp[m][c] = IF c % 3 = 0 /\ c # 0 THEN <<",">> \o (<<d>> \o r) ELSE <<d>> \o r
      BY <3>1, TempUnfolds
    <3> HIDE DEF k, r
    <3> DEFINE s == <<d>> \o r
    <3>d. s = <<d>> \o r
      OBVIOUS
    <3> HIDE DEF s
    <3>4. /\ s \in Seq(Characters) /\ Len(s) = Len(r) + 1 /\ Len(r) \in Nat /\ s[1] = d
          /\ \A j \in 1 .. Len(r) : s[j + 1] = r[j]
      <4>1. Prefix(Characters, d, r, s)
        BY <3>3, <3>d, Prefixed, Zenon
      <4> QED BY <4>1 DEF Prefix
    <3>5. s[Len(s)] # ","
      <4>1. CASE Len(r) = 0
        <5>1. Len(s) = 1
          BY <3>4, <4>1
        <5>2. s[Len(s)] = d
          BY <3>4, <5>1
        <5> QED BY <3>3, <5>2
      <4>2. CASE Len(r) # 0
        <5>1. Len(r) \in 1 .. Len(r) /\ Len(r) > 0
          BY <3>4, <4>2
        <5>2. s[Len(s)] = s[Len(r) + 1]
          BY <3>4
        <5>3. s[Len(r) + 1] = r[Len(r)]
          BY <3>4, <5>1
        <5>4. r[Len(r)] # ","
          BY <3>2, <5>1
        <5> QED BY <5>2, <5>3, <5>4
      <4> QED BY <4>1, <4>2
    <3>6. CASE ~(c % 3 = 0 /\ c # 0)
      <4>1. temp[m][c] = s
        BY <3>3, <3>6 DEF s
      <4>2. /\ (Behind(c) + 1) % 4 # 0 /\ Behind(c + 1) = Behind(c) + 1 /\ Behind(c) \in Nat
        BY <3>6, CommaPlaces
      <4>3. ASSUME NEW j \in 1 .. Len(s) PROVE s[j] = "," <=> (Behind(c) + j) % 4 = 0
        <5>1. CASE j = 1
          BY <3>3, <3>4, <4>2, <5>1
        <5>2. CASE j # 1
          <6>1. j - 1 \in 1 .. Len(r) /\ (j - 1) + 1 = j /\ Behind(c + 1) + (j - 1) = Behind(c) + j
            BY <3>4, <4>2, <5>2
          <6>2. s[j] = r[j - 1]
            BY <3>4, <6>1
          <6>3. r[j - 1] = "," <=> (Behind(c + 1) + (j - 1)) % 4 = 0
            BY <3>2, <6>1
          <6> QED BY <6>1, <6>2, <6>3
        <5> QED BY <5>1, <5>2
      <4>4. Good(s, c)
        BY <3>5, <4>3
      <4>5. Len(s) > 0
        BY <3>4
      <4> HIDE DEF Good
      <4> QED BY <4>1, <4>4, <4>5
    <3>7. CASE c % 3 = 0 /\ c # 0
      <4> DEFINE t == <<",">> \o s
      <4>d. t = <<",">> \o s
        OBVIOUS
      <4>1. temp[m][c] = t
        BY <3>3, <3>7 DEF s
      <4>2. /\ (Behind(c) + 1) % 4 = 0 /\ (Behind(c) + 2) % 4 # 0
            /\ Behind(c + 1) = Behind(c) + 2 /\ Behind(c) \in Nat
        BY <3>7, CommaPlaces
      <4>3. /\ t \in Seq(Characters) /\ Len(t) = Len(s) + 1 /\ t[1] = ","
            /\ \A j \in 1 .. Len(s) : t[j + 1] = s[j]
        <5>1. "," \in Characters
          BY DEF Characters
        <5> HIDE DEF t
        <5>2. Prefix(Characters, ",", s, t)
          BY <3>4, <4>d, <5>1, Prefixed, Zenon
        <5> QED BY <5>2 DEF Prefix
      <4> HIDE DEF t
      <4>4. ASSUME NEW j \in 1 .. Len(t) PROVE t[j] = "," <=> (Behind(c) + j) % 4 = 0
        <5>1. CASE j = 1
          BY <4>2, <4>3, <5>1
        <5>2. CASE j = 2
          <6>1. 1 \in 1 .. Len(s) /\ t[2] = s[1]
            <7>1. 1 \in 1 .. Len(s) /\ 1 + 1 = 2
              BY <3>4
            <7> QED BY <4>3, <7>1
          <6> QED BY <3>3, <3>4, <4>2, <5>2, <6>1
        <5>3. CASE j # 1 /\ j # 2
          <6>1. /\ j - 1 \in 1 .. Len(s) /\ (j - 1) + 1 = j
                /\ j - 2 \in 1 .. Len(r) /\ (j - 2) + 1 = j - 1
                /\ Behind(c + 1) + (j - 2) = Behind(c) + j
            <7>1. Len(r) \in Nat /\ Len(s) = Len(r) + 1 /\ Len(t) = Len(s) + 1
              BY <3>4, <4>3
            <7>2. Behind(c) \in Nat /\ Behind(c + 1) = Behind(c) + 2
              BY <4>2
            <7>3. \A a, b \in Nat : \A e \in 1 .. (a + 1) + 1 : e # 1 /\ e # 2 =>
                    /\ e - 1 \in 1 .. a + 1 /\ (e - 1) + 1 = e
                    /\ e - 2 \in 1 .. a /\ (e - 2) + 1 = e - 1
                    /\ (b + 2) + (e - 2) = b + e
              OBVIOUS
            <7>4. j \in 1 .. (Len(r) + 1) + 1
              BY <7>1
            <7> QED BY <5>3, <7>1, <7>2, <7>3, <7>4
          <6>2. t[j] = s[j - 1] /\ s[j - 1] = r[j - 2]
            BY <3>4, <4>3, <6>1
          <6>3. r[j - 2] = "," <=> (Behind(c + 1) + (j - 2)) % 4 = 0
            BY <3>2, <6>1
          <6> QED BY <6>1, <6>2, <6>3
        <5> QED BY <5>1, <5>2, <5>3
      <4>5. t[Len(t)] # ","
        <5>1. Len(s) \in 1 .. Len(s)
          BY <3>4
        <5> QED BY <3>5, <4>3, <5>1
      <4>6. Good(t, c)
        BY <4>4, <4>5
      <4>7. Len(t) > 0
        <5>1. Len(r) \in Nat /\ Len(s) = Len(r) + 1
          BY <3>4
        <5>2. Len(t) = Len(s) + 1
          BY <4>3
        <5> QED BY <5>1, <5>2
      <4> HIDE DEF Good
      <4> QED BY <4>1, <4>6, <4>7
    <3> QED BY <3>6, <3>7
  <2> QED BY <2>1, <2>2
<1> HIDE DEF S
<1>3. Nat \subseteq S
  BY <1>1, <1>2, Induction
<1>4. ASSUME NEW n \in Nat, NEW c \in Nat PROVE Good(temp[n][c], c) /\ (n # 0 => Len(temp[n][c]) > 0)
  <2>1. n \in S /\ n <= n
    BY <1>3
  <2> HIDE DEF Good
  <2> QED BY <2>1 DEF S
<1> QED BY <1>4

(* A size is printed in groups of three and gives the number back. *)
LEMMA SizeTold ==
  ASSUME NEW n \in Nat
  PROVE  Grouped(format_number(n)) /\ Number(format_number(n)) = n
<1>1. CASE n = 0
  <2>1. format_number(n) = <<"0">>
    BY <1>1 DEF format_number
  <2>2. "0" \in Characters /\ "0" # "," /\ Value("0") = 0
    <3>1. Digit[10] = "0" /\ 10 \in 1 .. 10 /\ 10 % 10 = 0
      BY DEF Digit
    <3> QED BY <3>1, DigitValue DEF Characters
  <2>3. Number(<<"0">>) = 0
    <3> DEFINE e == <<>>
               z == <<"0">>
    <3>1. z = Append(e, "0") /\ e \in Seq(Characters) /\ Number(e) = 0
      BY NumberAppend
    <3> HIDE DEF e, z
    <3>2. Number(Append(e, "0")) = Reads(Number(e), "0")
      BY <2>2, <3>1, NumberAppend
    <3>3. Reads(0, "0") = 10 * 0 + 0
      BY <2>2 DEF Reads
    <3>4. Number(z) = 0
      BY <3>1, <3>2, <3>3
    <3> QED BY <3>4 DEF z
  <2>4. Grouped(<<"0">>)
    <3> DEFINE s == <<"0">>
    <3>1. Len(s) = 1 /\ DOMAIN s = {1} /\ s[1] = "0"
      OBVIOUS
    <3> HIDE DEF s
    <3>2. \A k \in DOMAIN s : s[k] # "," /\ (Len(s) - k) % 4 # 3
      <4> SUFFICES ASSUME NEW k \in DOMAIN s PROVE s[k] # "," /\ (Len(s) - k) % 4 # 3
        OBVIOUS
      <4>1. k = 1 /\ s[k] = "0"
        BY <3>1
      <4>2. Len(s) - k = 0
        BY <3>1, <4>1
      <4> QED BY <2>2, <4>1, <4>2
    <3>3. s[1] # ","
      BY <2>2, <3>1
    <3>4. Grouped(s)
      BY <3>2, <3>3 DEF Grouped
    <3> QED BY <3>4 DEF s
  <2> QED BY <1>1, <2>1, <2>3, <2>4
<1>2. CASE n # 0
  <2> DEFINE s == temp[n][0]
             t == Reverse(s)
  <2>1. format_number(n) = t /\ Number(t) = n
    BY <1>2, NumberOfTemp DEF format_number
  <2>2. /\ \A j \in 1 .. Len(s) : s[j] = "," <=> (Behind(0) + j) % 4 = 0
        /\ Len(s) > 0 /\ s[Len(s)] # ","
    BY <1>2, CommasOfTemp
  <2>3. Behind(0) = 0
    BY DEF Behind
  <2>4. s \in Seq(Characters)
    BY TempIs
  <2> HIDE DEF s
  <2>l. Len(s) \in Nat
    BY <2>4
  <2>5. Len(t) = Len(s) /\ DOMAIN t = 1 .. Len(s) /\ \A j \in 1 .. Len(s) : t[j] = s[Len(s) - j + 1]
    BY <2>4 DEF Reverse
  <2> HIDE DEF t
  <2>6. ASSUME NEW j \in 1 .. Len(s) PROVE t[j] = "," <=> (Len(t) - j) % 4 = 3
    <3>1. Len(s) - j + 1 \in 1 .. Len(s) /\ 0 + (Len(s) - j + 1) = Len(s) - j + 1
      BY <2>l
    <3>2. t[j] = "," <=> (Len(s) - j + 1) % 4 = 0
      <4> DEFINE m == Len(s) - j + 1
      <4>1. s[m] = "," <=> (0 + m) % 4 = 0
        <5> HIDE DEF m
        <5>1. m \in 1 .. Len(s)
          BY <3>1 DEF m
        <5> QED BY <2>2, <2>3, <5>1
      <4>2. t[j] = s[m]
        BY <2>5
      <4>3. 0 + m = m
        BY <3>1
      <4> HIDE DEF m
      <4>4. t[j] = "," <=> m % 4 = 0
        BY <4>1, <4>2, <4>3
      <4> QED BY <4>4 DEF m
    <3>3. (Len(s) - j + 1) % 4 = 0 <=> (Len(s) - j) % 4 = 3
      BY <2>l
    <3> QED BY <2>5, <3>2, <3>3
  <2>7. t[1] # ","
    <3>1. 1 \in 1 .. Len(s) /\ Len(s) - 1 + 1 = Len(s)
      <4>1. \A a \in Nat : a > 0 => 1 \in 1 .. a /\ a - 1 + 1 = a
        OBVIOUS
      <4>2. Len(s) > 0
        BY <2>2
      <4> QED BY <2>l, <4>1, <4>2
    <3>2. t[1] = s[Len(s)]
      BY <2>5, <3>1
    <3> QED BY <2>2, <3>2
  <2> QED BY <2>1, <2>5, <2>6, <2>7 DEF Grouped
<1> QED BY <1>1, <1>2

------------------------------------------------------------------------------
(* A time of a day is told on a clock of twelve hours. *)
LEMMA TimeTold ==
  ASSUME NEW t \in Nat, t < 24 * 2048
  PROVE  /\ time_to_string(t).hours \in 1 .. 12
         /\ Minute(time_to_string(t)) = 60 * (t \div 2048) + ((t % 2048) \div 32)
<1> DEFINE h == t \div 2048
           m == (t \div 32) % 64
           hour == IF h > 12 THEN h - 12 ELSE IF h = 0 THEN 12 ELSE h
           half == IF h >= 12 THEN "PM" ELSE "AM"
<1>1. h \in Nat /\ h < 24 /\ m \in Nat
  OBVIOUS
<1>2. m = (t % 2048) \div 32
  OBVIOUS
<1>3. time_to_string(t) = [hours |-> hour, minutes |-> m, am_pm |-> half]
  BY DEF time_to_string
<1> HIDE DEF h, m
<1>4. hour \in 1 .. 12
  BY <1>1
<1>5. 60 * ((hour % 12) + IF half = "PM" THEN 12 ELSE 0) + m = 60 * h + m
  <2>1. CASE h >= 12
    <3>1. half = "PM" /\ (hour % 12) + 12 = h
      BY <1>1, <2>1
    <3> HIDE DEF hour, half
    <3> QED BY <3>1
  <2>2. CASE ~(h >= 12)
    <3>1. half # "PM" /\ (hour % 12) + 0 = h
      BY <1>1, <2>2
    <3> HIDE DEF hour, half
    <3> QED BY <3>1
  <2> QED BY <2>1, <2>2
<1> HIDE DEF hour, half
<1>6. Minute(time_to_string(t)) = 60 * h + m
  BY <1>3, <1>5 DEF Minute
<1>7. time_to_string(t).hours = hour
  BY <1>3
<1> QED BY <1>2, <1>4, <1>6, <1>7 DEF h

(* Day, month and year take all the bits of a date. *)
LEMMA DateTold ==
  ASSUME NEW t \in Nat, t < 65536
  PROVE  LET date == date_to_string(t)
         IN  512 * (date.year - 1980) + 32 * date.month + date.day = t
<1> DEFINE y == (t \div 512) % 128
           m == (t \div 32) % 16
           d == t % 32
<1>1. y \in Nat /\ 512 * y + 32 * m + d = t
  OBVIOUS
<1>2. date_to_string(t) = [month |-> m, day |-> d, year |-> y + 1980]
  BY DEF date_to_string
<1> HIDE DEF y, m, d
<1>3. (y + 1980) - 1980 = y
  BY <1>1
<1> QED BY <1>1, <1>2, <1>3

(* A line tells what the entry has. *)
LEMMA LineTells ==
  ASSUME NEW entry, entry.kind = "file" => entry.size \in Nat,
         entry.ctime \in Nat, entry.ctime < 24 * 2048,
         entry.cdate \in Nat, entry.cdate < 65536
  PROVE  Tells(Line(entry), entry)
<1> DEFINE line == Line(entry)
<1>1. /\ line.name = normal_name(entry.name)
      /\ line.time = time_to_string(entry.ctime)
      /\ line.date = date_to_string(entry.cdate)
      /\ entry.kind = "file" => line.size = format_number(entry.size)
  BY DEF Line
<1> HIDE DEF line
<1>2. line.time.hours \in 1 .. 12
      /\ Minute(line.time) = 60 * (entry.ctime \div 2048) + ((entry.ctime % 2048) \div 32)
  BY <1>1, TimeTold
<1>3. 512 * (line.date.year - 1980) + 32 * line.date.month + line.date.day = entry.cdate
  BY <1>1, DateTold
<1>4. entry.kind = "file" => Grouped(line.size) /\ Number(line.size) = entry.size
  BY <1>1, SizeTold
<1>5. Tells(line, entry)
  BY <1>1, <1>2, <1>3, <1>4 DEF Tells
<1> QED BY <1>5 DEF line

------------------------------------------------------------------------------
(* The entries before one that are shown, and the lines there can be.      *)
Before(n) == {j \in 0 .. n - 1 : Shown(Entry(image, j))}

Lines == {Line(Entry(image, k)) : k \in Nat}

(* Every entry that dir has passed and shows has its line, in its place.   *)
LinesInv ==
  /\ pc # "dir" => lines = <<>>
  /\ pc = "dir" =>
       /\ lines \in Seq(Lines) /\ Len(lines) = Cardinality(Before(i))
       /\ \A k \in Before(i) : lines[Cardinality(Before(k + 1))] = Line(Entry(image, k))

(* Their number. *)
LEMMA BeforeFacts ==
  ASSUME NEW n \in Nat
  PROVE  /\ Cardinality(Before(n)) \in Nat /\ n \notin Before(n)
         /\ Shown(Entry(image, n)) =>
              /\ Before(n + 1) = Before(n) \cup {n}
              /\ Cardinality(Before(n + 1)) = Cardinality(Before(n)) + 1
         /\ ~Shown(Entry(image, n)) => Before(n + 1) = Before(n)
         /\ \A k \in Before(n) : /\ k \in Nat /\ k < n
                                 /\ Cardinality(Before(k + 1)) \in 1 .. Cardinality(Before(n))
<1>1. ASSUME NEW m \in Nat PROVE IsFiniteSet(Before(m)) /\ Cardinality(Before(m)) \in Nat
  <2>1. IsFiniteSet(0 .. m - 1)
    BY FS_Interval
  <2>2. Before(m) \subseteq 0 .. m - 1
    BY DEF Before
  <2> QED BY <2>1, <2>2, FS_Subset, FS_CardinalityType
<1>2. n \notin Before(n)
  BY DEF Before
<1>3. 0 .. (n + 1) - 1 = (0 .. n - 1) \cup {n}
  OBVIOUS
<1>4. ASSUME Shown(Entry(image, n))
      PROVE  Before(n + 1) = Before(n) \cup {n} /\ Cardinality(Before(n + 1)) = Cardinality(Before(n)) + 1
  <2>1. Before(n + 1) = Before(n) \cup {n}
    BY <1>3, <1>4 DEF Before
  <2> QED BY <1>1, <1>2, <2>1, FS_AddElement
<1>5. ~Shown(Entry(image, n)) => Before(n + 1) = Before(n)
  BY <1>3 DEF Before
<1>6. ASSUME NEW k \in Before(n)
      PROVE  k \in Nat /\ k < n /\ Cardinality(Before(k + 1)) \in 1 .. Cardinality(Before(n))
  <2>1. k \in Nat /\ k < n /\ k + 1 \in Nat /\ k \in Before(k + 1)
    BY <1>6 DEF Before
  <2>2. Before(k + 1) \subseteq Before(n)
    <3>1. 0 .. (k + 1) - 1 \subseteq 0 .. n - 1
      BY <2>1
    <3> QED BY <3>1 DEF Before
  <2>3. Cardinality(Before(k + 1)) <= Cardinality(Before(n))
    BY <1>1, <2>2, FS_Subset
  <2>4. Cardinality(Before(k + 1)) # 0
    BY <1>1, <2>1, FS_EmptySet
  <2>5. Cardinality(Before(k + 1)) \in Nat /\ Cardinality(Before(n)) \in Nat
    BY <1>1, <2>1
  <2> QED BY <2>1, <2>3, <2>4, <2>5
<1> QED BY <1>1, <1>2, <1>4, <1>5, <1>6

(* A step prints the line of the entry it is at, or none. *)
LEMMA LinesStep == IInv /\ LinesInv /\ [DirNext]_dirVars => LinesInv'
<1> SUFFICES ASSUME IInv, LinesInv, [DirNext]_dirVars PROVE LinesInv'
  OBVIOUS
<1>1. CASE UNCHANGED <<image, pc, i, lines>>
  BY <1>1 DEF LinesInv, Lines, Before
<1>2. CASE Start
  <2>1. CASE StartDir
    <3>1. pc # "dir" /\ pc' = "dir" /\ i' = 0 /\ lines' = <<>>
      BY <1>2, <2>1 DEF LinesInv, Start, StartDir, Go
    <3>2. Before(0)' = {}
      <4>1. 0 .. 0 - 1 = {}
        OBVIOUS
      <4> QED BY <4>1 DEF Before
    <3>3. Cardinality({}) = 0 /\ <<>> \in Seq(Lines)' /\ Len(<<>>) = 0
      BY FS_EmptySet
    <3> QED BY <3>1, <3>2, <3>3 DEF LinesInv
  <2>2. CASE StartCp
    <3>1. pc # "dir" /\ pc' # "dir" /\ lines' = <<>>
      BY <1>2, <2>2 DEF LinesInv, Start, StartCp, Go
    <3> QED BY <3>1 DEF LinesInv
  <2> QED BY <1>2, <2>1, <2>2 DEF Start
<1>3. CASE PrintEntry
  <2> DEFINE e == Entry(image, i)
  <2>1. /\ pc = "dir" /\ pc' = "dir" /\ i' = i + 1 /\ image' = image /\ i \in Nat
        /\ lines' = IF Shown(e) THEN Append(lines, Line(e)) ELSE lines
    BY <1>3 DEF PrintEntry, ListEntry, Advance, IInv, TypeOK, Index
  <2>2. /\ lines \in Seq(Lines) /\ Len(lines) = Cardinality(Before(i))
        /\ \A k \in Before(i) : lines[Cardinality(Before(k + 1))] = Line(Entry(image, k))
    BY <2>1 DEF LinesInv
  <2>3. Lines' = Lines /\ \A n : Before(n)' = Before(n)
    BY <2>1 DEF Lines, Before
  <2>4. CASE Shown(e)
    <3>1. Line(e) \in Lines
      BY <2>1 DEF Lines
    <3> DEFINE ls == Append(lines, Line(e))
               n == Cardinality(Before(i))
    <3>2. /\ ls \in Seq(Lines) /\ Len(ls) = n + 1 /\ ls[n + 1] = Line(e)
          /\ \A j \in 1 .. n : ls[j] = lines[j]
      BY <2>2, <3>1
    <3>3. lines' = ls
      BY <2>1, <2>4
    <3>4. Before(i + 1) = Before(i) \cup {i} /\ Cardinality(Before(i + 1)) = n + 1
      BY <2>1, <2>4, BeforeFacts
    <3>5. \A k \in Before(i) : Cardinality(Before(k + 1)) \in 1 .. n
      BY <2>1, BeforeFacts
    <3> HIDE DEF ls, n, e
    <3>6. ASSUME NEW k \in Before(i + 1) PROVE ls[Cardinality(Before(k + 1))] = Line(Entry(image, k))
      <4>1. CASE k = i
        BY <3>2, <3>4, <4>1 DEF e
      <4>2. CASE k # i
        <5>1. k \in Before(i)
          BY <3>4, <4>2
        <5>2. Cardinality(Before(k + 1)) \in 1 .. n
          BY <3>5, <5>1
        <5> QED BY <2>2, <3>2, <5>1, <5>2
      <4> QED BY <4>1, <4>2
    <3>7. lines' \in Seq(Lines)' /\ Len(lines') = Cardinality(Before(i)')
      BY <2>1, <2>3, <3>2, <3>3, <3>4
    <3>8. ASSUME NEW k \in Before(i)' PROVE lines'[Cardinality(Before(k + 1)')] = Line(Entry(image', k))
      BY <2>1, <2>3, <3>3, <3>6
    <3> QED BY <2>1, <3>7, <3>8 DEF LinesInv
  <2>5. CASE ~Shown(e)
    <3>1. lines' = lines /\ Before(i + 1) = Before(i)
      BY <2>1, <2>5, BeforeFacts
    <3>2. lines' \in Seq(Lines)' /\ Len(lines') = Cardinality(Before(i)')
      BY <2>1, <2>2, <2>3, <3>1
    <3>3. ASSUME NEW k \in Before(i)' PROVE lines'[Cardinality(Before(k + 1)')] = Line(Entry(image', k))
      BY <2>1, <2>2, <2>3, <3>1
    <3> QED BY <2>1, <3>2, <3>3 DEF LinesInv
  <2> QED BY <2>4, <2>5
<1>4. CASE DirEnds
  <2>1. pc' # "dir" /\ lines' = <<>>
    BY <1>4 DEF DirEnds, EndDir, Go
  <2> QED BY <2>1 DEF LinesInv
<1>5. CASE Copying
  <2>1. pc # "dir" /\ pc' # "dir" /\ lines' = lines
    BY <1>5 DEF Copying, SkipChecked, FileExists, FileMissing, SkipInfo, FoundInfo,
                CopyCluster, CopyLast, EndCopy, Go, Advance
  <2> QED BY <2>1 DEF LinesInv
<1> QED BY <1>1, <1>2, <1>3, <1>4, <1>5 DEF DirNext, DirRun, dirVars, vars

(* dir with its lines is dir. *)
LEMMA DirIsFAT12 == [DirNext]_dirVars => [Next]_vars
<1>1. DirNext => Next
  BY DEF DirNext, DirRun, Start, PrintEntry, DirEnds, Copying, Next, Run
<1>2. UNCHANGED dirVars => UNCHANGED vars
  BY DEF dirVars
<1> QED BY <1>1, <1>2

(* The invariant of every run of dir. *)
LEMMA DirInvariant == DirSpec => [](IInv /\ LinesInv)
<1>1. DirInit => IInv /\ LinesInv
  BY InitEstablishes DEF DirInit, LinesInv, Init
<1>2. IInv /\ LinesInv /\ [DirNext]_dirVars => IInv' /\ LinesInv'
  BY DirIsFAT12, InvariantStep, LinesStep
<1> QED BY <1>1, <1>2, PTL DEF DirSpec

(* The listing is true for every image: dir prints a line for every file   *)
(* and subdirectory before the end mark, in their order, and each line     *)
(* gives the entry's name, minute, date and size back.                     *)
THEOREM ListingCorrect == DirSpec => []ListingIsTrue
<1>1. IInv /\ LinesInv => ListingIsTrue
  <2> SUFFICES ASSUME IInv, LinesInv, pc = "dir", AtEnd(i) PROVE ListingIsTrue
    BY DEF ListingIsTrue
  <2> DEFINE before == {k \in 0 .. image.boot.dir_entries - 1 :
                          \A j \in 0 .. k : Entry(image, j).kind # "end"}
             shown == {k \in before : Shown(Entry(image, k))}
  <2>1. /\ image \in Images /\ i \in Nat /\ image.boot.dir_entries \in 1 .. 255
        /\ image.boot.dir_entries % 256 = image.boot.dir_entries
        /\ \A j \in Nat : j < i => ~AtEnd(j)
    BY BootFacts DEF IInv, Scanned, TypeOK, Index
  <2>2. shown = Before(i)
    <3>1. ASSUME NEW k \in shown PROVE k \in Before(i)
      <4>1. k \in Nat /\ k < image.boot.dir_entries /\ Shown(Entry(image, k))
            /\ \A j \in 0 .. k : Entry(image, j).kind # "end"
        <5>1. /\ k \in 0 .. image.boot.dir_entries - 1 /\ Shown(Entry(image, k))
              /\ \A j \in 0 .. k : Entry(image, j).kind # "end"
          OBVIOUS
        <5>2. k \in Nat /\ k < image.boot.dir_entries
          <6> DEFINE n == image.boot.dir_entries
          <6>1. n \in 1 .. 255 /\ k \in 0 .. n - 1
            BY <2>1, <5>1
          <6> HIDE DEF n
          <6>2. k \in Nat /\ k < n
            BY <6>1
          <6> QED BY <6>2 DEF n
        <5> QED BY <5>1, <5>2
      <4>2. k < i
        <5> SUFFICES ASSUME i <= k PROVE FALSE
          BY <2>1, <4>1
        <5>1. i \in 0 .. k
          BY <2>1, <4>1
        <5> DEFINE n == image.boot.dir_entries
        <5>2. n \in 1 .. 255 /\ k < n
          BY <2>1, <4>1
        <5> HIDE DEF n
        <5>3. ~(i >= n)
          BY <2>1, <4>1, <5>2
        <5> QED BY <2>1, <4>1, <5>1, <5>3 DEF AtEnd, n
      <4>3. k \in 0 .. i - 1
        BY <2>1, <4>1, <4>2
      <4> QED BY <4>1, <4>3 DEF Before
    <3>2. ASSUME NEW k \in Before(i) PROVE k \in shown
      <4>1. k \in Nat /\ k < i /\ Shown(Entry(image, k))
        BY <2>1 DEF Before
      <4>2. ASSUME NEW j \in 0 .. k PROVE Entry(image, j).kind # "end"
        <5>1. j \in Nat /\ j < i
          BY <2>1, <4>1
        <5> QED BY <2>1, <5>1 DEF AtEnd
      <4>3. k \in 0 .. image.boot.dir_entries - 1
        <5>1. ~(k >= image.boot.dir_entries)
          BY <2>1, <4>1 DEF AtEnd
        <5> QED BY <2>1, <4>1, <5>1
      <4> QED BY <4>1, <4>2, <4>3
    <3> QED BY <3>1, <3>2
  <2>3. ASSUME NEW k \in shown
        PROVE  Tells(lines[Cardinality({j \in shown : j <= k})], Entry(image, k))
    <3> DEFINE e == Entry(image, k)
    <3>1. /\ k \in Before(i) /\ k \in 0 .. image.boot.dir_entries - 1 /\ Shown(e)
          /\ \A j \in 0 .. k : Entry(image, j).kind # "end"
      BY <2>2
    <3> HIDE DEF shown, before
    <3>2. {j \in shown : j <= k} = Before(k + 1)
      <4>1. k \in Nat /\ k < i
        BY <2>1, <3>1, BeforeFacts
      <4>2. \A j : j \in 0 .. (k + 1) - 1 <=> j \in 0 .. i - 1 /\ j <= k
        BY <2>1, <4>1
      <4> QED BY <2>2, <4>2 DEF Before
    <3>3. lines[Cardinality(Before(k + 1))] = Line(e)
      BY <3>1 DEF LinesInv
    <3>4. e.ctime \in Nat /\ e.ctime < 24 * 2048 /\ e.cdate \in Nat /\ e.cdate < 65536
      <4> HIDE DEF e
      <4>1. e = Entry(image, k)
        BY DEF e
      <4> QED BY <2>1, <3>1, <4>1, TimesAssumption DEF Shown
    <3>5. e.kind = "file" => e.size \in Nat
      <4> SUFFICES ASSUME e.kind = "file" PROVE e.size \in Nat
        OBVIOUS
      <4>1. k \in Files(image)
        BY <3>1 DEF Files
      <4>2. WellFormed(image, e)
        BY <2>1, <4>1, BootFacts DEF FilesWellFormed
      <4> QED BY <4>2 DEF WellFormed
    <3> HIDE DEF e
    <3>6. Tells(Line(e), e)
      BY <3>4, <3>5, LineTells
    <3> QED BY <3>2, <3>3, <3>6 DEF e
  <2>4. Len(lines) = Cardinality(shown)
    <3> HIDE DEF shown
    <3> QED BY <2>2 DEF LinesInv
  <2> QED BY <2>3, <2>4 DEF ListingIsTrue
<1> QED BY <1>1, DirInvariant, PTL
=============================================================================
