--------------------------------- MODULE FS ---------------------------------
(***************************************************************************)
(* check/FS.C: the inode layer of the xv6 file system.  Processes run      *)
(* system calls at the same time; a call looks a path up (namex), and      *)
(* creates, links, unlinks, reads, writes or closes a file of the one      *)
(* directory there is, the root.  Inodes are used through the inode cache: *)
(* iget and idup count pointers, ilock reads the disk's inode and locks    *)
(* it, iput drops a pointer and frees the inode when it was the last one   *)
(* and no name is left.  The calls themselves (sysfile.c of xv6), the log  *)
(* and the buffers are not in the repository: a call is modelled from what *)
(* FS.C asks of its callers, and every call is one transaction.            *)
(***************************************************************************)
EXTENDS Integers, Sequences, FiniteSets

CONSTANTS
  Procs, INITPROC,      \* processes; the first one, which never exits
  NINODE,               \* entries of the inode cache
  NINODES, ROOTINO,     \* sb.ninodes (the last inode) and the root's inode
  NBLOCK,               \* data blocks
  NDIRECT, NINDIRECT,   \* block numbers in an inode, and in its indirect block
  DirentsPerBlock,      \* BSIZE / sizeof(struct dirent)
  Names,                \* names of files; "." is the root's own entry
  Paths,                \* what processes look up, as sequences of elements
  Transfers             \* the offsets and lengths of reads and writes

Slots == 1 .. NINODE
Inodes == 1 .. NINODES
Blocks == 1 .. NBLOCK
MAXFILE == NDIRECT + NINDIRECT
Entries == 1 .. MAXFILE * DirentsPerBlock

ASSUME FSAssumption ==
  /\ IsFiniteSet(Procs) /\ INITPROC \in Procs
  /\ NINODE \in Nat \ {0} /\ NINODES \in Nat /\ ROOTINO \in Inodes
  /\ NBLOCK \in Nat \ {0} /\ NDIRECT \in Nat \ {0} /\ NINDIRECT \in Nat \ {0}
  /\ DirentsPerBlock \in Nat \ {0}
  /\ IsFiniteSet(Names) /\ "." \notin Names /\ "" \notin Names
  /\ \A target \in Paths : target \in Seq(Names \cup {"."})
  /\ Transfers \subseteq Nat \X Nat

(* Where a process keeps pointers to cache entries: its current directory  *)
(* and open file, and the locals at, next (ip, next of namex), ip, dp of   *)
(* a call; put is the one iput is dropping.                                *)
Regs == {"cwd", "fd", "at", "next", "ip", "dp", "put"}
Pointers == Procs \X Regs

Free == "free"
Dinodes == [type : {Free, "file", "dir"}, nlink : Nat, size : 0 .. MAXFILE,
            addrs : [0 .. NDIRECT -> 0 .. NBLOCK]]
ZeroInode(type) == [type |-> type, nlink |-> 0, size |-> 0,
                    addrs |-> [k \in 0 .. NDIRECT |-> 0]]
ZeroBlock == [j \in 0 .. NINDIRECT - 1 |-> 0]
NoEntry == [name |-> "", inum |-> 0]

VARIABLES
  inum, ref, valid, lock, copy,   \* icache.inode; copy has the disk's fields
  dinode, used, content, dirent,  \* the disk; dirent is the root's content
  ptr,                            \* the pointers processes hold
  pc, ret, which,                 \* a process' place, where ilock or iput
                                  \* returns to, the pointer ilock locks
  op, path, name, newpath,        \* the call and its arguments
  off, end, blk,                  \* its loops; the block balloc returned
  panic,
  orphans                         \* history: unnamed inodes open at a crash

cache == <<inum, ref, valid, lock, copy>>
disk == <<dinode, used, content, dirent>>
place == <<pc, ret, which>>
args == <<op, path, name, newpath>>
loop == <<off, end, blk>>
vars == <<cache, disk, ptr, place, args, loop, panic, orphans>>

Calls == {"open", "create", "unlink", "link", "read", "write", "close", "exit"}

At(p, r) == ptr[<<p, r>>]
Alive(p) == At(p, "cwd") # 0
Move(p, from, to) == [ptr EXCEPT ![<<p, to>>] = At(p, from), ![<<p, from>>] = 0]

Lookup(n) == {k \in DOMAIN dirent : dirent[k].inum # 0 /\ dirent[k].name = n}
Least(S) == CHOOSE x \in S : \A y \in S : x <= y

(* The root, cached for the first process (userinit).                      *)
BootCache ==
  /\ inum = [s \in Slots |-> ROOTINO]
  /\ ref = [s \in Slots |-> IF s = 1 THEN 1 ELSE 0]
  /\ valid = [s \in Slots |-> FALSE]
  /\ lock = [s \in Slots |-> {}]
  /\ copy = [s \in Slots |-> ZeroInode(Free)]
  /\ ptr = [x \in Pointers |-> IF x = <<INITPROC, "cwd">> THEN 1 ELSE 0]

(* The root as mkfs makes it, with the one block that its "." is in.       *)
RootDinode ==
  [ZeroInode("dir") EXCEPT !.nlink = 1, !.size = 1, !.addrs[0] = 1]

Init ==
  /\ BootCache
  /\ dinode = [i \in Inodes |-> IF i = ROOTINO THEN RootDinode ELSE ZeroInode(Free)]
  /\ used = {1}
  /\ content = [b \in Blocks |-> ZeroBlock]
  /\ dirent = [k \in Entries |-> IF k = 1 THEN [name |-> ".", inum |-> ROOTINO]
                                 ELSE NoEntry]
  /\ pc = [p \in Procs |-> "user"]
  /\ ret = [p \in Procs |-> "user"]
  /\ which = [p \in Procs |-> "cwd"]
  /\ op = [p \in Procs |-> "none"]
  /\ path = [p \in Procs |-> <<>>] /\ newpath = [p \in Procs |-> <<>>]
  /\ name = [p \in Procs |-> ""]
  /\ off = [p \in Procs |-> 0] /\ end = [p \in Procs |-> 0]
  /\ blk = [p \in Procs |-> 0]
  /\ panic = "none" /\ orphans = {}

Goto(p, l) == pc' = [pc EXCEPT ![p] = l]

(* Call ilock on the pointer in register r, or iput on the one in put,     *)
(* and go on at l.                                                         *)
CallILock(p, r, l) ==
  /\ Goto(p, "ilock")
  /\ ret' = [ret EXCEPT ![p] = l] /\ which' = [which EXCEPT ![p] = r]
CallIPut(p, l) ==
  /\ Goto(p, "iput")
  /\ ret' = [ret EXCEPT ![p] = l] /\ UNCHANGED which
Step(p, l) == Goto(p, l) /\ UNCHANGED <<ret, which>>

Panic(why) ==
  /\ panic' = why
  /\ UNCHANGED <<cache, disk, ptr, place, args, loop, orphans>>

------------------------------------------------------------------------------
(* The inode cache *)

(* Mutant: an entry that has not been read yet is not found. *)
Cached_Valid(i) == {s \in Slots : ref[s] > 0 /\ inum[s] = i /\ valid[s]}

Cached(i) == {s \in Slots : ref[s] > 0 /\ inum[s] = i}
Empty == {s \in Slots : ref[s] = 0}

(* r := iget(i); the cache's lock is held throughout.                      *)
IGet(p, r, i) ==
  \/ /\ Cached(i) # {}
     /\ LET s == Least(Cached(i)) IN
          /\ ref' = [ref EXCEPT ![s] = @ + 1]
          /\ ptr' = [ptr EXCEPT ![<<p, r>>] = s]
     /\ UNCHANGED <<inum, valid, lock, copy, panic>>
  \/ /\ Cached(i) = {} /\ Empty # {}
     /\ LET s == Least(Empty) IN
          /\ inum' = [inum EXCEPT ![s] = i]
          /\ ref' = [ref EXCEPT ![s] = 1]
          /\ valid' = [valid EXCEPT ![s] = FALSE]
          /\ ptr' = [ptr EXCEPT ![<<p, r>>] = s]
     /\ UNCHANGED <<lock, copy, panic>>
  \/ /\ Cached(i) = {} /\ Empty = {}
     /\ panic' = "iget: no inodes"
     /\ UNCHANGED <<cache, ptr>>

(* dirlookup finds name in the root, as the first entry that has it.       *)
DirLookup(p, r) == IGet(p, r, dirent[Least(Lookup(name[p]))].inum)

(* Mutant: the new pointer is not counted. *)
IDup_NotCounted(p, r, s) ==
  /\ ptr' = [ptr EXCEPT ![<<p, r>>] = s]
  /\ UNCHANGED cache

IDup(p, r, s) ==
  /\ ref' = [ref EXCEPT ![s] = @ + 1]
  /\ ptr' = [ptr EXCEPT ![<<p, r>>] = s]
  /\ UNCHANGED <<inum, valid, lock, copy>>

(* The sleep lock is taken; an inode that is not valid is read from the    *)
(* disk.                                                                   *)
ILock(p) ==
  LET s == At(p, which[p]) IN
  /\ pc[p] = "ilock"
  /\ IF s = 0 \/ ref[s] < 1 THEN Panic("ilock")
     ELSE /\ lock[s] = {}
          /\ lock' = [lock EXCEPT ![s] = {p}]
          /\ valid' = [valid EXCEPT ![s] = TRUE]
          /\ copy' = IF valid[s] THEN copy ELSE [copy EXCEPT ![s] = dinode[inum[s]]]
          /\ panic' = IF ~valid[s] /\ dinode[inum[s]].type = Free
                      THEN "ilock: no type" ELSE panic
          /\ Step(p, ret[p])
          /\ UNCHANGED <<inum, ref, disk, ptr, args, loop, orphans>>

(* iupdate: the cache is write-through.                                    *)
IUpdate(s, d) ==
  /\ copy' = [copy EXCEPT ![s] = d]
  /\ dinode' = [dinode EXCEPT ![inum[s]] = d]

Unlocked(p, s) == [lock EXCEPT ![s] = @ \ {p}]

(* iunlock: the caller has to hold the lock, of an entry in use.           *)
IUnlock(p, s) ==
  /\ lock' = Unlocked(p, s)
  /\ panic' = IF s # 0 /\ ref[s] >= 1 /\ p \in lock[s] THEN panic ELSE "iunlock"

(* iunlockput(r), going on at l: iput begins at its own step.              *)
IUnlockPut(p, r, l) ==
  /\ IUnlock(p, At(p, r))
  /\ ptr' = Move(p, r, "put")
  /\ CallIPut(p, l)
  /\ UNCHANGED <<inum, ref, valid, copy>>

(* Mutant: other pointers are not looked for. *)
LastPut_AnyRef(s) == valid[s] /\ copy[s].nlink = 0

LastPut(s) == valid[s] /\ copy[s].nlink = 0 /\ ref[s] = 1

(* The sleep lock is taken and the number of pointers is read, under the   *)
(* cache's lock; an inode that has other pointers or names is let go.      *)
IPut(p) ==
  LET s == At(p, "put") IN
  /\ pc[p] = "iput"
  /\ lock[s] = {}
  /\ \/ /\ LastPut(s)
        /\ lock' = [lock EXCEPT ![s] = {p}]
        /\ off' = [off EXCEPT ![p] = 0]
        /\ Step(p, "itrunc")
     \/ /\ ~LastPut(s)
        /\ Step(p, "iput_drop")
        /\ UNCHANGED <<lock, off>>
  /\ UNCHANGED <<inum, ref, valid, copy, disk, ptr, args, end, blk, panic, orphans>>

(* ip->type = 0; iupdate(ip) *)
IPutFree(p) ==
  LET s == At(p, "put") IN
  /\ pc[p] = "iput_free"
  /\ IUpdate(s, [copy[s] EXCEPT !.type = Free])
  /\ Step(p, "iput_invalid")
  /\ UNCHANGED <<inum, ref, valid, lock, used, content, dirent, ptr, args, loop,
                 panic, orphans>>

(* Mutant: ip->valid is left as it was. *)
Invalidated_Not(s) == valid

Invalidated(s) == [valid EXCEPT ![s] = FALSE]

(* ip->valid = 0, and the sleep lock is released.                          *)
IPutInvalid(p) ==
  LET s == At(p, "put") IN
  /\ pc[p] = "iput_invalid"
  /\ valid' = Invalidated(s)
  /\ lock' = Unlocked(p, s)
  /\ Step(p, "iput_drop")
  /\ UNCHANGED <<inum, ref, copy, disk, ptr, args, loop, panic, orphans>>

IPutDrop(p) ==
  LET s == At(p, "put") IN
  /\ pc[p] = "iput_drop"
  /\ ref' = [ref EXCEPT ![s] = @ - 1]
  /\ ptr' = [ptr EXCEPT ![<<p, "put">>] = 0]
  /\ Step(p, ret[p])
  /\ UNCHANGED <<inum, valid, lock, copy, disk, args, loop, panic, orphans>>

------------------------------------------------------------------------------
(* Blocks *)

Unused == Blocks \ used

(* balloc marks the first free block; bmap stores its number once it is    *)
(* zeroed (BZero).                                                         *)
BAlloc(p) ==
  IF Unused = {} THEN Panic("balloc: out of blocks")
  ELSE /\ used' = used \cup {Least(Unused)}
       /\ blk' = [blk EXCEPT ![p] = Least(Unused)]
       /\ Step(p, "bzero")
       /\ UNCHANGED <<cache, dinode, content, dirent, ptr, args, off, end, panic,
                      orphans>>

(* A block whose bit is clear already is not freed again (0 is no block).   *)
FreedTwice(b) == b # 0 /\ b \notin used
BFree(b) == used' = used \ {b}

(* The inode a read or a write works on *)
File(p) == At(p, "fd")
Indirect(p) == copy[File(p)].addrs[NDIRECT]
Size(p) == copy[File(p)].size

(* The block of unit k of the file, 0 where bmap has to allocate one.      *)
BMapped(p, k) ==
  IF k < NDIRECT THEN copy[File(p)].addrs[k]
  ELSE IF Indirect(p) = 0 THEN 0 ELSE content[Indirect(p)][k - NDIRECT]

(* bmap of a unit past the blocks that an inode can name is a panic.       *)
BMap(p) ==
  /\ pc[p] = "bmap" /\ off[p] < end[p]
  /\ IF off[p] >= MAXFILE THEN Panic("bmap: out of range")
     ELSE BMapped(p, off[p]) = 0 /\ BAlloc(p)

(* Mutant: the block keeps what the file before it left there. *)
Zeroed_Not(b) == content

Zeroed(b) == [content EXCEPT ![b] = ZeroBlock]

BZero(p) ==
  LET s == File(p)  k == off[p]  b == blk[p] IN
  /\ pc[p] = "bzero"
  /\ \/ /\ k < NDIRECT
        /\ copy' = [copy EXCEPT ![s].addrs[k] = b]
        /\ content' = Zeroed(b)
     \/ /\ k >= NDIRECT /\ Indirect(p) = 0
        /\ copy' = [copy EXCEPT ![s].addrs[NDIRECT] = b]
        /\ content' = Zeroed(b)
     \/ /\ k >= NDIRECT /\ Indirect(p) # 0
        /\ content' = [Zeroed(b) EXCEPT ![Indirect(p)][k - NDIRECT] = b]
        /\ UNCHANGED copy
  /\ blk' = [blk EXCEPT ![p] = 0]
  /\ Step(p, "bmap")
  /\ UNCHANGED <<inum, ref, valid, lock, dinode, used, dirent, ptr, args, off, end,
                 panic, orphans>>

(* One turn of the loop of readi or writei, its block known; the bytes of  *)
(* a file are left out.                                                    *)
CopyUnit(p) ==
  /\ pc[p] = "bmap" /\ off[p] < end[p] /\ off[p] < MAXFILE
  /\ BMapped(p, off[p]) # 0
  /\ off' = [off EXCEPT ![p] = @ + 1]
  /\ UNCHANGED <<cache, disk, ptr, place, args, end, blk, panic, orphans>>

(* The caller of readi or writei begins the loop up to unit e, or is        *)
(* refused (-1) and unlocks the file.                                      *)
Transfer(p, e) ==
  /\ end' = [end EXCEPT ![p] = e]
  /\ Step(p, "bmap")
  /\ UNCHANGED <<cache, disk, ptr, args, off, blk, panic, orphans>>
Refused(p) ==
  /\ IUnlock(p, File(p))
  /\ Step(p, "return")
  /\ UNCHANGED <<inum, ref, valid, copy, disk, ptr, args, loop, orphans>>

(* A read stops at the end of the file.                                    *)
ReadI(p) ==
  /\ pc[p] = "rw_locked" /\ op[p] = "read"
  /\ IF off[p] > Size(p) THEN Refused(p)
     ELSE Transfer(p, Least({end[p], Size(p)}))

(* A write begins inside the file or at its end, and does not go past the  *)
(* blocks an inode can name.                                               *)
WriteI(p) ==
  /\ pc[p] = "rw_locked" /\ op[p] = "write"
  /\ IF off[p] > Size(p) \/ end[p] > MAXFILE THEN Refused(p)
     ELSE Transfer(p, end[p])

(* The end of writei, which saves the inode only when the file has grown,  *)
(* or of readi; the caller unlocks the file.                               *)
ReadWriteEnd(p) ==
  /\ pc[p] = "bmap" /\ off[p] = end[p]
  /\ IF op[p] = "write" /\ off[p] > Size(p)
     THEN IUpdate(File(p), [copy[File(p)] EXCEPT !.size = off[p]])
     ELSE UNCHANGED <<copy, dinode>>
  /\ IUnlock(p, File(p))
  /\ Step(p, "return")
  /\ UNCHANGED <<inum, ref, valid, used, content, dirent, ptr, args, loop, orphans>>

(* One turn of itrunc's loops: the direct blocks, those the indirect block *)
(* names, and the indirect block itself; each is freed by bfree.           *)
ITrunc(p) ==
  LET s == At(p, "put")  k == off[p]  addrs == copy[s].addrs
      a == addrs[NDIRECT]
      b == IF k < NDIRECT THEN addrs[k]
           ELSE IF k = MAXFILE \/ a = 0 THEN a ELSE content[a][k - NDIRECT]
      index == IF k = MAXFILE THEN NDIRECT ELSE k IN
  /\ pc[p] = "itrunc" /\ k <= MAXFILE
  /\ IF FreedTwice(b) THEN Panic("freeing free block")
     ELSE /\ BFree(b)
          /\ copy' = IF k < NDIRECT \/ k = MAXFILE
                     THEN [copy EXCEPT ![s].addrs[index] = 0] ELSE copy
          /\ off' = [off EXCEPT ![p] = k + 1]
          /\ UNCHANGED <<inum, ref, valid, lock, dinode, content, dirent, ptr, place,
                         args, end, blk, panic, orphans>>

ITruncEnd(p) ==
  LET s == At(p, "put") IN
  /\ pc[p] = "itrunc" /\ off[p] = MAXFILE + 1
  /\ IUpdate(s, [copy[s] EXCEPT !.size = 0])
  /\ off' = [off EXCEPT ![p] = 0]
  /\ Step(p, "iput_free")
  /\ UNCHANGED <<inum, ref, valid, lock, used, content, dirent, ptr, args, end, blk,
                 panic, orphans>>

------------------------------------------------------------------------------
(* ialloc *)

(* One turn of ialloc's loop: an inode is allocated when the disk says so, *)
(* before there is a pointer to it.                                        *)
IAlloc(p) ==
  LET i == off[p] IN
  /\ pc[p] = "ialloc"
  /\ IF i > NINODES THEN Panic("ialloc: no inodes")
     ELSE /\ \/ /\ dinode[i].type = Free
                /\ dinode' = [dinode EXCEPT ![i] = ZeroInode("file")]
                /\ Step(p, "ialloc_get") /\ UNCHANGED off
             \/ /\ dinode[i].type # Free
                /\ off' = [off EXCEPT ![p] = i + 1]
                /\ UNCHANGED <<dinode, place>>
          /\ UNCHANGED <<cache, used, content, dirent, ptr, args, end, blk, panic,
                         orphans>>

IAllocGet(p) ==
  /\ pc[p] = "ialloc_get"
  /\ IGet(p, "ip", off[p])
  /\ CallILock(p, "ip", "create_init")
  /\ off' = [off EXCEPT ![p] = 0]
  /\ UNCHANGED <<disk, args, end, blk, orphans>>

------------------------------------------------------------------------------
(* Paths: namex, and what the calls do with the inode it returns *)

WantsParent(p) == op[p] \in {"create", "unlink"} \/ (op[p] = "link" /\ At(p, "ip") # 0)

(* namex returns 0: link, which already counts the new name, undoes that.  *)
NoInode(p) == IF op[p] = "link" /\ At(p, "ip") # 0 THEN "link_bad" ELSE "return"

(* Where a call goes on once it holds the lock of what namex returned      *)
AfterNamex(p) ==
  CASE op[p] = "create" -> "create_parent"
    [] op[p] = "unlink" -> "unlink_parent"
    [] op[p] = "link"   -> IF WantsParent(p) THEN "dirlink" ELSE "link_locked"
    [] OTHER            -> "open_locked"

(* A path begins at the root or at the current directory.                  *)
NamexStart(p) ==
  /\ pc[p] = "namex_start"
  /\ \/ IGet(p, "at", ROOTINO)
     \/ IDup(p, "at", At(p, "cwd")) /\ UNCHANGED panic
  /\ Step(p, "namex")
  /\ UNCHANGED <<disk, args, loop, orphans>>

(* skipelem: the next element is taken off the path and ip is locked; at   *)
(* the end of the path ip is the result, unless the parent was wanted.     *)
Namex(p) ==
  /\ pc[p] = "namex"
  /\ \/ /\ path[p] # <<>>
        /\ name' = [name EXCEPT ![p] = Head(path[p])]
        /\ path' = [path EXCEPT ![p] = Tail(@)]
        /\ CallILock(p, "at", "namex_locked")
        /\ UNCHANGED ptr
     \/ /\ path[p] = <<>> /\ WantsParent(p)
        /\ ptr' = Move(p, "at", "put")
        /\ CallIPut(p, NoInode(p))
        /\ UNCHANGED <<name, path>>
     \/ /\ path[p] = <<>> /\ ~WantsParent(p)
        /\ ptr' = Move(p, "at", "ip")
        /\ CallILock(p, "ip", AfterNamex(p))
        /\ UNCHANGED <<name, path>>
  /\ UNCHANGED <<cache, disk, op, newpath, loop, panic, orphans>>

(* Mutant: the next inode is locked before this one is given up. *)
GoToNext_LockFirst(p) == CallILock(p, "next", "namex_step")

GoToNext(p) == Step(p, "namex_step")

(* ip is locked: it has to be a directory; the parent is returned when     *)
(* this was the last element; the others are looked up by dirlookup.       *)
NamexLocked(p) ==
  LET s == At(p, "at")  dir == copy[s].type = "dir"
      last == WantsParent(p) /\ path[p] = <<>> IN
  /\ pc[p] = "namex_locked"
  /\ \/ /\ ~dir \/ (~last /\ Lookup(name[p]) = {})
        /\ IUnlockPut(p, "at", NoInode(p))
     \/ /\ dir /\ last
        /\ IUnlock(p, s)
        /\ ptr' = Move(p, "at", "dp")
        /\ CallILock(p, "dp", AfterNamex(p))
        /\ UNCHANGED <<inum, ref, valid, copy>>
     \/ /\ dir /\ ~last /\ Lookup(name[p]) # {}
        /\ DirLookup(p, "next")
        /\ GoToNext(p)
  /\ UNCHANGED <<disk, args, loop, orphans>>

(* iunlockput(ip); ip = next *)
NamexStep(p) ==
  LET s == At(p, "at") IN
  /\ pc[p] = "namex_step"
  /\ IUnlock(p, s)
  /\ ptr' = [ptr EXCEPT ![<<p, "put">>] = s, ![<<p, "at">>] = At(p, "next"),
                        ![<<p, "next">>] = 0]
  /\ CallIPut(p, "namex")
  /\ UNCHANGED <<inum, ref, valid, copy, disk, args, loop, orphans>>

------------------------------------------------------------------------------
(* The places for entries in the blocks of dp that are empty, and whether  *)
(* dirlookup can look dp through.                                          *)
Vacant(p) ==
  {k \in Entries : k <= copy[At(p, "dp")].size * DirentsPerBlock /\ dirent[k].inum = 0}
IsDir(p) == copy[At(p, "dp")].type = "dir"

(* dirlink, with dp locked: a name that is present is not added; the entry *)
(* takes the first empty place.                                            *)
DirLink(p) ==
  /\ pc[p] = "dirlink"
  /\ IF ~IsDir(p) THEN Panic("dirlookup not DIR")
     ELSE /\ \/ /\ Lookup(name[p]) # {}
                /\ DirLookup(p, "next")
                /\ Step(p, "dirlink_found")
                /\ UNCHANGED dirent
             \/ /\ Lookup(name[p]) = {} /\ Vacant(p) # {}
                /\ dirent' = [dirent EXCEPT ![Least(Vacant(p))] =
                                [name |-> name[p], inum |-> inum[At(p, "ip")]]]
                /\ Step(p, "linked")
                /\ UNCHANGED <<cache, ptr, panic>>
          /\ UNCHANGED <<dinode, used, content, args, loop, orphans>>

(* dirlink finds no empty place: the writei of the entry takes a block for *)
(* dp, and the indirect block when dp has none and it is needed, or fails. *)
(* dp is locked until the entry is in the block, and balloc's bitmap is    *)
(* all that others see of this meanwhile.                                  *)
DirGrow(p) ==
  LET s == At(p, "dp")  d == copy[s]  k == d.size
      inner == k >= NDIRECT  new == inner /\ d.addrs[NDIRECT] = 0
      a == IF new THEN Least(Unused) ELSE d.addrs[NDIRECT]
      b == Least(Unused \ {a}) IN
  /\ pc[p] = "dirlink" /\ IsDir(p) /\ Lookup(name[p]) = {} /\ Vacant(p) = {}
  /\ IF k >= MAXFILE THEN Panic("dirlink")
     ELSE IF Unused = {} \/ Unused \ {a} = {} THEN Panic("balloc: out of blocks")
     ELSE /\ used' = used \cup {b} \cup (IF new THEN {a} ELSE {})
          /\ content' = [x \in Blocks |->
               IF x = b THEN ZeroBlock
               ELSE IF inner /\ x = a
               THEN [(IF new THEN ZeroBlock ELSE content[a]) EXCEPT ![k - NDIRECT] = b]
               ELSE content[x]]
          /\ IUpdate(s, [d EXCEPT !.size = k + 1,
                 !.addrs = IF inner THEN [@ EXCEPT ![NDIRECT] = a] ELSE [@ EXCEPT ![k] = b]])
          /\ UNCHANGED <<inum, ref, valid, lock, dirent, ptr, place, args, loop, panic,
                         orphans>>

(* iput(ip); return -1 *)
DirLinkFound(p) ==
  /\ pc[p] = "dirlink_found"
  /\ ptr' = Move(p, "next", "put")
  /\ CallIPut(p, "dirlink_failed")
  /\ UNCHANGED <<cache, disk, args, loop, panic, orphans>>
=============================================================================
