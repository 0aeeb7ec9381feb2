------------------------------ MODULE FSCalls ------------------------------
(***************************************************************************)
(* The processes that use check/FS.C: the system calls of xv6's sysfile.c, *)
(* fork and exit, and the machine's crashes.  sysfile.c and the log are    *)
(* not in the repository; a call does what FS.C asks of its callers, and   *)
(* is one transaction.                                                     *)
(***************************************************************************)
EXTENDS FS

OpenLocked(p) ==
  LET s == At(p, "ip") IN
  /\ pc[p] = "open_locked"
  /\ \/ /\ copy[s].type = "dir"
        /\ IUnlockPut(p, "ip", "return")
     \/ /\ copy[s].type # "dir"
        /\ IUnlock(p, s)
        /\ ptr' = Move(p, "ip", "fd")
        /\ Step(p, "return")
        /\ UNCHANGED <<inum, ref, valid, copy>>
  /\ UNCHANGED <<disk, args, loop, orphans>>

(* create, the directory being locked: a name that exists is opened;       *)
(* otherwise ialloc looks for a free inode, from the first one.            *)
CreateParent(p) ==
  /\ pc[p] = "create_parent"
  /\ IF ~IsDir(p) THEN Panic("dirlookup not DIR")
     ELSE /\ \/ /\ Lookup(name[p]) # {}
                /\ DirLookup(p, "next")
                /\ Step(p, "create_found")
                /\ UNCHANGED off
             \/ /\ Lookup(name[p]) = {}
                /\ off' = [off EXCEPT ![p] = 1]
                /\ Step(p, "ialloc")
                /\ UNCHANGED <<cache, ptr, panic>>
          /\ UNCHANGED <<disk, args, end, blk, orphans>>

CreateFound(p) ==
  LET s == At(p, "dp") IN
  /\ pc[p] = "create_found"
  /\ IUnlock(p, s)
  /\ ptr' = [ptr EXCEPT ![<<p, "put">>] = s, ![<<p, "dp">>] = 0,
                        ![<<p, "ip">>] = At(p, "next"), ![<<p, "next">>] = 0]
  /\ CallIPut(p, "create_exists")
  /\ UNCHANGED <<inum, ref, valid, copy, disk, args, loop, orphans>>

CreateExists(p) ==
  /\ pc[p] = "create_exists"
  /\ CallILock(p, "ip", "open_locked")
  /\ UNCHANGED <<cache, disk, ptr, args, loop, panic, orphans>>

CreateInit(p) ==
  LET s == At(p, "ip") IN
  /\ pc[p] = "create_init"
  /\ IUpdate(s, [copy[s] EXCEPT !.nlink = 1])
  /\ Step(p, "dirlink")
  /\ UNCHANGED <<inum, ref, valid, lock, used, content, dirent, ptr, args, loop,
                 panic, orphans>>

DirLinkFailed(p) ==
  /\ pc[p] = "dirlink_failed"
  /\ IF op[p] = "create" THEN Panic("create: dirlink")
     ELSE /\ IUnlockPut(p, "dp", "link_bad")
          /\ UNCHANGED <<disk, args, loop, orphans>>

Linked(p) ==
  /\ pc[p] = "linked"
  /\ IUnlockPut(p, "dp", IF op[p] = "create" THEN "open_locked" ELSE "link_done")
  /\ UNCHANGED <<disk, args, loop, orphans>>

(* unlink: the directory being locked, the name is looked up and its inode *)
(* locked too; the entry is cleared, then the link count decremented.      *)
UnlinkParent(p) ==
  /\ pc[p] = "unlink_parent"
  /\ IF name[p] # "." /\ ~IsDir(p) THEN Panic("dirlookup not DIR")
     ELSE /\ \/ /\ name[p] = "." \/ Lookup(name[p]) = {}
                /\ IUnlockPut(p, "dp", "return")
             \/ /\ name[p] # "." /\ Lookup(name[p]) # {}
                /\ DirLookup(p, "ip")
                /\ CallILock(p, "ip", "unlink_locked")
          /\ UNCHANGED <<disk, args, loop, orphans>>

UnlinkLocked(p) ==
  /\ pc[p] = "unlink_locked"
  /\ IF copy[At(p, "ip")].nlink < 1 THEN Panic("unlink: nlink < 1")
     ELSE /\ dirent' = [dirent EXCEPT ![Least(Lookup(name[p]))] = NoEntry]
          /\ IUnlockPut(p, "dp", "drop_link")
          /\ UNCHANGED <<dinode, used, content, args, loop, orphans>>

(* nlink--; iupdate(ip); iunlockput(ip), of unlink and of a link that failed *)
DropLink(p) ==
  LET s == At(p, "ip") IN
  /\ pc[p] = "drop_link"
  /\ IUpdate(s, [copy[s] EXCEPT !.nlink = @ - 1])
  /\ IUnlock(p, s)
  /\ ptr' = Move(p, "ip", "put")
  /\ CallIPut(p, "return")
  /\ UNCHANGED <<inum, ref, valid, used, content, dirent, args, loop, orphans>>

(* link: the old name's inode is locked, its links counted up, and the     *)
(* parent of the new name is looked up with it unlocked.                   *)
LinkLocked(p) ==
  LET s == At(p, "ip") IN
  /\ pc[p] = "link_locked"
  /\ \/ /\ copy[s].type = "dir"
        /\ IUnlockPut(p, "ip", "return")
        /\ UNCHANGED <<dinode, path, newpath>>
     \/ /\ copy[s].type # "dir"
        /\ IUpdate(s, [copy[s] EXCEPT !.nlink = @ + 1])
        /\ IUnlock(p, s)
        /\ path' = [path EXCEPT ![p] = newpath[p]]
        /\ newpath' = [newpath EXCEPT ![p] = <<>>]
        /\ Step(p, "namex_start")
        /\ UNCHANGED <<inum, ref, valid, ptr>>
  /\ UNCHANGED <<used, content, dirent, op, name, loop, orphans>>

(* Mutant: the link count is not put back. *)
LinkBad_KeepsCount(p) ==
  /\ pc[p] = "link_bad"
  /\ ptr' = Move(p, "ip", "put")
  /\ CallIPut(p, "return")
  /\ UNCHANGED <<cache, disk, args, loop, panic, orphans>>

LinkBad(p) ==
  /\ pc[p] = "link_bad"
  /\ CallILock(p, "ip", "drop_link")
  /\ UNCHANGED <<cache, disk, ptr, args, loop, panic, orphans>>

LinkDone(p) ==
  /\ pc[p] = "link_done"
  /\ ptr' = Move(p, "ip", "put")
  /\ CallIPut(p, "return")
  /\ UNCHANGED <<cache, disk, args, loop, panic, orphans>>

------------------------------------------------------------------------------
(* Processes, and the machine *)

Idle(p) == pc[p] = "user"

(* A process makes a system call.                                          *)
Call(p) ==
  /\ Idle(p) /\ Alive(p)
  /\ \E c \in Calls :
       /\ op' = [op EXCEPT ![p] = c]
       /\ \/ /\ c \in {"open", "create", "unlink", "link"}
             /\ c \in {"open", "create"} => At(p, "fd") = 0
             /\ \E target, new \in Paths :
                  /\ c # "link" => new = target
                  /\ path' = [path EXCEPT ![p] = target]
                  /\ newpath' = [newpath EXCEPT ![p] = IF c = "link" THEN new ELSE <<>>]
             /\ Step(p, "namex_start")
             /\ UNCHANGED <<ptr, off, end>>
          \/ /\ c \in {"read", "write"} /\ At(p, "fd") # 0
             /\ \E t \in Transfers :
                  /\ off' = [off EXCEPT ![p] = t[1]]
                  /\ end' = [end EXCEPT ![p] = t[1] + t[2]]
             /\ CallILock(p, "fd", "rw_locked")
             /\ UNCHANGED <<ptr, path, newpath>>
          \/ /\ c = "close" /\ At(p, "fd") # 0
             /\ ptr' = Move(p, "fd", "put")
             /\ CallIPut(p, "return")
             /\ UNCHANGED <<path, newpath, off, end>>
          \/ /\ c = "exit" /\ p # INITPROC /\ At(p, "fd") = 0
             /\ ptr' = Move(p, "cwd", "put")
             /\ CallIPut(p, "return")
             /\ UNCHANGED <<path, newpath, off, end>>
  /\ UNCHANGED <<cache, disk, name, blk, panic, orphans>>

Return(p) ==
  /\ pc[p] = "return"
  /\ Goto(p, "user")
  /\ ret' = [ret EXCEPT ![p] = "user"] /\ which' = [which EXCEPT ![p] = "cwd"]
  /\ op' = [op EXCEPT ![p] = "none"]
  /\ path' = [path EXCEPT ![p] = <<>>]
  /\ newpath' = [newpath EXCEPT ![p] = <<>>]
  /\ name' = [name EXCEPT ![p] = ""]
  /\ off' = [off EXCEPT ![p] = 0] /\ end' = [end EXCEPT ![p] = 0]
  /\ UNCHANGED <<cache, disk, ptr, blk, panic, orphans>>

(* fork: np->cwd = idup(curproc->cwd) *)
Fork(p) ==
  /\ Idle(p) /\ Alive(p)
  /\ \E q \in Procs :
       /\ ~Alive(q) /\ Idle(q)
       /\ IDup(q, "cwd", At(p, "cwd"))
  /\ UNCHANGED <<disk, place, args, loop, panic, orphans>>

(* The machine stops and boots again.  The log makes what calls have done  *)
(* durable when no call is running; a crash at any time brings back the    *)
(* disk of such a moment.                                                  *)
Crash ==
  /\ \A p \in Procs : Idle(p)
  /\ inum' = [s \in Slots |-> ROOTINO]
  /\ ref' = [s \in Slots |-> IF s = 1 THEN 1 ELSE 0]
  /\ valid' = [s \in Slots |-> FALSE]
  /\ lock' = [s \in Slots |-> {}]
  /\ copy' = [s \in Slots |-> ZeroInode(Free)]
  /\ ptr' = [x \in Pointers |-> IF x = <<INITPROC, "cwd">> THEN 1 ELSE 0]
  /\ orphans' = {i \in Inodes : dinode[i].type # Free /\ dinode[i].nlink = 0}
  /\ UNCHANGED <<disk, place, args, loop, panic>>

Inside(p) ==
  \/ ILock(p)
  \/ IPut(p) \/ IPutFree(p) \/ IPutInvalid(p) \/ IPutDrop(p)
  \/ ITrunc(p) \/ ITruncEnd(p)
  \/ BMap(p) \/ BZero(p) \/ CopyUnit(p)
  \/ ReadI(p) \/ WriteI(p) \/ ReadWriteEnd(p)
  \/ NamexStart(p) \/ Namex(p) \/ NamexLocked(p) \/ NamexStep(p)
  \/ OpenLocked(p)
  \/ CreateParent(p) \/ CreateFound(p) \/ CreateExists(p)
  \/ IAlloc(p) \/ IAllocGet(p) \/ CreateInit(p)
  \/ DirLink(p) \/ DirLinkFound(p) \/ DirLinkFailed(p) \/ Linked(p)
  \/ UnlinkParent(p) \/ UnlinkLocked(p) \/ DropLink(p)
  \/ LinkLocked(p) \/ LinkBad(p) \/ LinkDone(p)
  \/ Return(p)

Halted == panic # "none" /\ UNCHANGED vars

Next ==
  \/ /\ panic = "none"
     /\ \/ \E p \in Procs : Inside(p) \/ DirGrow(p) \/ Call(p) \/ Fork(p)
        \/ Crash
  \/ Halted

Spec == Init /\ [][Next]_vars

------------------------------------------------------------------------------
(* Properties *)

TypeOK ==
  /\ inum \in [Slots -> Inodes] /\ ref \in [Slots -> Nat]
  /\ valid \in [Slots -> BOOLEAN] /\ lock \in [Slots -> SUBSET Procs]
  /\ copy \in [Slots -> Dinodes] /\ dinode \in [Inodes -> Dinodes]
  /\ used \subseteq Blocks /\ content \in [Blocks -> [0 .. NINDIRECT - 1 -> 0 .. NBLOCK]]
  /\ dirent \in [Entries -> [name : Names \cup {".", ""}, inum : 0 .. NINODES]]
  /\ ptr \in [Pointers -> 0 .. NINODE]

(* The ref of an entry of the inode cache is the number of pointers to it  *)
(* that processes hold, iput's included (FS.C:123: "Otherwise ip->ref      *)
(* tracks the number of in-memory pointers to the entry").                 *)
RefsAreCounted ==
  \A s \in Slots : ref[s] = Cardinality({x \in Pointers : ptr[x] = s})

(* Two entries in use never cache the same inode, so that a sleep lock     *)
(* does lock an inode.                                                     *)
OneEntryPerInode ==
  \A s, t \in Slots : ref[s] > 0 /\ ref[t] > 0 /\ inum[s] = inum[t] => s = t

(* Whoever locks an inode finds what the disk says, or will read it: also  *)
(* when the entry was that of a file that was freed, while ialloc gave its *)
(* inode to a new one.                                                     *)
CacheIsCurrent ==
  \A s \in Slots : ref[s] > 0 /\ valid[s] /\ lock[s] = {} => copy[s] = dinode[inum[s]]

(* The panics that are assertions are never reached; what is left is that  *)
(* the cache, the inodes, the blocks or the room in the directory are used *)
(* up.                                                                     *)
OnlyOutOfSpace ==
  panic \in {"none", "iget: no inodes", "ialloc: no inodes", "balloc: out of blocks",
             "dirlink"}

(* p waits for a lock that q holds: in ilock, or in iput.                  *)
WaitsFor(p, q) ==
  \/ pc[p] = "ilock" /\ At(p, which[p]) # 0 /\ q \in lock[At(p, which[p])]
  \/ pc[p] = "iput" /\ q \in lock[At(p, "put")]

(* Calls can wait for each other in a circle: a link holds the directory   *)
(* and drops, in dirlink, the inode that the new name has already, while   *)
(* an unlink of that inode holds it and drops the directory.  But of two   *)
(* that follow each other in a circle (whoever is in one holds a lock) one *)
(* is in iput: ilock alone never closes a circle, although a create or an  *)
(* unlink locks a file while it holds the directory ("The separation also  *)
(* helps avoid deadlock", FS.C:149).                                       *)
DeadlockNeedsPut ==
  \A p, q, r \in Procs :
    (\E s \in Slots : p \in lock[s]) /\ WaitsFor(p, q) /\ WaitsFor(q, r) =>
      "iput" \in {pc[p], pc[q]}

Quiet == \A p \in Procs : Idle(p)
Allocated == {i \in Inodes : dinode[i].type # Free}
BlocksOf(i) ==
  LET d == dinode[i] a == d.addrs[NDIRECT] IN
  ({d.addrs[k] : k \in 0 .. NDIRECT}
     \cup (IF a = 0 THEN {} ELSE {content[a][j] : j \in 0 .. NINDIRECT - 1})) \ {0}

(* When no call is running, which is when the log commits, every block in  *)
(* use belongs to one inode, and a file's size says which blocks it has.   *)
BlocksBelong ==
  Quiet =>
    /\ used = UNION {BlocksOf(i) : i \in Allocated}
    /\ \A i, j \in Allocated : i # j => BlocksOf(i) \cap BlocksOf(j) = {}
    /\ \A i \in Allocated :
         Cardinality(BlocksOf(i)) = dinode[i].size + (IF dinode[i].size > NDIRECT THEN 1 ELSE 0)

(* Then, too, the links of an inode are its names, no two names are the    *)
(* same, and each names an allocated inode.                                *)
NamesAreLinks ==
  Quiet =>
    /\ \A i \in Inodes \ {ROOTINO} :
         dinode[i].nlink = Cardinality({k \in Entries : dirent[k].inum = i})
    /\ \A k, l \in Entries : dirent[k].inum # 0 /\ dirent[k].name = dirent[l].name => k = l
    /\ \A k \in Entries : dirent[k].inum # 0 => dirent[k].inum \in Allocated

(* "If that was the last reference and the inode has no links to it, free  *)
(* the inode (and its content) on disk" (FS.C:327): an allocated inode     *)
(* without names is one that some process has open, or had open when the   *)
(* machine stopped.                                                        *)
LastPutFrees ==
  Quiet => \A i \in Allocated : dinode[i].nlink = 0 => Cached(i) # {} \/ i \in orphans
=============================================================================
