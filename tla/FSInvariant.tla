----------------------------- MODULE FSInvariant -----------------------------
(***************************************************************************)
(* The inductive invariant of FSCalls, part by part, each part saying more *)
(* of the ones before it, and what the steps of a call do in the terms of  *)
(* that invariant.  FSProofs shows that the steps do that, that they keep  *)
(* the invariant, and what follows from it.                                *)
(***************************************************************************)
EXTENDS FSCalls

------------------------------------------------------------------------------
(* The invariant of the cache's counts: besides the counts, which registers *)
(* are null at which place of a call.  A call is at Where(p) also while    *)
(* ilock or iput, which return there, run.                                 *)

Putting == {"iput", "itrunc", "iput_free", "iput_invalid", "iput_drop"}
Inner == Putting \cup {"ilock"}
Where(p) == IF pc[p] \in Inner THEN ret[p] ELSE pc[p]

NamexSteps == {"namex_start", "namex", "namex_locked", "namex_step"}
UsesAt == {"namex", "namex_locked", "namex_step"}
UsesNext == {"namex_step", "dirlink_found", "create_found"}
UsesDp == {"create_parent", "create_found", "ialloc", "ialloc_get", "create_init",
           "unlink_parent", "unlink_locked", "dirlink", "dirlink_found", "linked",
           "dirlink_failed"}
BeforeIp == {"user", "return", "create_parent", "create_found", "ialloc",
             "ialloc_get", "unlink_parent", "rw_locked", "bmap", "bzero"}
Creates == {"create_parent", "create_found", "create_exists", "ialloc", "ialloc_get",
            "create_init"}

(* What a place says of the call that is made. *)
OpsFit(p) ==
  /\ ret[p] \notin Inner
  /\ Where(p) \in NamexSteps => op[p] \in {"open", "create", "unlink", "link"}
  /\ Where(p) \in Creates => op[p] = "create"
  /\ Where(p) = "open_locked" => op[p] \in {"open", "create"}
  /\ Where(p) = "link_locked" => op[p] = "link"

NullsFit(p) ==
  /\ pc[p] \notin Putting => At(p, "put") = 0
  /\ pc[p] \notin UsesNext => At(p, "next") = 0
  /\ Where(p) \notin UsesAt => At(p, "at") = 0
  /\ Where(p) \notin UsesDp => At(p, "dp") = 0
  /\ Where(p) \in BeforeIp => At(p, "ip") = 0
  /\ Where(p) \in NamexSteps /\ op[p] # "link" => At(p, "ip") = 0
  /\ op[p] \in {"open", "create"} /\ Where(p) \notin {"user", "return"}
       => At(p, "fd") = 0

Types ==
  /\ ref \in [Slots -> Nat] /\ DOMAIN inum = Slots
  /\ ptr \in [Pointers -> 0 .. NINODE]
  /\ DOMAIN pc = Procs /\ DOMAIN ret = Procs /\ DOMAIN op = Procs

RefInv ==
  /\ Types
  /\ \A p \in Procs : OpsFit(p) /\ NullsFit(p)
  /\ RefsAreCounted
  /\ OneEntryPerInode

------------------------------------------------------------------------------
(* What a step does to pointers and counts: nothing, a pointer is gained,  *)
(* moved or dropped.                                                       *)

Keeps == UNCHANGED <<ref, inum, ptr>>

Gains(p, r) ==
  /\ At(p, r) = 0
  /\ \E s \in Slots :
       /\ ptr' = [ptr EXCEPT ![<<p, r>>] = s]
       /\ ref' = [ref EXCEPT ![s] = ref[s] + 1]
       /\ \/ ref[s] > 0 /\ inum' = inum
          \/ \E i : Cached(i) = {} /\ ref[s] = 0 /\ inum' = [inum EXCEPT ![s] = i]

Moves(p, from, to) ==
  /\ from # to /\ At(p, to) = 0
  /\ ptr' = [ptr EXCEPT ![<<p, to>>] = ptr[<<p, from>>], ![<<p, from>>] = 0]
  /\ UNCHANGED <<ref, inum>>

(* from to put, and next to to. *)
Shifts(p, from, to) ==
  /\ from \in {"at", "dp"} /\ to \in {"at", "ip"}
  /\ At(p, "put") = 0 /\ (to # from => At(p, to) = 0)
  /\ LET g == [ptr EXCEPT ![<<p, "put">>] = ptr[<<p, from>>], ![<<p, from>>] = 0] IN
       ptr' = [g EXCEPT ![<<p, to>>] = g[<<p, "next">>], ![<<p, "next">>] = 0]
  /\ UNCHANGED <<ref, inum>>

Drops(p, r) ==
  LET s == At(p, r) IN
  /\ ptr' = [ptr EXCEPT ![<<p, r>>] = 0]
  /\ ref' = [ref EXCEPT ![s] = ref[s] - 1]
  /\ inum' = inum

Changes(p) ==
  \/ Keeps
  \/ \E r \in Regs : Gains(p, r) \/ Drops(p, r)
  \/ \E from, to \in Regs : Moves(p, from, to) \/ Shifts(p, from, to)

CountedTypes ==
  /\ ref \in [Slots -> Nat] /\ DOMAIN inum = Slots
  /\ ptr \in [Pointers -> 0 .. NINODE]
Counted == CountedTypes /\ RefsAreCounted /\ OneEntryPerInode

(* Nothing of another process is changed. *)
Framed(p) ==
  /\ \A q \in Procs \ {p} : pc'[q] = pc[q] /\ ret'[q] = ret[q] /\ op'[q] = op[q]
  /\ DOMAIN pc' = Procs /\ DOMAIN ret' = Procs /\ DOMAIN op' = Procs
Fits(p) == Changes(p) /\ Framed(p) /\ OpsFit(p)' /\ NullsFit(p)'

------------------------------------------------------------------------------
(* The steps of a call, process by process: where it goes, what becomes of *)
(* its pointers and of the locks.                                          *)

Go(p, l) == pc'[p] = l /\ ret'[p] = ret[p] /\ which'[p] = which[p]
GoILock(p, r, l) == pc'[p] = "ilock" /\ ret'[p] = l /\ which'[p] = r
GoIPut(p, l) == pc'[p] = "iput" /\ ret'[p] = l /\ which'[p] = which[p]

KeepsAllBut(p, D) == \A x \in Regs \ D : At(p, x)' = At(p, x)
Still(p) == KeepsAllBut(p, {}) /\ UNCHANGED <<ref, inum>>
Moved(p, from, to) ==
  /\ At(p, to)' = At(p, from) /\ At(p, from)' = 0
  /\ KeepsAllBut(p, {from, to}) /\ UNCHANGED <<ref, inum>>
Got(p, r, i) ==
  /\ KeepsAllBut(p, {r})
  /\ \/ panic' # "none" /\ Still(p) /\ UNCHANGED <<valid, lock, copy>>
     \/ /\ UNCHANGED <<lock, copy, panic>>
        /\ At(p, r)' \in Slots /\ inum'[At(p, r)'] = i
        /\ ref' = [ref EXCEPT ![At(p, r)'] = @ + 1]
        /\ \/ ref[At(p, r)'] > 0 /\ inum' = inum /\ valid' = valid
           \/ /\ ref[At(p, r)'] = 0 /\ Cached(i) = {}
              /\ inum' = [inum EXCEPT ![At(p, r)'] = i]
              /\ valid' = [valid EXCEPT ![At(p, r)'] = FALSE]

Found(p, r) ==
  /\ Lookup(name[p]) # {} /\ lock' = lock
  /\ Got(p, r, dirent[Least(Lookup(name[p]))].inum)
Doubled(p, r, from) ==
  /\ At(p, r)' = At(p, from) /\ KeepsAllBut(p, {r}) /\ UNCHANGED <<inum, panic>>
  /\ ref' = [ref EXCEPT ![At(p, from)] = @ + 1]
Shifted(p, from, to) ==
  /\ At(p, "put")' = At(p, from) /\ At(p, to)' = At(p, "next") /\ At(p, "next")' = 0
  /\ from # to => At(p, from)' = 0
  /\ KeepsAllBut(p, {"put", "next", from, to}) /\ UNCHANGED <<ref, inum>>
Dropped(p) ==
  /\ At(p, "put")' = 0 /\ KeepsAllBut(p, {"put"}) /\ inum' = inum
  /\ ref' = [ref EXCEPT ![At(p, "put")] = @ - 1]

Takes(p, r) == lock[At(p, r)] = {} /\ lock' = [lock EXCEPT ![At(p, r)] = {p}]
Gives(p, r) == lock' = Unlocked(p, At(p, r))
GivesPut(p, r, l) == Gives(p, r) /\ Moved(p, r, "put") /\ GoIPut(p, l)

(* Nothing but panic is changed. *)
Stops == UNCHANGED <<cache, disk, ptr, place, args, loop, orphans>> /\ panic' # "none"

InnerStep(p) ==
  \/ /\ pc[p] = "ilock" /\ Still(p) /\ Go(p, ret[p])
     /\ At(p, which[p]) # 0 /\ Takes(p, which[p])
  \/ /\ pc[p] = "iput" /\ Still(p)
     /\ \/ LastPut(At(p, "put")) /\ Takes(p, "put") /\ Go(p, "itrunc")
        \/ lock' = lock /\ Go(p, "iput_drop")
  \/ /\ pc[p] = "itrunc" /\ Still(p) /\ lock' = lock
     /\ Go(p, "itrunc") \/ Go(p, "iput_free")
  \/ pc[p] = "iput_free" /\ Still(p) /\ lock' = lock /\ Go(p, "iput_invalid")
  \/ pc[p] = "iput_invalid" /\ Still(p) /\ Gives(p, "put") /\ Go(p, "iput_drop")
  \/ pc[p] = "iput_drop" /\ Dropped(p) /\ lock' = lock /\ Go(p, ret[p])

FileStep(p) ==
  \/ /\ pc[p] = "bmap" /\ Still(p) /\ lock' = lock
     /\ Go(p, "bmap") \/ Go(p, "bzero")
  \/ pc[p] \in {"bzero", "rw_locked"} /\ Still(p) /\ lock' = lock /\ Go(p, "bmap")
  \/ pc[p] \in {"bmap", "rw_locked"} /\ Still(p) /\ Gives(p, "fd") /\ Go(p, "return")

PathStep(p) ==
  \/ /\ pc[p] = "namex_start" /\ lock' = lock /\ Go(p, "namex")
     /\ Got(p, "at", ROOTINO) \/ Doubled(p, "at", "cwd")
  \/ /\ pc[p] = "namex" /\ lock' = lock
     /\ \/ Still(p) /\ GoILock(p, "at", "namex_locked")
        \/ WantsParent(p) /\ Moved(p, "at", "put") /\ GoIPut(p, NoInode(p))
        \/ ~WantsParent(p) /\ Moved(p, "at", "ip") /\ GoILock(p, "ip", AfterNamex(p))
  \/ /\ pc[p] = "namex_locked"
     /\ \/ GivesPut(p, "at", NoInode(p))
        \/ /\ WantsParent(p) /\ copy[At(p, "at")].type = "dir"
           /\ Gives(p, "at") /\ Moved(p, "at", "dp") /\ GoILock(p, "dp", AfterNamex(p))
        \/ Found(p, "next") /\ Go(p, "namex_step")
  \/ /\ pc[p] = "namex_step" /\ Gives(p, "at")
     /\ Shifted(p, "at", "at") /\ GoIPut(p, "namex")

DirectoryStep(p) ==
  \/ /\ pc[p] = "create_parent"
     /\ \/ Found(p, "next") /\ Go(p, "create_found")
        \/ /\ Lookup(name[p]) = {}
           /\ Still(p) /\ lock' = lock /\ Go(p, "ialloc")
  \/ /\ pc[p] = "create_found" /\ Gives(p, "dp")
     /\ Shifted(p, "dp", "ip") /\ GoIPut(p, "create_exists")
  \/ /\ pc[p] = "ialloc" /\ Still(p) /\ lock' = lock
     /\ Go(p, "ialloc") \/ Go(p, "ialloc_get")
  \/ /\ pc[p] = "ialloc_get" /\ Got(p, "ip", off[p]) /\ lock' = lock
     /\ GoILock(p, "ip", "create_init")
  \/ pc[p] = "create_init" /\ Still(p) /\ lock' = lock /\ Go(p, "dirlink")
  \/ /\ pc[p] = "dirlink"
     /\ \/ Found(p, "next") /\ Go(p, "dirlink_found")
        \/ /\ Lookup(name[p]) = {}
           /\ Still(p) /\ lock' = lock /\ Go(p, "linked")
  \/ /\ pc[p] = "dirlink_found" /\ lock' = lock
     /\ Moved(p, "next", "put") /\ GoIPut(p, "dirlink_failed")
  \/ pc[p] = "dirlink_failed" /\ op[p] # "create" /\ GivesPut(p, "dp", "link_bad")
  \/ pc[p] = "linked" /\ op[p] = "create" /\ GivesPut(p, "dp", "open_locked")
  \/ pc[p] = "linked" /\ op[p] # "create" /\ GivesPut(p, "dp", "link_done")
  \/ /\ pc[p] = "unlink_parent"
     /\ \/ GivesPut(p, "dp", "return")
        \/ name[p] # "." /\ Found(p, "ip") /\ GoILock(p, "ip", "unlink_locked")
  \/ pc[p] = "unlink_locked" /\ GivesPut(p, "dp", "drop_link")

InodeStep(p) ==
  \/ /\ pc[p] = "open_locked"
     /\ \/ GivesPut(p, "ip", "return")
        \/ Gives(p, "ip") /\ Moved(p, "ip", "fd") /\ Go(p, "return")
  \/ /\ pc[p] = "create_exists" /\ Still(p) /\ lock' = lock
     /\ GoILock(p, "ip", "open_locked")
  \/ pc[p] = "drop_link" /\ GivesPut(p, "ip", "return")
  \/ /\ pc[p] = "link_locked"
     /\ \/ GivesPut(p, "ip", "return")
        \/ /\ copy[At(p, "ip")].type # "dir"
           /\ Still(p) /\ Gives(p, "ip") /\ Go(p, "namex_start")
  \/ /\ pc[p] = "link_bad" /\ Still(p) /\ lock' = lock
     /\ GoILock(p, "ip", "drop_link")
  \/ /\ pc[p] = "link_done" /\ lock' = lock
     /\ Moved(p, "ip", "put") /\ GoIPut(p, "return")

(* A call begins, or it has ended. *)
CallStep(p) ==
  /\ pc[p] = "user" /\ At(p, "cwd") # 0 /\ lock' = lock
  /\ \/ /\ op'[p] \in {"open", "create"} => At(p, "fd") = 0
        /\ op'[p] \in {"open", "create", "unlink", "link"}
        /\ Still(p) /\ Go(p, "namex_start")
     \/ /\ op'[p] \in {"read", "write"} /\ At(p, "fd") # 0
        /\ Still(p) /\ GoILock(p, "fd", "rw_locked")
     \/ /\ op'[p] = "close" /\ At(p, "fd") # 0
        /\ Moved(p, "fd", "put") /\ GoIPut(p, "return")
     \/ /\ op'[p] = "exit" /\ At(p, "fd") = 0
        /\ Moved(p, "cwd", "put") /\ GoIPut(p, "return")
ReturnStep(p) ==
  /\ pc[p] = "return" /\ Still(p) /\ lock' = lock
  /\ pc'[p] = "user" /\ ret'[p] = "user" /\ which'[p] = "cwd"

StepOf(p) ==
  \/ Stops
  \/ /\ op'[p] = op[p]
     /\ InnerStep(p) \/ FileStep(p) \/ PathStep(p) \/ DirectoryStep(p) \/ InodeStep(p)
  \/ CallStep(p)
  \/ ReturnStep(p)

(* Nothing of another process is changed. *)
Only(p) ==
  \A q \in Procs \ {p} :
    /\ pc'[q] = pc[q] /\ ret'[q] = ret[q] /\ which'[q] = which[q] /\ op'[q] = op[q]
    /\ \A x \in Regs : At(q, x)' = At(q, x)
PlaceDomains ==
  DOMAIN pc = Procs /\ DOMAIN ret = Procs /\ DOMAIN which = Procs /\ DOMAIN op = Procs
Domains ==
  PlaceDomains /\ ptr \in [Pointers -> 0 .. NINODE]
Steps(p) == Only(p) /\ PlaceDomains' /\ StepOf(p)

(* How the modules' own ways of going on fit these. *)
OnlyPlaces(p) ==
  /\ \A q \in Procs \ {p} :
       pc'[q] = pc[q] /\ ret'[q] = ret[q] /\ which'[q] = which[q] /\ op'[q] = op[q]
  /\ DOMAIN pc' = Procs /\ DOMAIN ret' = Procs /\ DOMAIN which' = Procs
  /\ DOMAIN op' = Procs
OnlyPointers(p) == \A q \in Procs \ {p}, x \in Regs : At(q, x)' = At(q, x)

------------------------------------------------------------------------------
(* Who holds which lock: a process has exactly the locks that its place    *)
(* says, each by one register.                                             *)

LocksIp == {"open_locked", "link_locked", "drop_link", "create_init", "unlink_locked"}
LinksIp == {"dirlink", "dirlink_found", "dirlink_failed", "linked"}
Copies == {"rw_locked", "bmap", "bzero"}
Frees == {"itrunc", "iput_free", "iput_invalid"}

(* What else a place says of the call. *)
PlacesFit(p) ==
  /\ Where(p) \in Copies => op[p] \in {"read", "write"}
  /\ Where(p) \in LinksIp => op[p] \in {"create", "link"}
  /\ Where(p) \in {"link_bad", "link_done"} => op[p] = "link"
  /\ Where(p) \in {"unlink_parent", "unlink_locked"} => op[p] = "unlink"
  /\ Where(p) = "drop_link" => op[p] \in {"unlink", "link"}
  /\ pc[p] \in Putting => ret[p] \in {"namex", "open_locked", "create_exists", "dirlink_failed",
                                    "drop_link", "link_bad", "link_done", "return"}

(* Which register ilock was given, by where it returns to. *)
WhichFits(p) == pc[p] = "ilock" =>
  \/ which[p] = "at" /\ ret[p] = "namex_locked"
  \/ which[p] = "dp" /\ ret[p] \in {"create_parent", "unlink_parent"}
  \/ which[p] = "dp" /\ ret[p] = "dirlink" /\ op[p] # "create"
  \/ which[p] = "ip" /\ ret[p] \in LocksIp
  \/ which[p] = "fd" /\ ret[p] = "rw_locked"

(* Once iget has not panicked, pointers that are used are not null. *)
NonNull(p) ==
  /\ Where(p) \notin {"user", "return"} => At(p, "cwd") # 0
  /\ Where(p) \in UsesAt => At(p, "at") # 0
  /\ pc[p] \in UsesNext => At(p, "next") # 0
  /\ Where(p) \in UsesDp => At(p, "dp") # 0
  /\ Where(p) \in LocksIp \cup LinksIp \cup {"create_exists", "link_bad", "link_done"}
       => At(p, "ip") # 0
  /\ pc[p] \in Putting => At(p, "put") # 0
  /\ Where(p) \in Copies => At(p, "fd") # 0

(* A call holds the lock of the inode its register r points to. *)
Holds(p, r) ==
  \/ r = "at" /\ pc[p] \in {"namex_locked", "namex_step"}
  \/ r = "dp" /\ Where(p) \in UsesDp /\ ~(pc[p] = "ilock" /\ which[p] = "dp")
  \/ r = "ip" /\ Where(p) \in LocksIp /\ pc[p] # "ilock"
  \/ r = "ip" /\ Where(p) \in LinksIp /\ op[p] = "create"
  \/ r = "fd" /\ pc[p] \in Copies
  \/ r = "put" /\ pc[p] \in Frees

HoldsFit(p) ==
  /\ \A s \in Slots : p \in lock[s] => \E r \in Regs : Holds(p, r) /\ At(p, r) = s
  /\ \A r \in Regs : Holds(p, r) => At(p, r) \in Slots /\ p \in lock[At(p, r)]
  /\ \A r, x \in Regs : Holds(p, r) /\ Holds(p, x) /\ At(p, r) = At(p, x) => r = x

OneHolder == \A s \in Slots : \A p, q \in lock[s] : p = q

LockInv ==
  /\ DOMAIN which = Procs /\ lock \in [Slots -> SUBSET Procs]
  /\ \A p \in Procs : PlacesFit(p) /\ WhichFits(p) /\ HoldsFit(p)
  /\ OneHolder
  /\ panic = "none" => \A p \in Procs : NonNull(p)

(* Locks are left alone, one is taken, or one is released. *)
LockKeeps(p) ==
  /\ lock' = lock
  /\ \A x \in Regs : /\ Holds(p, x)' <=> Holds(p, x)
                     /\ Holds(p, x) => At(p, x)' = At(p, x)
LockTakes(p, r) ==
  /\ At(p, r) \in Slots /\ lock[At(p, r)] = {}
  /\ lock' = [lock EXCEPT ![At(p, r)] = {p}]
  /\ \A x \in Regs : /\ Holds(p, x)' <=> Holds(p, x) \/ x = r
                     /\ Holds(p, x) \/ x = r => At(p, x)' = At(p, x)
LockGives(p, r) ==
  /\ Holds(p, r) /\ lock' = Unlocked(p, At(p, r))
  /\ \A x \in Regs : /\ Holds(p, x)' <=> Holds(p, x) /\ x # r
                     /\ Holds(p, x) /\ x # r => At(p, x)' = At(p, x)
LockStep(p) ==
  LockKeeps(p) \/ \E r \in Regs : LockTakes(p, r) \/ LockGives(p, r)

------------------------------------------------------------------------------
(* The types of the data, and what a step does to the inodes and to the    *)
(* directory.                                                              *)

(* The places of the directory are numbered from one. *)
Room == MAXFILE * DirentsPerBlock
Fields == [type : {Free, "file", "dir"}, nlink : Int, size : Nat,
           addrs : [0 .. NDIRECT -> 0 .. NBLOCK]]

DataTypes ==
  /\ inum \in [Slots -> Inodes] /\ valid \in [Slots -> BOOLEAN]
  /\ copy \in [Slots -> Fields] /\ dinode \in [Inodes -> Fields]
  /\ DOMAIN dirent = Entries /\ \A k \in Entries : dirent[k].inum \in 0 .. NINODES
  /\ content \in [Blocks -> [0 .. NINDIRECT - 1 -> 0 .. NBLOCK]]
  /\ off \in [Procs -> Nat] /\ end \in [Procs -> Nat] /\ blk \in [Procs -> 0 .. NBLOCK]
  /\ DOMAIN name = Procs
  /\ path \in [Procs -> Seq(Names \cup {"."})] /\ newpath \in [Procs -> Seq(Names \cup {"."})]

(* The directory and the inodes' types and link counts: left alone, block  *)
(* numbers of a copy apart; saved by iupdate; read by ilock.               *)
Kept == UNCHANGED <<copy, dinode, dirent>>
Patches(p, r) ==
  /\ UNCHANGED <<dinode, dirent>> /\ copy' \in [Slots -> Fields]
  /\ \A s \in Slots :
       /\ copy'[s].type = copy[s].type /\ copy'[s].nlink = copy[s].nlink
       /\ copy'[s].size = copy[s].size
       /\ s # At(p, r) => copy'[s] = copy[s]
SavedSize(p, r) ==
  IF pc[p] = "itrunc" THEN 0 ELSE IF pc[p] = "bmap" THEN off[p] ELSE copy[At(p, r)].size
Saves(p, r, type, nlink) ==
  /\ dirent' = dirent /\ At(p, r) \in Slots
  /\ \E d \in Fields : /\ d.type = type /\ d.nlink = nlink /\ d.size = SavedSize(p, r)
                       /\ d.addrs = copy[At(p, r)].addrs /\ IUpdate(At(p, r), d)
Reads(p) ==
  LET s == At(p, which[p]) IN
  /\ s \in Slots /\ UNCHANGED <<dinode, dirent>>
  /\ valid' = [valid EXCEPT ![s] = TRUE]
  /\ copy' = IF valid[s] THEN copy ELSE [copy EXCEPT ![s] = dinode[inum[s]]]
  /\ panic' = IF ~valid[s] /\ dinode[inum[s]].type = Free THEN "ilock: no type" ELSE panic
Allocates(p) ==
  /\ off[p] <= NINODES /\ dinode[off[p]].type = Free /\ off'[p] = off[p]
  /\ dinode' = [dinode EXCEPT ![off[p]] = ZeroInode("file")]
  /\ UNCHANGED <<copy, dirent>>

TypeAt(p, r) == copy[At(p, r)].type
NlinkAt(p, r) == copy[At(p, r)].nlink

DataStep(p) ==
  \/ /\ Kept
     /\ pc[p] \notin {"ilock", "itrunc", "iput_free", "bzero", "create_init", "unlink_locked",
                     "drop_link"}
     /\ pc[p] = "link_locked" => pc'[p] = "iput"
     /\ pc[p] = "ialloc" => pc'[p] = "ialloc" /\ off'[p] = off[p] + 1
     /\ pc[p] = "dirlink" => pc'[p] = "dirlink_found"
  \/ pc[p] = "ilock" /\ Reads(p)
  \/ pc[p] = "itrunc" /\ pc'[p] = "itrunc" /\ Patches(p, "put")
  \/ pc[p] = "bzero" /\ pc'[p] = "bmap" /\ Patches(p, "fd")
  \/ pc[p] = "itrunc" /\ pc'[p] = "iput_free" /\ Saves(p, "put", TypeAt(p, "put"), NlinkAt(p, "put"))
  \/ pc[p] = "bmap" /\ pc'[p] = "return" /\ Saves(p, "fd", TypeAt(p, "fd"), NlinkAt(p, "fd"))
  \/ pc[p] = "iput_free" /\ Saves(p, "put", Free, NlinkAt(p, "put"))
  \/ pc[p] = "create_init" /\ Saves(p, "ip", TypeAt(p, "ip"), 1)
  \/ pc[p] = "drop_link" /\ Saves(p, "ip", TypeAt(p, "ip"), NlinkAt(p, "ip") - 1)
  \/ /\ pc[p] = "link_locked" /\ pc'[p] = "namex_start" /\ TypeAt(p, "ip") # "dir"
     /\ Saves(p, "ip", TypeAt(p, "ip"), NlinkAt(p, "ip") + 1)
  \/ pc[p] = "ialloc" /\ pc'[p] = "ialloc_get" /\ Allocates(p)
  \/ /\ pc[p] = "dirlink" /\ pc'[p] = "linked" /\ Lookup(name[p]) = {}
     /\ \E k \in Entries :
          /\ dirent[k].inum = 0
          /\ dirent' = [dirent EXCEPT ![k] = [name |-> name[p], inum |-> inum[At(p, "ip")]]]
     /\ UNCHANGED <<copy, dinode>>
  \/ /\ pc[p] = "unlink_locked" /\ NlinkAt(p, "ip") >= 1
     /\ dirent' = [dirent EXCEPT ![Least(Lookup(name[p]))] = NoEntry]
     /\ UNCHANGED <<copy, dinode>>

(* Only an entry that iget takes, ilock and the end of iput change valid.  *)
ValidKept == valid' = valid \/ \E s \in Slots : ref[s] = 0 /\ valid' = [valid EXCEPT ![s] = FALSE]

DataFrame(p) ==
  /\ \A q \in Procs \ {p} : /\ name'[q] = name[q] /\ off'[q] = off[q]
                           /\ end'[q] = end[q] /\ blk'[q] = blk[q]
  /\ pc[p] \notin {"namex", "return"} => name'[p] = name[p]
  /\ pc[p] = "namex" /\ pc'[p] = "ilock" /\ which'[p] = "at" => name'[p] \in Names \cup {"."}
  /\ pc[p] = "create_parent" /\ pc'[p] = "ialloc" => off'[p] = 1
  /\ pc[p] \notin {"ilock", "iput_invalid"} => ValidKept
  /\ pc[p] = "iput_invalid" => valid' = [valid EXCEPT ![At(p, "put")] = FALSE]

------------------------------------------------------------------------------
(* The root is the one directory, and no call takes it for a file.         *)

FileIp == NamexSteps \cup LinksIp \cup {"create_init", "unlink_locked", "drop_link", "link_bad",
                                        "link_done"}
IsFile(p, r) == At(p, r) # 0 => inum[At(p, r)] # ROOTINO

FilesFit(p) ==
  /\ Where(p) \in UsesDp /\ At(p, "dp") # 0 => inum[At(p, "dp")] = ROOTINO
  /\ Where(p) \in FileIp => IsFile(p, "ip")
  /\ pc[p] \in Frees => IsFile(p, "put")
  /\ pc[p] \in {"ialloc", "ialloc_get"} => off[p] > 0
  /\ pc[p] = "ialloc_get" => off[p] \in Inodes \ {ROOTINO}

Used(s) == ref[s] > 0 /\ valid[s]
LockedIsValid == \A s \in Slots : lock[s] # {} => valid[s]
RootInode ==
  /\ dinode[ROOTINO].nlink = 1
  /\ \A i \in Inodes : dinode[i].type = "dir" <=> i = ROOTINO
RootCopies ==
  \A s \in Slots : Used(s) => /\ copy[s].type = "dir" <=> inum[s] = ROOTINO
                              /\ inum[s] = ROOTINO => copy[s].nlink = 1
RootNames == \A k \in Entries : dirent[k].inum = ROOTINO => dirent[k].name = "."

RootInv ==
  /\ DataTypes
  /\ LockedIsValid /\ RootInode /\ RootCopies /\ RootNames
  /\ \A p \in Procs : FilesFit(p)

(* A step of a process, as the lemmas above sum it up. *)
Does(p) ==
  /\ DataTypes /\ RefInv /\ LockInv /\ panic = "none"
  /\ Steps(p) /\ DataFrame(p)
  /\ Stops \/ DataStep(p)

(* The types of what calls keep, and of the blocks of block numbers. *)
LoopTypes ==
  /\ content \in [Blocks -> [0 .. NINDIRECT - 1 -> 0 .. NBLOCK]]
  /\ off \in [Procs -> Nat] /\ end \in [Procs -> Nat] /\ blk \in [Procs -> 0 .. NBLOCK]
  /\ DOMAIN name = Procs
  /\ path \in [Procs -> Seq(Names \cup {"."})] /\ newpath \in [Procs -> Seq(Names \cup {"."})]

(* What DirGrow does: the block b comes at the end of the directory, by    *)
(* way of the indirect block a when it is one of those that names.         *)
Grows(p, b, a) ==
  LET s == At(p, "dp")  c == copy[s]  n == c.size  i == c.addrs[NDIRECT] IN
  /\ b \in Unused /\ a # b /\ n < MAXFILE
  /\ IF n >= NDIRECT /\ i = 0 THEN a \in Unused ELSE a = i
  /\ used' = used \cup {b} \cup (IF n >= NDIRECT /\ i = 0 THEN {a} ELSE {})
  /\ content' = [x \in Blocks |->
       IF x = b THEN ZeroBlock
       ELSE IF n >= NDIRECT /\ x = a
       THEN [(IF n >= NDIRECT /\ i = 0 THEN ZeroBlock ELSE content[a]) EXCEPT ![n - NDIRECT] = b]
       ELSE content[x]]
  /\ \E d \in Fields :
       /\ d.type = c.type /\ d.nlink = c.nlink /\ d.size = n + 1
       /\ d.addrs = IF n >= NDIRECT THEN [c.addrs EXCEPT ![NDIRECT] = a]
                    ELSE [c.addrs EXCEPT ![n] = b]
       /\ IUpdate(s, d)
GrowStep(p) ==
  /\ At(p, "dp") \in Slots /\ pc[p] = "dirlink"
  /\ UNCHANGED <<inum, ref, valid, lock, dirent, ptr, place, args, loop, orphans>>
  /\ \/ /\ panic' \in {"dirlink", "balloc: out of blocks"}
        /\ UNCHANGED <<copy, dinode, used, content>>
     \/ panic' = panic /\ \E b \in Blocks : \E a \in 0 .. NBLOCK : Grows(p, b, a)

(* Where a call looks through dp, that is the root, which it has locked.   *)
Parents == {"create_parent", "unlink_parent", "dirlink"}

------------------------------------------------------------------------------
(* What the cache says of an inode and what the disk says: they agree      *)
(* whenever nobody is truncating, extending or freeing the inode.          *)

Mapped(d, k) == IF k < NDIRECT THEN d.addrs[k] # 0 ELSE d.addrs[NDIRECT] # 0
NoHoles(d) == \A k \in Nat : k < d.size => Mapped(d, k)

Clean(s) == copy[s] = dinode[inum[s]]
Truncates(s) == \E p \in Procs : pc[p] = "itrunc" /\ At(p, "put") = s
Invalidates(s) == \E p \in Procs : pc[p] = "iput_invalid" /\ At(p, "put") = s
Extends(s) == \E p \in Procs : /\ pc[p] \in {"bmap", "bzero"} /\ At(p, "fd") = s
                              /\ op[p] = "write" /\ end[p] > copy[s].size

CopyFits(s) ==
  /\ ~Invalidates(s) => /\ copy[s].type = dinode[inum[s]].type
                        /\ copy[s].nlink = dinode[inum[s]].nlink
                        /\ panic = "none" => copy[s].type # Free
  /\ Clean(s) \/ Truncates(s) \/ Extends(s) \/ Invalidates(s)
  /\ ~Truncates(s) => NoHoles(copy[s])

LoopFits(p) ==
  /\ pc[p] \in {"bmap", "bzero"} =>
       /\ \A k \in Nat : k < off[p] => Mapped(copy[File(p)], k)
       /\ op[p] # "write" => end[p] <= Size(p)
  /\ pc[p] = "bzero" => /\ blk[p] # 0 /\ off[p] < end[p]
                        /\ off[p] < NDIRECT => copy[File(p)].addrs[off[p]] = 0

CacheInv ==
  /\ \A s \in Slots : Used(s) => CopyFits(s)
  /\ \A i \in Inodes : NoHoles(dinode[i])
  /\ \A p \in Procs : LoopFits(p)

(* The steps of readi and writei, as they change the loop and the inode.   *)
LoopStep(p) ==
  LET s == File(p) k == off[p] IN
  \/ /\ pc[p] = "rw_locked" /\ pc'[p] \in {"bmap", "return"} /\ Kept
     /\ pc'[p] = "bmap" =>
          off'[p] = k /\ k <= Size(p) /\ (op[p] # "write" => end'[p] <= Size(p))
  \/ /\ pc[p] = "bmap" /\ pc'[p] = "bzero" /\ Kept /\ off'[p] = k /\ end'[p] = end[p]
     /\ k < end[p] /\ BMapped(p, k) = 0 /\ blk'[p] # 0
  \/ /\ pc[p] = "bmap" /\ pc'[p] = "bmap" /\ Kept /\ off'[p] = k + 1 /\ end'[p] = end[p]
     /\ BMapped(p, k) # 0
  \/ /\ pc[p] = "bmap" /\ pc'[p] = "return" /\ k = end[p]
     /\ IF op[p] = "write" /\ k > Size(p)
        THEN Saves(p, "fd", TypeAt(p, "fd"), NlinkAt(p, "fd")) ELSE Kept
  \/ /\ pc[p] = "bzero" /\ pc'[p] = "bmap" /\ off'[p] = k /\ end'[p] = end[p]
     /\ UNCHANGED <<dinode, dirent>>
     /\ \/ k < NDIRECT /\ copy' = [copy EXCEPT ![s].addrs[k] = blk[p]]
        \/ /\ k >= NDIRECT /\ Indirect(p) = 0
           /\ copy' = [copy EXCEPT ![s].addrs[NDIRECT] = blk[p]]
        \/ copy' = copy /\ k >= NDIRECT /\ Indirect(p) # 0

(* What is done of an inode, with the loops of readi and writei.           *)
CacheDoes(p) ==
  /\ RootInv /\ CacheInv /\ Does(p) /\ DataTypes' /\ ~Stops
  /\ pc[p] \in Copies => LoopStep(p)

------------------------------------------------------------------------------
(* Names and links: the link count of a file is the number of its names,   *)
(* and of the calls that have counted a name they have still to write, or  *)
(* to count down after they have cleared it.                               *)

Ino(p, r) == inum[At(p, r)]
Points(p, r, i) == At(p, r) # 0 /\ Ino(p, r) = i

(* iput has freed the inode, or lets it go: the pointer is used no more.   *)
Dies(p) == pc[p] \in {"iput_invalid", "iput_drop"}
Dying(p, r) == r = "put" /\ Dies(p)

(* Only a pointer that iput is about to drop is to an inode that is free.  *)
Live(p) == \A r \in Regs : At(p, r) # 0 /\ ~Dying(p, r) => dinode[Ino(p, r)].type # Free

Pends(p) ==
  \/ Where(p) \in {"drop_link", "link_bad", "dirlink", "dirlink_found", "dirlink_failed"}
  \/ Where(p) \in NamexSteps /\ At(p, "ip") # 0
NamesOf(i) == {k \in Entries : dirent[k].inum = i}
PendsOn(i) == {p \in Procs : Pends(p) /\ Ino(p, "ip") = i}
Links(i) == Cardinality(NamesOf(i)) + Cardinality(PendsOn(i))
LinksCounted == \A i \in Inodes \ {ROOTINO} : dinode[i].nlink = Links(i)

(* An inode that ialloc has found is nobody else's until it has a link.    *)
Makes(p) == pc[p] = "ialloc_get" \/ Where(p) = "create_init"
FreshIno(p) == IF pc[p] = "ialloc_get" THEN off[p] ELSE Ino(p, "ip")
OnlyOf(p, i) == \A q \in Procs, r \in Regs :
  Points(q, r, i) => (q = p /\ r = "ip") \/ Dying(q, r)
Fresh(p) == Makes(p) =>
  LET i == FreshIno(p) IN dinode[i].nlink = 0 /\ dinode[i].type = "file" /\ OnlyOf(p, i)

(* iput frees an inode nobody else points to.                              *)
Alone(p) == pc[p] \in {"itrunc", "iput_free"} =>
  ref[At(p, "put")] = 1 /\ dinode[Ino(p, "put")].nlink = 0

FreeIsZero == \A i \in Inodes : dinode[i].type = Free => dinode[i].nlink = 0

(* What a call has looked up stays so while it has the directory locked.   *)
LookupFits(p) ==
  /\ Where(p) \in {"ialloc", "ialloc_get", "create_init"} \/ (Where(p) = "dirlink" /\ op[p] = "create")
       => Lookup(name[p]) = {}
  /\ Where(p) = "unlink_locked" =>
       /\ name[p] # "." /\ Lookup(name[p]) # {}
       /\ dirent[Least(Lookup(name[p]))].inum = Ino(p, "ip")
NameFits(p) ==
  Where(p) \in UsesDp \cup {"namex_locked"} => name[p] \in Names \cup {"."}

DirFits ==
  /\ \A k, l \in Entries : dirent[k].inum # 0 /\ dirent[k].name = dirent[l].name => k = l
  /\ \A k \in Entries : IF dirent[k].inum = 0 THEN dirent[k] = NoEntry
                        ELSE dirent[k].name \in Names \cup {"."}

NamesInv ==
  /\ DirFits /\ FreeIsZero /\ LinksCounted
  /\ \A p \in Procs : /\ Live(p) /\ Fresh(p) /\ Alone(p)
                      /\ LookupFits(p) /\ NameFits(p)

------------------------------------------------------------------------------
(* What a step does to pointers, names and links.                          *)

(* A pointer is where it was, was moved from another register than put, or *)
(* is iget's.                                                              *)
Rearranged(p) ==
  /\ inum' = inum
  /\ \A x \in Regs : At(p, x)' # 0 =>
       \E y \in Regs : At(p, y) = At(p, x)' /\ (y = "put" => x = "put")
Gets(p, r, i) ==
  /\ KeepsAllBut(p, {r}) /\ r \in Regs \ {"put"}
  /\ At(p, r)' \in Slots /\ inum'[At(p, r)'] = i
GetsNamed(p) == \E r \in Regs :
  /\ Lookup(name[p]) # {} /\ Kept
  /\ Gets(p, r, dirent[Least(Lookup(name[p]))].inum)

(* Where a call counts a name before there is one, or after.               *)
Begins(p) == \/ pc[p] \in {"create_init", "unlink_locked"}
             \/ pc[p] = "link_locked" /\ pc'[p] = "namex_start"
Ends(p) == pc[p] = "drop_link" \/ (pc[p] = "dirlink" /\ pc'[p] = "linked")

(* Where iupdate saves another link count.                                 *)
Recounts(p) == \/ pc[p] \in {"create_init", "drop_link"}
               \/ pc[p] = "link_locked" /\ pc'[p] = "namex_start"
Recounted(p) == LET n == dinode[Ino(p, "ip")].nlink IN
  IF pc[p] = "create_init" THEN 1 ELSE IF pc[p] = "drop_link" THEN n - 1 ELSE n + 1

LinkStep(p, i) ==
  LET d == dinode[i] e == dinode'[i] IN
  \/ ~(Recounts(p) /\ i = Ino(p, "ip")) /\ e.type = d.type /\ e.nlink = d.nlink
  \/ /\ Recounts(p) /\ i = Ino(p, "ip") /\ At(p, "ip") # 0
     /\ e.type = d.type /\ d.type # Free /\ e.nlink = Recounted(p)
  \/ /\ pc[p] = "ialloc" /\ pc'[p] = "ialloc_get" /\ i = off[p] /\ off'[p] = off[p]
     /\ d.type = Free /\ e.type = "file" /\ e.nlink = 0
  \/ /\ pc[p] = "iput_free" /\ i = Ino(p, "put") /\ At(p, "put") # 0
     /\ e.type = Free /\ e.nlink = d.nlink

(* What becomes of the directory's entries.                                *)
DirStep(p) ==
  \/ dirent' = dirent /\ pc[p] # "unlink_locked" /\ ~(pc[p] = "dirlink" /\ pc'[p] = "linked")
  \/ /\ pc[p] = "dirlink" /\ pc'[p] = "linked" /\ Lookup(name[p]) = {}
     /\ \E k \in Entries : /\ dirent[k].inum = 0
                           /\ dirent' = [dirent EXCEPT ![k] = [name |-> name[p], inum |-> Ino(p, "ip")]]
  \/ /\ pc[p] = "unlink_locked"
     /\ dirent' = [dirent EXCEPT ![Least(Lookup(name[p]))] = NoEntry]

(* Where a pointer comes from.                                             *)
Stays == {"ilock", "iput_free", "ialloc", "ialloc_get"}
Came(p, q, r, i) ==
  \/ \E y \in Regs : /\ Points(q, y, i) /\ At(q, y) = At(q, r)'
                     /\ q # p \/ pc[p] \in Stays => y = r
                     /\ Dying(q, y) => Dying(q, r)'
  \/ q = p /\ r # "put" /\ i = ROOTINO /\ Kept
  \/ q = p /\ r # "put" /\ i \in Inodes /\ Kept /\ \E k \in Entries : dirent[k].inum = i
  \/ q = p /\ r = "ip" /\ pc[p] = "ialloc_get" /\ i = off[p] /\ Kept

(* What a step of a process keeps, the places where it goes being known.   *)
NamesDo(p) ==
  /\ NamesInv /\ CacheDoes(p)
  /\ panic' = "none" /\ RefInv' /\ LockInv' /\ RootInv'

(* A machine that has panicked was inside a call. *)
PanicInside == panic = "none" \/ \E p \in Procs : pc[p] # "user"

(* Names and links are right until the machine panics. *)
NamesHold == PanicInside /\ (panic = "none" => NamesInv)

------------------------------------------------------------------------------
(* Blocks: which block an inode has at which position, where the calls     *)
(* that truncate or extend it have got to.                                 *)

Positions == 0 .. MAXFILE
BlockAt(c, addrs, k) ==
  IF k < NDIRECT THEN addrs[k]
  ELSE IF k = MAXFILE \/ addrs[NDIRECT] = 0 THEN addrs[NDIRECT]
  ELSE c[addrs[NDIRECT]][k - NDIRECT]

(* The copy of an inode is the newer one while itrunc, or readi or writei, *)
(* works on it; itrunc has given up the positions below off.               *)
Changing == {"itrunc", "bmap", "bzero"}
Reg(p) == IF pc[p] = "itrunc" THEN "put" ELSE "fd"
Alters(p, i) == pc[p] \in Changing /\ Points(p, Reg(p), i)
Rec(i) == IF \E p \in Procs : Alters(p, i)
          THEN copy[At(CHOOSE p \in Procs : Alters(p, i), Reg(CHOOSE p \in Procs : Alters(p, i)))]
          ELSE dinode[i]
Cut(i, k) == \E p \in Procs : Alters(p, i) /\ pc[p] = "itrunc" /\ k < off[p]
Owned(i, k) == IF Cut(i, k) THEN 0 ELSE BlockAt(content, Rec(i).addrs, k)

(* A block that balloc has returned and bmap has still to store.           *)
New(p) == pc[p] = "bzero"

(* The file has the blocks of n units, or those up to the indirect block,  *)
(* which names none yet.                                                   *)
Exact(i, n) == \A k \in Positions :
  Owned(i, k) # 0 <=> IF k < MAXFILE THEN k < n ELSE n > NDIRECT
Half(i) == \A k \in Positions : Owned(i, k) # 0 <=> k < NDIRECT \/ k = MAXFILE

Distinct == \A i, j \in Inodes : \A k, l \in Positions :
  Owned(i, k) # 0 /\ Owned(i, k) = Owned(j, l) => i = j /\ k = l
UsedAre ==
  /\ used \subseteq Blocks
  /\ \A b \in Blocks : b \in used <=>
       \/ \E i \in Inodes : \E k \in Positions : Owned(i, k) = b
       \/ \E p \in Procs : New(p) /\ blk[p] = b
NewFits(p) == New(p) =>
  /\ blk[p] # 0
  /\ \A i \in Inodes : \A k \in Positions : Owned(i, k) # blk[p]
  /\ \A q \in Procs : New(q) /\ blk[q] = blk[p] => p = q

SizesFit == \A i \in Inodes : Rec(i).size <= MAXFILE /\ (dinode[i].type = Free => Rec(i).size = 0)
ShapeFits(i) == (\A p \in Procs : ~Alters(p, i)) => Exact(i, Rec(i).size)
Upto(p) == LET n == Rec(Ino(p, "fd")).size IN IF n > off[p] THEN n ELSE off[p]
WriteFits(p) ==
  /\ Where(p) = "rw_locked" => off[p] <= end[p]
  /\ pc[p] \in {"bmap", "bzero"} =>
       LET i == Ino(p, "fd") IN
       /\ off[p] <= end[p] /\ end[p] <= MAXFILE
       /\ \/ Exact(i, Upto(p))
          \/ /\ pc[p] = "bmap" /\ Rec(i).size <= off[p] /\ off[p] < end[p]
             /\ Exact(i, off[p] + 1)
          \/ Rec(i).size <= off[p] /\ off[p] < end[p] /\ off[p] = NDIRECT /\ Half(i)
       /\ pc[p] = "bzero" => Rec(i).size <= off[p] /\ off[p] < end[p] /\ Owned(i, off[p]) = 0
TruncFits(p) == pc[p] = "itrunc" =>
  LET addrs == Rec(Ino(p, "put")).addrs IN
  /\ off[p] <= MAXFILE + 1
  /\ \A k \in 0 .. NDIRECT - 1 : k < off[p] => addrs[k] = 0
  /\ off[p] = MAXFILE + 1 => addrs[NDIRECT] = 0
FreeFits(p) == pc[p] = "iput_free" => Rec(Ino(p, "put")).size = 0

BlocksInv ==
  /\ Distinct /\ UsedAre /\ SizesFit
  /\ \A i \in Inodes : ShapeFits(i)
  /\ \A p \in Procs : NewFits(p) /\ WriteFits(p) /\ TruncFits(p) /\ FreeFits(p)

(* What an inode's newest record is, and what of it is given up. *)
RecsFit == \A i :
  /\ \A p \in Procs : Alters(p, i) =>
       /\ Rec(i) = copy[At(p, Reg(p))]
       /\ \A k : Cut(i, k) <=> pc[p] = "itrunc" /\ k < off[p]
  /\ (\A p \in Procs : ~Alters(p, i)) => Rec(i) = dinode[i] /\ \A k : ~Cut(i, k)

------------------------------------------------------------------------------
(* What a step does to blocks, and to the loops over them.                 *)

Turn(p) ==
  LET s == At(p, "put")  k == off[p] IN
  /\ k <= MAXFILE /\ UNCHANGED <<content, blk, dinode>>
  /\ used' = used \ {BlockAt(content, copy[s].addrs, k)}
  /\ copy' = IF k < NDIRECT \/ k = MAXFILE
             THEN [copy EXCEPT ![s].addrs[IF k = MAXFILE THEN NDIRECT ELSE k] = 0] ELSE copy
  /\ off'[p] = k + 1

Stores(p) ==
  LET s == File(p)  k == off[p]  b == blk[p] IN
  /\ UNCHANGED <<dinode, used, off, end>>
  /\ \/ k < NDIRECT /\ copy' = [copy EXCEPT ![s].addrs[k] = b] /\ content' = Zeroed(b)
     \/ /\ k >= NDIRECT /\ Indirect(p) = 0
        /\ copy' = [copy EXCEPT ![s].addrs[NDIRECT] = b] /\ content' = Zeroed(b)
     \/ /\ k >= NDIRECT /\ Indirect(p) # 0 /\ copy' = copy
        /\ content' = [Zeroed(b) EXCEPT ![Indirect(p)][k - NDIRECT] = b]

AllocatesBlock(p) == \E b \in Unused : used' = used \cup {b} /\ blk'[p] = b

BlockStep(p) ==
  \/ /\ pc[p] \notin Changing /\ pc'[p] \notin Changing /\ UNCHANGED <<used, content, blk>>
     /\ Where(p)' = "rw_locked" =>
          (Where(p) = "rw_locked" /\ off'[p] = off[p] /\ end'[p] = end[p]) \/ off'[p] <= end'[p]
  \/ /\ pc[p] = "iput" /\ pc'[p] = "itrunc" /\ UNCHANGED <<used, content, blk, copy, dinode>>
     /\ off'[p] = 0 /\ lock[At(p, "put")] = {} /\ valid[At(p, "put")]
  \/ pc[p] = "itrunc" /\ pc'[p] = "itrunc" /\ Turn(p)
  \/ /\ pc[p] = "itrunc" /\ pc'[p] = "iput_free" /\ UNCHANGED <<used, content, blk>>
     /\ off[p] = MAXFILE + 1
  \/ /\ pc[p] = "rw_locked" /\ pc'[p] = "bmap" /\ UNCHANGED <<used, content, blk, copy, dinode>>
     /\ off'[p] = off[p] /\ off[p] <= Size(p)
     /\ (end'[p] = end[p] /\ end[p] <= MAXFILE) \/ end'[p] = Least({end[p], Size(p)})
  \/ /\ pc[p] = "bmap" /\ pc'[p] = "bzero" /\ UNCHANGED <<content, copy, dinode, off, end>>
     /\ off[p] < end[p] /\ BMapped(p, off[p]) = 0 /\ AllocatesBlock(p)
  \/ pc[p] = "bzero" /\ pc'[p] = "bmap" /\ Stores(p)
  \/ /\ pc[p] = "bmap" /\ pc'[p] = "bmap" /\ UNCHANGED <<used, content, blk, copy, dinode, end>>
     /\ off'[p] = off[p] + 1 /\ off[p] < end[p] /\ BMapped(p, off[p]) # 0
  \/ /\ pc[p] = "bmap" /\ pc'[p] = "return" /\ UNCHANGED <<used, content, blk>>
     /\ off[p] = end[p]

BlocksDo(p) ==
  /\ NamesDo(p) /\ BlocksInv /\ BlockStep(p)
  /\ RecsFit /\ RecsFit'

Same(i) == /\ Rec(i)'.addrs = Rec(i).addrs /\ Rec(i)'.size = Rec(i).size
           /\ \A k \in Positions : Cut(i, k)' <=> Cut(i, k)

(* A block more, in a place that was free.                                 *)
AllBut(i, k) == \A j \in Inodes : \A l \in Positions : (j # i \/ l # k) => Owned(j, l)' = Owned(j, l)
SameOwners == \A j \in Inodes : \A l \in Positions : Owned(j, l)' = Owned(j, l)
Place(p) == IF off[p] < NDIRECT \/ Indirect(p) # 0 THEN off[p] ELSE MAXFILE

(* Where blocks come from and go to. *)
OwnersStep(p) ==
  \/ SameOwners /\ used' = used /\ pc[p] # "bzero" /\ pc'[p] # "bzero"
  \/ SameOwners /\ pc[p] = "bmap" /\ pc'[p] = "bzero" /\ AllocatesBlock(p)
  \/ /\ pc[p] = "bzero" /\ pc'[p] = "bmap" /\ used' = used
     /\ \E i \in Inodes, k \in Positions : Owned(i, k) = 0 /\ Owned(i, k)' = blk[p] /\ AllBut(i, k)
  \/ /\ pc[p] = "itrunc" /\ pc'[p] = "itrunc"
     /\ \E i \in Inodes, k \in Positions :
          Owned(i, k)' = 0 /\ used' = used \ {Owned(i, k)} /\ AllBut(i, k)

(* Some inode is the one that a call alters. *)
Altering == \A q \in Procs : pc[q] \in Changing => \E i \in Inodes : Alters(q, i)

------------------------------------------------------------------------------
(* What holds until the machine panics, and why it panics.                 *)

(* Blocks are right until the machine panics. *)
BlocksHold == panic = "none" => BlocksInv

(* dirlink finds a name, and fails, only in a call that is not create.     *)
FailFits(p) == Where(p) \in {"dirlink_found", "dirlink_failed"} => op[p] # "create"

(* Where a process panics for another reason than space. *)
Asserts(p) ==
  \/ /\ pc[p] = "ilock"
     /\ LET s == At(p, which[p]) IN
          s = 0 \/ ref[s] < 1 \/ (~valid[s] /\ dinode[inum[s]].type = Free)
  \/ /\ pc[p] = "itrunc" /\ off[p] <= MAXFILE
     /\ FreedTwice(BlockAt(content, copy[At(p, "put")].addrs, off[p]))
  \/ pc[p] = "dirlink_failed" /\ op[p] = "create"
  \/ pc[p] = "unlink_locked" /\ copy[At(p, "ip")].nlink < 1
  \/ pc[p] = "bmap" /\ off[p] < end[p] /\ off[p] >= MAXFILE
  \/ pc[p] \in Parents /\ ~IsDir(p)

(* No assertion of FS.C has failed, and create has not failed in dirlink. *)
PanicsHold == OnlyOutOfSpace /\ (panic = "none" => \A p \in Procs : FailFits(p))

==============================================================================
