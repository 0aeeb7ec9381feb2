------------------------------ MODULE FSProofs ------------------------------
(***************************************************************************)
(* What is proved of FSCalls for any number of processes, inodes, cache    *)
(* entries and blocks: the cache's reference counts are exact, no inode is *)
(* cached twice, who holds which lock and that of two calls that wait for  *)
(* each other one is in iput, that a valid entry is what the disk says,    *)
(* that link counts are names, that every block in use is one file's, and  *)
(* that the machine panics only for want of space.                         *)
EXTENDS FSInvariant, FiniteSetTheorems, WellFoundedInduction, TLAPS

(* Counting pointers *)

Count(f, s) == Cardinality({x \in Pointers : f[x] = s})

(* What is used of the assumption about the constants. *)
LEMMA Constants == IsFiniteSet(Procs) /\ INITPROC \in Procs
                     /\ NINODE \in Nat /\ NINODE # 0
  BY FSAssumption, Zenon

(* A bounded set of numbers that is not empty has a least one; among the   *)
(* sets 0 .. k inclusion is well-founded.                                  *)
LEMMA LeastOf ==
  ASSUME NEW N \in Nat, NEW S, S \subseteq 0 .. N, S # {}
  PROVE  Least(S) \in S /\ \A y \in S : Least(S) <= y
<1> DEFINE D == 0 .. N
           T == {0 .. k : k \in S}
           R == StrictSubsetOrdering(D)
<1>1. IsWellFoundedOn(R, SUBSET D)
  <2>1. IsFiniteSet(D)
    BY FS_Interval
  <2> HIDE DEF D
  <2>2. FiniteSubsetsOf(D) = SUBSET D
    BY <2>1, FS_FiniteSubsetsOfFinite
  <2>3. QED
    BY <2>1, <2>2, FS_StrictSubsetOrderingWellFounded
<1>2. T \subseteq SUBSET D /\ T # {} /\ \A k \in S : k \in Nat
  <2>1. \A k \in S : k \in Nat /\ 0 .. k \subseteq 0 .. N
    OBVIOUS
  <2>2. \A k \in S : 0 .. k \in T
    OBVIOUS
  <2>3. QED
    BY <2>1, <2>2
<1>3. PICK t \in T : \A u \in T : ~(<<u, t>> \in R)
  BY <1>1, <1>2, WFMin
<1>4. PICK k \in S : t = 0 .. k
  BY <1>3
<1>5. ASSUME NEW j \in S, ~(k <= j) PROVE FALSE
  <2>1. /\ 0 .. j \in T /\ 0 .. j \subseteq 0 .. k
        /\ k \in 0 .. k /\ k \notin 0 .. j
    BY <1>2, <1>5
  <2>2. <<0 .. j, t>> \in R
    BY <1>2, <1>4, <2>1 DEF StrictSubsetOrdering
  <2>3. QED
    BY <1>3, <2>1, <2>2
<1>6. \E x \in S : \A y \in S : x <= y
  BY <1>5
<1>7. QED
  BY <1>6 DEF Least

(* The least of a set of entries of the cache is one of them. *)
LEMMA LeastIsIn ==
  ASSUME NEW S, S \subseteq Slots, S # {}
  PROVE  Least(S) \in S
<1>1. S \subseteq 0 .. NINODE
  BY Constants DEF Slots
<1> QED BY <1>1, Constants, LeastOf

(* Sets of pointers can be counted. *)
LEMMA PointersFinite ==
  \A S \in SUBSET Pointers : IsFiniteSet(S) /\ Cardinality(S) \in Nat
<1>1. IsFiniteSet(Regs)
  <2>1. IsFiniteSet({"cwd"})
    BY FS_Singleton
  <2>2. IsFiniteSet({"cwd"} \cup {"fd"})
    BY <2>1, FS_AddElement
  <2>3. IsFiniteSet({"cwd"} \cup {"fd"} \cup {"at"})
    BY <2>2, FS_AddElement
  <2>4. IsFiniteSet({"cwd"} \cup {"fd"} \cup {"at"} \cup {"next"})
    BY <2>3, FS_AddElement
  <2>5. IsFiniteSet({"cwd"} \cup {"fd"} \cup {"at"} \cup {"next"} \cup {"ip"})
    BY <2>4, FS_AddElement
  <2>6. IsFiniteSet({"cwd"} \cup {"fd"} \cup {"at"} \cup {"next"} \cup {"ip"}
                      \cup {"dp"})
    BY <2>5, FS_AddElement
  <2>7. IsFiniteSet({"cwd"} \cup {"fd"} \cup {"at"} \cup {"next"} \cup {"ip"}
                      \cup {"dp"} \cup {"put"})
    BY <2>6, FS_AddElement
  <2>8. Regs = {"cwd"} \cup {"fd"} \cup {"at"} \cup {"next"} \cup {"ip"}
                 \cup {"dp"} \cup {"put"}
    BY DEF Regs
  <2> QED BY <2>7, <2>8
<1>2. IsFiniteSet(Pointers)
  BY <1>1, FS_Product, Constants DEF Pointers
<1> QED
  BY <1>2, FS_Subset, FS_CardinalityType

(* f and g agree but for the pointers in D. *)
Agree(f, g, D) == \A y \in Pointers : y \notin D => g[y] = f[y]

(* A pointer that was null now points to s. *)
LEMMA CountGain ==
  ASSUME NEW f, NEW g, NEW x \in Pointers, NEW s \in Slots,
         f[x] = 0, g[x] = s, Agree(f, g, {x})
  PROVE  \A t \in Slots : Count(g, t) = IF t = s THEN Count(f, t) + 1 ELSE Count(f, t)
<1>1. 0 \notin Slots
  BY DEF Slots
<1> TAKE t \in Slots
<1>2. CASE t = s
  <2>1. {y \in Pointers : g[y] = t} = {y \in Pointers : f[y] = t} \cup {x}
    BY <1>2 DEF Agree
  <2>2. x \notin {y \in Pointers : f[y] = t}
    BY <1>1
  <2>3. IsFiniteSet({y \in Pointers : f[y] = t})
    BY PointersFinite
  <2> QED BY <1>2, <2>1, <2>2, <2>3, FS_AddElement DEF Count
<1>3. CASE t # s
  <2>1. {y \in Pointers : g[y] = t} = {y \in Pointers : f[y] = t}
    BY <1>1, <1>3 DEF Agree
  <2> QED BY <1>3, <2>1 DEF Count
<1> QED BY <1>2, <1>3

(* A pointer to s is now null. *)
LEMMA CountDrop ==
  ASSUME NEW f, NEW g, NEW x \in Pointers, NEW s \in Slots,
         f[x] = s, g[x] = 0, Agree(f, g, {x})
  PROVE  \A t \in Slots : Count(g, t) = IF t = s THEN Count(f, t) - 1 ELSE Count(f, t)
<1>1. \A t \in Slots : Count(f, t) = IF t = s THEN Count(g, t) + 1 ELSE Count(g, t)
  BY CountGain DEF Agree
<1>2. \A t \in Slots : Count(g, t) \in Nat
  BY PointersFinite DEF Count
<1> QED BY <1>1, <1>2

(* A pointer is moved from x to y, which was null. *)
LEMMA CountMove ==
  ASSUME NEW f \in [Pointers -> 0 .. NINODE], NEW h, NEW x \in Pointers,
         NEW y \in Pointers, x # y, f[y] = 0, h[y] = f[x], h[x] = 0,
         Agree(f, h, {x, y})
  PROVE  \A t \in Slots : Count(h, t) = Count(f, t)
<1> DEFINE g == [f EXCEPT ![y] = f[x]]
           s == f[x]
<1>1. Agree(f, g, {y}) /\ Agree(g, h, {x}) /\ g[y] = s /\ g[x] = s
  BY DEF Agree
<1>2. CASE s = 0
  <2>1. \A t \in Slots : {z \in Pointers : h[z] = t} = {z \in Pointers : f[z] = t}
    BY <1>2 DEF Agree
  <2> QED BY <2>1 DEF Count
<1>3. CASE s # 0
  <2>1. s \in Slots
    BY <1>3, Constants DEF Slots
  <2> HIDE DEF g, s
  <2>2. \A t \in Slots : Count(g, t) = IF t = s THEN Count(f, t) + 1 ELSE Count(f, t)
    BY <1>1, <2>1, CountGain
  <2>3. \A t \in Slots : Count(h, t) = IF t = s THEN Count(g, t) - 1 ELSE Count(g, t)
    BY <1>1, <2>1, CountDrop
  <2>4. \A t \in Slots : Count(f, t) \in Nat
    BY PointersFinite DEF Count
  <2> QED BY <2>2, <2>3, <2>4
<1> QED BY <1>2, <1>3

------------------------------------------------------------------------------
(* What a step does to pointers and counts: nothing, a pointer is gained,  *)
(* moved or dropped.                                                       *)

(* However a step changes them, the counts stay exact.                     *)
LEMMA ChangesKeepCounts ==
  ASSUME Counted, NEW p \in Procs, Changes(p)
  PROVE  Counted'
<1>1. CountedTypes /\ OneEntryPerInode /\ \A s \in Slots : ref[s] = Count(ptr, s)
  BY DEF Counted, RefsAreCounted, Count
<1>2. \A s \in Slots : Count(ptr, s) \in Nat /\ Count(ptr', s) \in Nat
  BY PointersFinite DEF Count
<1>3. /\ \A r \in Regs : <<p, r>> \in Pointers
      /\ Slots \subseteq 0 .. NINODE /\ 0 \in 0 .. NINODE /\ 0 \notin Slots
  BY Constants DEF Pointers, Slots
<1>4. SUFFICES /\ CountedTypes' /\ OneEntryPerInode'
               /\ \A s \in Slots : ref'[s] = Count(ptr', s)
  BY DEF Counted, RefsAreCounted, Count
<1>5. CASE Keeps
  BY <1>1, <1>5 DEF Keeps, CountedTypes, OneEntryPerInode
<1>6. CASE \E r \in Regs : Gains(p, r)
  <2>1. PICK r \in Regs, s \in Slots :
          /\ At(p, r) = 0
          /\ ptr' = [ptr EXCEPT ![<<p, r>>] = s]
          /\ ref' = [ref EXCEPT ![s] = ref[s] + 1]
          /\ \/ ref[s] > 0 /\ inum' = inum
             \/ \E i : Cached(i) = {} /\ ref[s] = 0 /\ inum' = [inum EXCEPT ![s] = i]
    BY <1>6 DEF Gains
  <2>2. CountedTypes'
    BY <1>1, <1>3, <2>1 DEF CountedTypes
  <2>3. \A t \in Slots : Count(ptr', t) = IF t = s THEN Count(ptr, t) + 1 ELSE Count(ptr, t)
    <3>1. /\ ptr[<<p, r>>] = 0 /\ ptr'[<<p, r>>] = s /\ <<p, r>> \in Pointers
          /\ Agree(ptr, ptr', {<<p, r>>})
      BY <1>1, <1>3, <2>1 DEF CountedTypes, At, Agree
    <3>2. QED
      BY <3>1, CountGain
  <2>4. \A t \in Slots : ref'[t] = Count(ptr', t)
    BY <1>1, <1>2, <2>1, <2>3 DEF CountedTypes
  <2>5. OneEntryPerInode'
    BY <1>1, <2>1 DEF CountedTypes, OneEntryPerInode, Cached
  <2> QED BY <2>2, <2>4, <2>5
<1>7. CASE \E r \in Regs : Drops(p, r)
  <2>1. PICK r \in Regs : Drops(p, r)
    BY <1>7
  <2> DEFINE s == ptr[<<p, r>>]
  <2>2. /\ ptr' = [ptr EXCEPT ![<<p, r>>] = 0] /\ inum' = inum
        /\ ref' = [ref EXCEPT ![s] = ref[s] - 1] /\ s \in 0 .. NINODE
    BY <1>1, <1>3, <2>1 DEF Drops, At, CountedTypes
  <2>3. CASE s = 0
    <3>1. ptr' = ptr /\ ref' = ref
      BY <1>1, <1>3, <2>2, <2>3 DEF CountedTypes
    <3> QED BY <1>1, <2>2, <3>1 DEF CountedTypes, OneEntryPerInode
  <2>4. CASE s # 0
    <3>1. /\ s \in Slots /\ <<p, r>> \in Pointers
          /\ ptr[<<p, r>>] = s /\ ptr'[<<p, r>>] = 0 /\ Agree(ptr, ptr', {<<p, r>>})
      BY <1>1, <1>3, <2>2, <2>4, Constants DEF Slots, CountedTypes, Agree
    <3>2. \A t \in Slots : Count(ptr', t) = IF t = s THEN Count(ptr, t) - 1 ELSE Count(ptr, t)
      BY <3>1, CountDrop
    <3> HIDE DEF s
    <3>3. \A t \in Slots : ref'[t] = Count(ptr', t)
      BY <1>1, <1>2, <2>2, <3>1, <3>2 DEF CountedTypes
    <3>4. CountedTypes'
      <4>1. ref[s] - 1 \in Nat
        BY <1>1, <1>2, <2>2, <3>1, <3>3 DEF CountedTypes
      <4> QED BY <1>1, <1>3, <2>2, <3>1, <4>1 DEF CountedTypes
    <3>5. OneEntryPerInode'
      BY <1>1, <2>2, <3>1 DEF CountedTypes, OneEntryPerInode
    <3> QED BY <3>3, <3>4, <3>5
  <2> QED BY <2>3, <2>4
<1>8. ASSUME NEW from \in Regs, NEW to \in Regs, Moves(p, from, to)
      PROVE  /\ CountedTypes' /\ OneEntryPerInode'
             /\ \A s \in Slots : ref'[s] = Count(ptr', s)
  <2>1. /\ <<p, from>> # <<p, to>> /\ ptr[<<p, to>>] = 0
        /\ ptr' = [ptr EXCEPT ![<<p, to>>] = ptr[<<p, from>>], ![<<p, from>>] = 0]
        /\ ref' = ref /\ inum' = inum
    BY <1>8 DEF Moves, At
  <2>2. \A t \in Slots : Count(ptr', t) = Count(ptr, t)
    <3>1. /\ ptr \in [Pointers -> 0 .. NINODE] /\ <<p, from>> \in Pointers
          /\ <<p, to>> \in Pointers
          /\ ptr'[<<p, to>>] = ptr[<<p, from>>] /\ ptr'[<<p, from>>] = 0
          /\ Agree(ptr, ptr', {<<p, from>>, <<p, to>>})
      BY <1>1, <1>3, <2>1 DEF CountedTypes, Agree
    <3> DEFINE x == <<p, from>>
               y == <<p, to>>
    <3>2. /\ x \in Pointers /\ y \in Pointers /\ x # y /\ ptr[y] = 0
          /\ ptr'[y] = ptr[x] /\ ptr'[x] = 0 /\ Agree(ptr, ptr', {x, y})
      BY <2>1, <3>1
    <3> HIDE DEF x, y
    <3> QED BY <3>1, <3>2, CountMove
  <2>3. CountedTypes'
    BY <1>1, <1>3, <2>1 DEF CountedTypes
  <2>4. OneEntryPerInode'
    BY <1>1, <2>1 DEF OneEntryPerInode
  <2>5. \A s \in Slots : ref'[s] = Count(ptr', s)
    BY <1>1, <2>1, <2>2
  <2> QED BY <2>3, <2>4, <2>5
<1>9. ASSUME NEW from \in Regs, NEW to \in Regs, Shifts(p, from, to)
      PROVE  /\ CountedTypes' /\ OneEntryPerInode'
             /\ \A s \in Slots : ref'[s] = Count(ptr', s)
  <2> DEFINE g == [ptr EXCEPT ![<<p, "put">>] = ptr[<<p, from>>], ![<<p, from>>] = 0]
  <2>1. /\ from \in {"at", "dp"} /\ to \in {"at", "ip"} /\ ref' = ref /\ inum' = inum
        /\ ptr[<<p, "put">>] = 0 /\ (to # from => ptr[<<p, to>>] = 0)
        /\ ptr' = [g EXCEPT ![<<p, to>>] = g[<<p, "next">>], ![<<p, "next">>] = 0]
    BY <1>9 DEF Shifts, At
  <2>2. "put" \in Regs /\ "next" \in Regs
    BY DEF Regs
  <2>3. /\ <<p, from>> # <<p, "put">> /\ <<p, "next">> # <<p, to>>
        /\ <<p, "put">> # <<p, to>>
    BY <2>1
  <2>4. g \in [Pointers -> 0 .. NINODE] /\ g[<<p, to>>] = 0
    BY <1>1, <1>3, <2>1, <2>2, <2>3 DEF CountedTypes
  <2>5. \A t \in Slots : Count(g, t) = Count(ptr, t)
    <3>1. /\ ptr \in [Pointers -> 0 .. NINODE] /\ <<p, from>> \in Pointers
          /\ <<p, "put">> \in Pointers
          /\ g[<<p, "put">>] = ptr[<<p, from>>] /\ g[<<p, from>>] = 0
          /\ Agree(ptr, g, {<<p, from>>, <<p, "put">>})
      BY <1>1, <1>3, <2>2, <2>3 DEF CountedTypes, Agree
    <3> HIDE DEF g
    <3>2. QED
      BY <2>1, <2>3, <3>1, CountMove
  <2>6. \A t \in Slots : Count(ptr', t) = Count(g, t)
    <3> HIDE DEF g
    <3>1. /\ <<p, to>> \in Pointers /\ <<p, "next">> \in Pointers
          /\ ptr'[<<p, to>>] = g[<<p, "next">>] /\ ptr'[<<p, "next">>] = 0
          /\ Agree(g, ptr', {<<p, "next">>, <<p, to>>})
      BY <1>3, <2>1, <2>2, <2>3, <2>4 DEF Agree
    <3>2. QED
      BY <2>1, <2>3, <2>4, <3>1, CountMove
  <2> HIDE DEF g
  <2>7. CountedTypes'
    BY <1>1, <1>3, <2>1, <2>2, <2>4 DEF CountedTypes
  <2> QED BY <1>1, <2>1, <2>5, <2>6, <2>7 DEF CountedTypes, OneEntryPerInode
<1> QED
  BY <1>5, <1>6, <1>7, <1>8, <1>9 DEF Changes
------------------------------------------------------------------------------
(* iget and idup gain a pointer *)

(* What a process points to is counted.                                    *)
LEMMA PointedIsCounted ==
  ASSUME Counted, NEW x \in Pointers, ptr[x] # 0
  PROVE  ptr[x] \in Slots /\ ref[ptr[x]] > 0
<1> DEFINE s == ptr[x]
           S == {y \in Pointers : ptr[y] = s}
<1>1. s \in Slots /\ ref[s] = Cardinality(S)
  BY Constants DEF Counted, CountedTypes, RefsAreCounted, Slots
<1>2. IsFiniteSet(S) /\ Cardinality(S) \in Nat /\ x \in S
  BY PointersFinite
<1>3. Cardinality(S) # 0
  BY <1>2, FS_EmptySet
<1> QED
  BY <1>1, <1>2, <1>3

(* iget finds an entry, takes an empty one, or panics.                     *)
LEMMA IGetGains ==
  ASSUME Counted, NEW p \in Procs, NEW r \in Regs, NEW i, At(p, r) = 0, IGet(p, r, i)
  PROVE  Keeps \/ Gains(p, r)
<1>1. CASE Cached(i) # {}
  <2>1. Least(Cached(i)) \in Cached(i)
    BY <1>1, LeastIsIn DEF Cached
  <2> QED BY <1>1, <2>1 DEF IGet, Gains, Cached
<1>2. CASE Cached(i) = {} /\ Empty # {}
  <2>1. Least(Empty) \in Empty
    BY <1>2, LeastIsIn DEF Empty
  <2>2. ref[Least(Empty)] + 1 = 1
    BY <2>1 DEF Empty
  <2> QED BY <1>2, <2>1, <2>2 DEF IGet, Gains, Empty
<1>3. CASE Cached(i) = {} /\ Empty = {}
  BY <1>3 DEF IGet, Keeps, cache
<1> QED BY <1>1, <1>2, <1>3

(* idup of a pointer that is held, or of none.                             *)
LEMMA IDupGains ==
  ASSUME Counted, NEW p \in Procs, NEW r \in Regs, At(p, r) = 0,
         NEW x \in Pointers, IDup(p, r, ptr[x])
  PROVE  Keeps \/ Gains(p, r)
<1>1. CASE ptr[x] = 0
  <2>1. 0 \notin Slots /\ <<p, r>> \in Pointers
    BY DEF Slots, Pointers
  <2> QED BY <1>1, <2>1 DEF IDup, Keeps, Counted, CountedTypes, At
<1>2. CASE ptr[x] # 0
  <2>1. ptr[x] \in Slots /\ ref[ptr[x]] > 0
    BY <1>2, PointedIsCounted
  <2> QED BY <2>1 DEF IDup, Gains
<1> QED BY <1>1, <1>2

------------------------------------------------------------------------------
(* Every step of a call *)

(* ilock: the pointer it locks is still there when it returns. *)
LEMMA ILockFits ==
  ASSUME RefInv, NEW p \in Procs, ILock(p)
  PROVE  Fits(p)
<1>1. Keeps /\ op' = op
  BY DEF ILock, Panic, Step, Keeps, cache, args, vars
<1>2. \/ UNCHANGED <<pc, ret>>
      \/ pc[p] = "ilock" /\ pc' = [pc EXCEPT ![p] = ret[p]] /\ ret' = ret
  BY DEF ILock, Panic, Step, Goto, place
<1>3. Changes(p) /\ Framed(p)
  BY <1>1, <1>2 DEF Changes, Framed, RefInv, Types
<1>4. OpsFit(p)' /\ NullsFit(p)'
  BY <1>1, <1>2 DEF Keeps, RefInv, Types, OpsFit, NullsFit, Where, Inner, Putting, At,
    UsesNext
<1> QED BY <1>3, <1>4 DEF Fits

(* A step inside iput, until the pointer is dropped. *)
LEMMA IPutFits ==
  ASSUME RefInv, NEW p \in Procs,
         IPut(p) \/ IPutFree(p) \/ IPutInvalid(p) \/ ITrunc(p) \/ ITruncEnd(p)
  PROVE  Fits(p)
<1>1. Keeps /\ op' = op
  BY DEF IPut, IPutFree, IPutInvalid, ITrunc, ITruncEnd, IUpdate, Panic, Keeps,
    cache, args
<1>2. /\ pc[p] \in Putting /\ ret' = ret
      /\ \/ pc' = pc
         \/ \E l \in Putting : pc' = [pc EXCEPT ![p] = l]
  BY DEF IPut, IPutFree, IPutInvalid, ITrunc, ITruncEnd, Panic, Step, Goto, place,
    Putting
<1>3. Changes(p) /\ Framed(p)
  BY <1>1, <1>2 DEF Changes, Framed, RefInv, Types
<1>4. OpsFit(p)' /\ NullsFit(p)'
  BY <1>1, <1>2 DEF Keeps, RefInv, Types, OpsFit, NullsFit, Where, Inner, Putting, At,
    UsesNext
<1> QED BY <1>3, <1>4 DEF Fits

(* iput has dropped its pointer: the pointers of the call fit its place. *)
LEMMA IPutDropFits ==
  ASSUME RefInv, NEW p \in Procs, IPutDrop(p)
  PROVE  Fits(p)
<1>1. /\ op' = op /\ ret' = ret /\ pc[p] = "iput_drop"
      /\ pc' = [pc EXCEPT ![p] = ret[p]]
      /\ ptr' = [ptr EXCEPT ![<<p, "put">>] = 0]
  BY DEF IPutDrop, args, Step, Goto
<1>2. Drops(p, "put") /\ "put" \in Regs
  BY DEF IPutDrop, Drops, Regs
<1>3. Changes(p) /\ Framed(p)
  BY <1>1, <1>2 DEF Changes, Framed, RefInv, Types
<1>4. OpsFit(p)' /\ NullsFit(p)'
  BY <1>1 DEF RefInv, Types, OpsFit, NullsFit, Where, Inner, Putting, At, UsesNext,
    Pointers, Regs
<1> QED BY <1>3, <1>4 DEF Fits

(* bmap, and the loops of readi and writei. *)
LEMMA BlocksFit ==
  ASSUME RefInv, NEW p \in Procs,
         BMap(p) \/ BZero(p) \/ CopyUnit(p) \/ ReadI(p) \/ WriteI(p) \/ ReadWriteEnd(p)
  PROVE  Fits(p)
<1>1. Keeps /\ op' = op
  BY DEF BMap, BAlloc, BZero, CopyUnit, ReadI, WriteI, Transfer, Refused, ReadWriteEnd,
    IUpdate, Panic, Keeps, cache, args
<1>2. /\ pc[p] \in {"bmap", "bzero", "rw_locked"} /\ ret' = ret
      /\ \/ pc' = pc
         \/ \E l \in {"bmap", "bzero", "return"} : pc' = [pc EXCEPT ![p] = l]
  BY DEF BMap, BAlloc, BZero, CopyUnit, ReadI, WriteI, Transfer, Refused, ReadWriteEnd,
    Panic, Step, Goto, place
<1>3. Changes(p) /\ Framed(p)
  BY <1>1, <1>2 DEF Changes, Framed, RefInv, Types
<1>4. OpsFit(p)' /\ NullsFit(p)'
  BY <1>1, <1>2 DEF Keeps, RefInv, Types, OpsFit, NullsFit, Where, Inner, Putting, At,
    UsesNext, UsesAt, UsesDp, BeforeIp, NamexSteps, Creates
<1> QED BY <1>3, <1>4 DEF Fits

(* ialloc and what follows it have no pointer but the directory and the    *)
(* new inode.                                                              *)
LEMMA IAllocFits ==
  ASSUME RefInv, NEW p \in Procs, IAlloc(p) \/ CreateInit(p)
  PROVE  Fits(p)
<1>1. Keeps /\ op' = op /\ ret' = ret
  BY DEF IAlloc, CreateInit, IUpdate, Panic, Step, Keeps, cache, args, place
<1>2. \/ pc' = pc
      \/ pc[p] = "ialloc" /\ pc' = [pc EXCEPT ![p] = "ialloc_get"]
      \/ pc[p] = "create_init" /\ pc' = [pc EXCEPT ![p] = "dirlink"]
  BY DEF IAlloc, CreateInit, Panic, Step, Goto, place
<1>3. Changes(p) /\ Framed(p)
  BY <1>1, <1>2 DEF Changes, Framed, RefInv, Types
<1>4. OpsFit(p)' /\ NullsFit(p)'
  BY <1>1, <1>2 DEF Keeps, RefInv, Types, OpsFit, NullsFit, Where, Inner, Putting, At,
    UsesNext, UsesAt, UsesDp, BeforeIp, NamexSteps, Creates
<1> QED BY <1>3, <1>4 DEF Fits

(* ialloc returns iget(inum). *)
LEMMA IAllocGetFits ==
  ASSUME RefInv, NEW p \in Procs, IAllocGet(p)
  PROVE  Fits(p)
<1>1. /\ op' = op /\ pc[p] = "ialloc_get"
      /\ pc' = [pc EXCEPT ![p] = "ilock"] /\ ret' = [ret EXCEPT ![p] = "create_init"]
  BY DEF IAllocGet, CallILock, Goto, args
<1>2. At(p, "ip") = 0 /\ Counted /\ "ip" \in Regs
  BY <1>1 DEF RefInv, Types, NullsFit, BeforeIp, Where, Inner, Putting, Counted,
    CountedTypes, Regs
<1>3. Keeps \/ Gains(p, "ip")
  BY <1>2, IGetGains DEF IAllocGet
<1>4. Changes(p) /\ Framed(p)
  BY <1>1, <1>2, <1>3 DEF Changes, Framed, RefInv, Types
<1>5. \A r \in Regs \ {"ip"} : ptr'[<<p, r>>] = ptr[<<p, r>>]
  BY <1>3 DEF Keeps, Gains, RefInv, Types, Pointers
<1>6. OpsFit(p)' /\ NullsFit(p)'
  BY <1>1, <1>5 DEF RefInv, Types, OpsFit, NullsFit, Where, Inner, Putting, At,
    UsesNext, UsesAt, UsesDp, BeforeIp, NamexSteps, Creates, Regs
<1> QED BY <1>4, <1>6 DEF Fits

(* What is left as it was when one pointer is gained, or moved. *)
LEMMA OthersKept ==
  ASSUME RefInv, NEW p \in Procs, NEW r \in Regs, Keeps \/ Gains(p, r)
  PROVE  Changes(p) /\ \A x \in Regs \ {r} : At(p, x)' = At(p, x)
  BY DEF RefInv, Types, Keeps, Gains, Changes, At, Pointers

(* Moving a pointer from one register to another changes those two. *)
LEMMA MoveChanges ==
  ASSUME RefInv, NEW p \in Procs, NEW from \in Regs, NEW to \in Regs, from # to,
         At(p, to) = 0, ptr' = Move(p, from, to), ref' = ref, inum' = inum
  PROVE  /\ Changes(p) /\ At(p, to)' = At(p, from) /\ At(p, from)' = 0
         /\ \A x \in Regs \ {from, to} : At(p, x)' = At(p, x)
<1>1. Moves(p, from, to)
  BY DEF Moves, Move, At
<1> QED
  BY <1>1 DEF RefInv, Types, Moves, Changes, At, Pointers

(* The whole invariant says that the counts are right. *)
LEMMA RefInvCounts == RefInv => Counted
  BY DEF RefInv, Types, Counted, CountedTypes

(* The registers that the steps use. *)
LEMMA RegsAre ==
  {"cwd", "fd", "at", "next", "ip", "dp", "put"} \subseteq Regs
  BY DEF Regs

(* namex *)

LEMMA NamexStartFits ==
  ASSUME RefInv, NEW p \in Procs, NamexStart(p)
  PROVE  Fits(p)
<1>1. /\ op' = op /\ pc[p] = "namex_start" /\ pc' = [pc EXCEPT ![p] = "namex"]
      /\ ret' = ret
  BY DEF NamexStart, Step, Goto, args
<1>2. At(p, "at") = 0 /\ <<p, "cwd">> \in Pointers
  BY <1>1, RegsAre DEF RefInv, NullsFit, UsesAt, Where, Inner, Putting, Pointers
<1>3. Keeps \/ Gains(p, "at")
  BY <1>2, RegsAre, RefInvCounts, IGetGains, IDupGains DEF NamexStart, At
<1>4. Changes(p) /\ \A x \in Regs \ {"at"} : At(p, x)' = At(p, x)
  BY <1>3, RegsAre, OthersKept
<1>5. Framed(p)
  BY <1>1 DEF Framed, RefInv, Types
<1>6. OpsFit(p)' /\ NullsFit(p)'
  BY <1>1, <1>4, RegsAre DEF RefInv, Types, OpsFit, NullsFit, Where, Inner, Putting,
    UsesNext, UsesAt, UsesDp, BeforeIp, NamexSteps, Creates
<1> QED BY <1>4, <1>5, <1>6 DEF Fits

(* namex goes on, or has found the inode or its parent. *)
LEMMA NamexFits ==
  ASSUME RefInv, NEW p \in Procs, Namex(p)
  PROVE  Fits(p)
<1>1. /\ op' = op /\ pc[p] = "namex" /\ ref' = ref /\ inum' = inum
      /\ \/ /\ pc' = [pc EXCEPT ![p] = "ilock"] /\ ret' = [ret EXCEPT ![p] = "namex_locked"]
            /\ ptr' = ptr
         \/ /\ WantsParent(p) /\ ptr' = Move(p, "at", "put")
            /\ pc' = [pc EXCEPT ![p] = "iput"] /\ ret' = [ret EXCEPT ![p] = NoInode(p)]
         \/ /\ ~WantsParent(p) /\ ptr' = Move(p, "at", "ip")
            /\ pc' = [pc EXCEPT ![p] = "ilock"] /\ ret' = [ret EXCEPT ![p] = AfterNamex(p)]
  BY DEF Namex, CallILock, CallIPut, Goto, cache
<1>2. /\ At(p, "put") = 0 /\ At(p, "next") = 0 /\ At(p, "dp") = 0
      /\ op[p] \in {"open", "create", "unlink", "link"}
      /\ op[p] # "link" => At(p, "ip") = 0
      /\ op[p] \in {"open", "create"} => At(p, "fd") = 0
  BY <1>1 DEF RefInv, OpsFit, NullsFit, UsesNext, UsesDp, NamexSteps, Where, Inner, Putting
<1>3. Framed(p)
  BY <1>1 DEF Framed, RefInv, Types
<1>4. CASE /\ pc' = [pc EXCEPT ![p] = "ilock"] /\ ret' = [ret EXCEPT ![p] = "namex_locked"]
           /\ ptr' = ptr
  <2>1. OpsFit(p)' /\ NullsFit(p)'
    BY <1>1, <1>2, <1>4 DEF RefInv, Types, OpsFit, NullsFit, Where, Inner, Putting,
      UsesNext, UsesAt, UsesDp, BeforeIp, NamexSteps, Creates, At
  <2> QED BY <1>1, <1>3, <1>4, <2>1 DEF Fits, Changes, Keeps
<1>5. CASE /\ WantsParent(p) /\ ptr' = Move(p, "at", "put")
           /\ pc' = [pc EXCEPT ![p] = "iput"] /\ ret' = [ret EXCEPT ![p] = NoInode(p)]
  <2>1. /\ Changes(p) /\ At(p, "at")' = 0
        /\ \A x \in Regs \ {"at", "put"} : At(p, x)' = At(p, x)
    BY <1>1, <1>2, <1>5, RegsAre, MoveChanges
  <2>2. NoInode(p) \in {"link_bad", "return"} /\ (NoInode(p) = "return" => At(p, "ip") = 0)
    BY <1>2 DEF NoInode
  <2>3. OpsFit(p)' /\ NullsFit(p)'
    BY <1>1, <1>2, <1>5, <2>1, <2>2, RegsAre DEF RefInv, Types, OpsFit, NullsFit, Where,
      Inner, Putting, UsesNext, UsesAt, UsesDp, BeforeIp, NamexSteps, Creates
  <2> QED BY <1>3, <2>1, <2>3 DEF Fits
<1>6. CASE /\ ~WantsParent(p) /\ ptr' = Move(p, "at", "ip")
           /\ pc' = [pc EXCEPT ![p] = "ilock"] /\ ret' = [ret EXCEPT ![p] = AfterNamex(p)]
  <2>1. At(p, "ip") = 0
    BY <1>2, <1>6 DEF WantsParent
  <2>2. /\ Changes(p) /\ At(p, "at")' = 0
        /\ \A x \in Regs \ {"at", "ip"} : At(p, x)' = At(p, x)
    BY <1>1, <1>6, <2>1, RegsAre, MoveChanges
  <2>3. \/ AfterNamex(p) = "open_locked" /\ op[p] = "open"
        \/ AfterNamex(p) = "link_locked" /\ op[p] = "link"
    BY <1>2, <1>6 DEF AfterNamex, WantsParent
  <2>4. OpsFit(p)' /\ NullsFit(p)'
    BY <1>1, <1>2, <1>6, <2>2, <2>3, RegsAre DEF RefInv, Types, OpsFit, NullsFit, Where,
      Inner, Putting, UsesNext, UsesAt, UsesDp, BeforeIp, NamexSteps, Creates
  <2> QED BY <1>3, <2>2, <2>4 DEF Fits
<1> QED BY <1>1, <1>4, <1>5, <1>6

(* namex has its directory locked: it gives it up or goes on to the next. *)
LEMMA NamexLockedFits ==
  ASSUME RefInv, NEW p \in Procs, NamexLocked(p)
  PROVE  Fits(p)
<1>1. /\ op' = op /\ pc[p] = "namex_locked"
      /\ \/ /\ IUnlockPut(p, "at", NoInode(p))
         \/ /\ WantsParent(p) /\ ptr' = Move(p, "at", "dp") /\ ref' = ref /\ inum' = inum
            /\ pc' = [pc EXCEPT ![p] = "ilock"] /\ ret' = [ret EXCEPT ![p] = AfterNamex(p)]
         \/ /\ \E i : IGet(p, "next", i)
            /\ pc' = [pc EXCEPT ![p] = "namex_step"] /\ ret' = ret
  BY DEF NamexLocked, CallILock, GoToNext, Step, Goto, args, DirLookup
<1>2. /\ At(p, "put") = 0 /\ At(p, "next") = 0 /\ At(p, "dp") = 0
      /\ op[p] \in {"open", "create", "unlink", "link"}
      /\ op[p] # "link" => At(p, "ip") = 0
      /\ op[p] \in {"open", "create"} => At(p, "fd") = 0
  BY <1>1 DEF RefInv, OpsFit, NullsFit, UsesNext, UsesDp, NamexSteps, Where, Inner, Putting
<1>3. CASE IUnlockPut(p, "at", NoInode(p))
  <2>1. /\ ptr' = Move(p, "at", "put") /\ ref' = ref /\ inum' = inum
        /\ pc' = [pc EXCEPT ![p] = "iput"] /\ ret' = [ret EXCEPT ![p] = NoInode(p)]
    BY <1>3 DEF IUnlockPut, CallIPut, Goto
  <2>2. /\ Changes(p) /\ At(p, "at")' = 0
        /\ \A x \in Regs \ {"at", "put"} : At(p, x)' = At(p, x)
    BY <1>2, <2>1, RegsAre, MoveChanges
  <2>3. NoInode(p) \in {"link_bad", "return"} /\ (NoInode(p) = "return" => At(p, "ip") = 0)
    BY <1>2 DEF NoInode
  <2>4. OpsFit(p)' /\ NullsFit(p)' /\ Framed(p)
    BY <1>1, <1>2, <2>1, <2>2, <2>3, RegsAre DEF RefInv, Types, OpsFit, NullsFit, Where,
      Inner, Putting, UsesNext, UsesAt, UsesDp, BeforeIp, NamexSteps, Creates, Framed
  <2> QED BY <2>2, <2>4 DEF Fits
<1>4. CASE /\ WantsParent(p) /\ ptr' = Move(p, "at", "dp") /\ ref' = ref /\ inum' = inum
           /\ pc' = [pc EXCEPT ![p] = "ilock"] /\ ret' = [ret EXCEPT ![p] = AfterNamex(p)]
  <2>1. /\ Changes(p) /\ At(p, "at")' = 0
        /\ \A x \in Regs \ {"at", "dp"} : At(p, x)' = At(p, x)
    BY <1>2, <1>4, RegsAre, MoveChanges
  <2>2. \/ AfterNamex(p) = "create_parent" /\ op[p] = "create"
        \/ AfterNamex(p) = "unlink_parent" /\ op[p] = "unlink"
        \/ AfterNamex(p) = "dirlink" /\ op[p] = "link"
    BY <1>2, <1>4 DEF AfterNamex, WantsParent
  <2>3. OpsFit(p)' /\ NullsFit(p)' /\ Framed(p)
    BY <1>1, <1>2, <1>4, <2>1, <2>2, RegsAre DEF RefInv, Types, OpsFit, NullsFit, Where,
      Inner, Putting, UsesNext, UsesAt, UsesDp, BeforeIp, NamexSteps, Creates, Framed
  <2> QED BY <2>1, <2>3 DEF Fits
<1>5. CASE /\ \E i : IGet(p, "next", i)
           /\ pc' = [pc EXCEPT ![p] = "namex_step"] /\ ret' = ret
  <2>1. Keeps \/ Gains(p, "next")
    BY <1>2, <1>5, RegsAre, RefInvCounts, IGetGains
  <2>2. Changes(p) /\ \A x \in Regs \ {"next"} : At(p, x)' = At(p, x)
    BY <2>1, RegsAre, OthersKept
  <2>3. OpsFit(p)' /\ NullsFit(p)' /\ Framed(p)
    BY <1>1, <1>2, <1>5, <2>2, RegsAre DEF RefInv, Types, OpsFit, NullsFit, Where,
      Inner, Putting, UsesNext, UsesAt, UsesDp, BeforeIp, NamexSteps, Creates, Framed
  <2> QED BY <2>2, <2>3 DEF Fits
<1> QED BY <1>1, <1>3, <1>4, <1>5

(* iunlockput(ip); ip = next *)
LEMMA NamexStepFits ==
  ASSUME RefInv, NEW p \in Procs, NamexStep(p)
  PROVE  Fits(p)
<1>1. /\ op' = op /\ pc[p] = "namex_step" /\ ref' = ref /\ inum' = inum
      /\ pc' = [pc EXCEPT ![p] = "iput"] /\ ret' = [ret EXCEPT ![p] = "namex"]
      /\ ptr' = [ptr EXCEPT ![<<p, "put">>] = At(p, "at"), ![<<p, "at">>] = At(p, "next"),
                            ![<<p, "next">>] = 0]
  BY DEF NamexStep, CallIPut, Goto, args
<1>2. /\ At(p, "put") = 0 /\ At(p, "dp") = 0
      /\ op[p] \in {"open", "create", "unlink", "link"}
      /\ op[p] # "link" => At(p, "ip") = 0
      /\ op[p] \in {"open", "create"} => At(p, "fd") = 0
  BY <1>1 DEF RefInv, OpsFit, NullsFit, UsesDp, NamexSteps, Where, Inner, Putting
<1>3. \A x \in Regs : <<p, x>> \in Pointers
  BY DEF Pointers
<1>4. Shifts(p, "at", "at")
  BY <1>1, <1>2, <1>3, RegsAre DEF Shifts, At, RefInv, Types
<1>5. Changes(p)
  BY <1>4, RegsAre DEF Changes
<1>6. At(p, "next")' = 0 /\ \A x \in Regs \ {"at", "put", "next"} : At(p, x)' = At(p, x)
  BY <1>1, <1>3, RegsAre DEF At, RefInv, Types
<1>7. OpsFit(p)' /\ NullsFit(p)' /\ Framed(p)
  BY <1>1, <1>2, <1>6, RegsAre DEF RefInv, Types, OpsFit, NullsFit, Where,
    Inner, Putting, UsesNext, UsesAt, UsesDp, BeforeIp, NamexSteps, Creates, Framed
<1> QED BY <1>5, <1>7 DEF Fits

------------------------------------------------------------------------------
(* What the calls do with an inode *)

(* iunlockput. *)
LEMMA UnlockPutChanges ==
  ASSUME RefInv, NEW p \in Procs, NEW r \in Regs, NEW l, r # "put", At(p, "put") = 0,
         IUnlockPut(p, r, l)
  PROVE  /\ pc' = [pc EXCEPT ![p] = "iput"] /\ ret' = [ret EXCEPT ![p] = l]
         /\ Changes(p) /\ At(p, r)' = 0
         /\ \A x \in Regs \ {r, "put"} : At(p, x)' = At(p, x)
  BY RegsAre, MoveChanges DEF IUnlockPut, CallIPut, Goto

(* Nothing but the lock and the place changes. *)
LEMMA LocksFit ==
  ASSUME RefInv, NEW p \in Procs, CreateExists(p) \/ LinkBad(p)
  PROVE  Fits(p)
<1>1. Keeps /\ op' = op /\ pc' = [pc EXCEPT ![p] = "ilock"]
  BY DEF CreateExists, LinkBad, CallILock, Goto, Keeps, cache, args
<1>2. \/ pc[p] = "create_exists" /\ ret' = [ret EXCEPT ![p] = "open_locked"]
      \/ pc[p] = "link_bad" /\ ret' = [ret EXCEPT ![p] = "drop_link"]
  BY DEF CreateExists, LinkBad, CallILock
<1>3. OpsFit(p)' /\ NullsFit(p)' /\ Framed(p)
  BY <1>1, <1>2 DEF Keeps, RefInv, Types, OpsFit, NullsFit, Where, Inner, Putting, At,
    UsesNext, UsesAt, UsesDp, BeforeIp, NamexSteps, Creates, Framed
<1> QED BY <1>1, <1>3 DEF Fits, Changes

(* open has its inode locked: it becomes the open file or is dropped. *)
LEMMA OpenLockedFits ==
  ASSUME RefInv, NEW p \in Procs, OpenLocked(p)
  PROVE  Fits(p)
<1>1. /\ op' = op /\ pc[p] = "open_locked"
      /\ \/ IUnlockPut(p, "ip", "return")
         \/ /\ ptr' = Move(p, "ip", "fd") /\ ref' = ref /\ inum' = inum
            /\ pc' = [pc EXCEPT ![p] = "return"] /\ ret' = ret
  BY DEF OpenLocked, Step, Goto, args
<1>2. At(p, "put") = 0 /\ At(p, "fd") = 0
  BY <1>1 DEF RefInv, OpsFit, NullsFit, Where, Inner, Putting
<1>3. CASE IUnlockPut(p, "ip", "return")
  <2>1. /\ pc' = [pc EXCEPT ![p] = "iput"] /\ ret' = [ret EXCEPT ![p] = "return"]
        /\ Changes(p) /\ At(p, "ip")' = 0
        /\ \A x \in Regs \ {"ip", "put"} : At(p, x)' = At(p, x)
    BY <1>2, <1>3, RegsAre, UnlockPutChanges
  <2>2. OpsFit(p)' /\ NullsFit(p)' /\ Framed(p)
    BY <1>1, <2>1, RegsAre DEF RefInv, Types, OpsFit, NullsFit, Where, Inner, Putting,
      UsesNext, UsesAt, UsesDp, BeforeIp, NamexSteps, Creates, Framed
  <2> QED BY <2>1, <2>2 DEF Fits
<1>4. CASE /\ ptr' = Move(p, "ip", "fd") /\ ref' = ref /\ inum' = inum
           /\ pc' = [pc EXCEPT ![p] = "return"] /\ ret' = ret
  <2>1. /\ Changes(p) /\ At(p, "ip")' = 0
        /\ \A x \in Regs \ {"ip", "fd"} : At(p, x)' = At(p, x)
    BY <1>2, <1>4, RegsAre, MoveChanges
  <2>2. OpsFit(p)' /\ NullsFit(p)' /\ Framed(p)
    BY <1>1, <1>4, <2>1, RegsAre DEF RefInv, Types, OpsFit, NullsFit, Where, Inner, Putting,
      UsesNext, UsesAt, UsesDp, BeforeIp, NamexSteps, Creates, Framed
  <2> QED BY <2>1, <2>2 DEF Fits
<1> QED BY <1>1, <1>3, <1>4

(* create has its directory: it has found the name or allocates an inode. *)
LEMMA CreateParentFits ==
  ASSUME RefInv, NEW p \in Procs, CreateParent(p)
  PROVE  Fits(p)
<1>1. /\ op' = op /\ pc[p] = "create_parent" /\ ret' = ret
      /\ \/ /\ \E i : IGet(p, "next", i)
            /\ pc' = [pc EXCEPT ![p] = "create_found"]
         \/ Keeps /\ pc' = [pc EXCEPT ![p] = "ialloc"]
         \/ Keeps /\ pc' = pc
  BY DEF CreateParent, Panic, Step, Goto, args, place, DirLookup, Keeps, cache
<1>2. At(p, "next") = 0
  BY <1>1 DEF RefInv, NullsFit, UsesNext
<1>3. Keeps \/ Gains(p, "next")
  BY <1>1, <1>2, RegsAre, RefInvCounts, IGetGains
<1>4. Changes(p) /\ \A x \in Regs \ {"next"} : At(p, x)' = At(p, x)
  BY <1>3, RegsAre, OthersKept
<1>5. pc'[p] \in {"create_parent", "ialloc"} => At(p, "next")' = 0
  BY <1>1, <1>2 DEF Keeps, At, RefInv, Types
<1>6. OpsFit(p)' /\ NullsFit(p)' /\ Framed(p)
  BY <1>1, <1>4, <1>5, RegsAre DEF RefInv, Types, OpsFit, NullsFit, Where, Inner,
    Putting, UsesNext, UsesAt, UsesDp, BeforeIp, NamexSteps, Creates, Framed
<1> QED BY <1>4, <1>6 DEF Fits

(* create drops the directory and goes on with the inode it found. *)
LEMMA CreateFoundFits ==
  ASSUME RefInv, NEW p \in Procs, CreateFound(p)
  PROVE  Fits(p)
<1>1. /\ op' = op /\ pc[p] = "create_found" /\ ref' = ref /\ inum' = inum
      /\ pc' = [pc EXCEPT ![p] = "iput"] /\ ret' = [ret EXCEPT ![p] = "create_exists"]
      /\ ptr' = [ptr EXCEPT ![<<p, "put">>] = At(p, "dp"), ![<<p, "dp">>] = 0,
                            ![<<p, "ip">>] = At(p, "next"), ![<<p, "next">>] = 0]
  BY DEF CreateFound, CallIPut, Goto, args
<1>2. At(p, "put") = 0 /\ At(p, "ip") = 0
  BY <1>1 DEF RefInv, NullsFit, BeforeIp, Where, Inner, Putting
<1>3. \A x \in Regs : <<p, x>> \in Pointers
  BY DEF Pointers
<1>4. Shifts(p, "dp", "ip")
  BY <1>1, <1>2, <1>3, RegsAre DEF Shifts, At, RefInv, Types
<1>5. Changes(p)
  BY <1>4, RegsAre DEF Changes
<1>6. /\ At(p, "next")' = 0 /\ At(p, "dp")' = 0
      /\ \A x \in Regs \ {"dp", "put", "ip", "next"} : At(p, x)' = At(p, x)
  BY <1>1, <1>3, RegsAre DEF At, RefInv, Types
<1>7. OpsFit(p)' /\ NullsFit(p)' /\ Framed(p)
  BY <1>1, <1>6, RegsAre DEF RefInv, Types, OpsFit, NullsFit, Where,
    Inner, Putting, UsesNext, UsesAt, UsesDp, BeforeIp, NamexSteps, Creates, Framed
<1> QED BY <1>5, <1>7 DEF Fits

(* dirlink and what follows it keep or drop the directory. *)
LEMMA DirLinkFits ==
  ASSUME RefInv, NEW p \in Procs, DirLink(p)
  PROVE  Fits(p)
<1>1. /\ op' = op /\ pc[p] = "dirlink" /\ ret' = ret
      /\ \/ /\ \E i : IGet(p, "next", i)
            /\ pc' = [pc EXCEPT ![p] = "dirlink_found"]
         \/ Keeps /\ pc' = [pc EXCEPT ![p] = "linked"]
         \/ Keeps /\ pc' = pc
  BY DEF DirLink, Panic, Step, Goto, args, place, DirLookup, Keeps, cache
<1>2. At(p, "next") = 0
  BY <1>1 DEF RefInv, NullsFit, UsesNext
<1>3. Keeps \/ Gains(p, "next")
  BY <1>1, <1>2, RegsAre, RefInvCounts, IGetGains
<1>4. Changes(p) /\ \A x \in Regs \ {"next"} : At(p, x)' = At(p, x)
  BY <1>3, RegsAre, OthersKept
<1>5. pc'[p] \in {"dirlink", "linked"} => At(p, "next")' = 0
  BY <1>1, <1>2 DEF Keeps, At, RefInv, Types
<1>6. OpsFit(p)' /\ NullsFit(p)' /\ Framed(p)
  BY <1>1, <1>4, <1>5, RegsAre DEF RefInv, Types, OpsFit, NullsFit, Where, Inner,
    Putting, UsesNext, UsesAt, UsesDp, BeforeIp, NamexSteps, Creates, Framed
<1> QED BY <1>4, <1>6 DEF Fits

(* iput(ip), or iput(next), where the place is left at once. *)
LEMMA PutsFit ==
  ASSUME RefInv, NEW p \in Procs,
         DirLinkFound(p) \/ DropLink(p) \/ LinkDone(p)
  PROVE  Fits(p)
<1>1. /\ op' = op /\ ref' = ref /\ inum' = inum /\ pc' = [pc EXCEPT ![p] = "iput"]
      /\ \/ /\ pc[p] = "dirlink_found" /\ ptr' = Move(p, "next", "put")
            /\ ret' = [ret EXCEPT ![p] = "dirlink_failed"]
         \/ /\ pc[p] \in {"drop_link", "link_done"} /\ ptr' = Move(p, "ip", "put")
            /\ ret' = [ret EXCEPT ![p] = "return"]
  BY DEF DirLinkFound, DropLink, LinkDone, CallIPut, Goto, cache, args
<1>2. At(p, "put") = 0
  BY <1>1 DEF RefInv, NullsFit, Putting
<1>3. CASE /\ pc[p] = "dirlink_found" /\ ptr' = Move(p, "next", "put")
           /\ ret' = [ret EXCEPT ![p] = "dirlink_failed"]
  <2>1. /\ Changes(p) /\ At(p, "next")' = 0
        /\ \A x \in Regs \ {"next", "put"} : At(p, x)' = At(p, x)
    BY <1>1, <1>2, <1>3, RegsAre, MoveChanges
  <2>2. OpsFit(p)' /\ NullsFit(p)' /\ Framed(p)
    BY <1>1, <1>3, <2>1, RegsAre DEF RefInv, Types, OpsFit, NullsFit, Where, Inner, Putting,
      UsesNext, UsesAt, UsesDp, BeforeIp, NamexSteps, Creates, Framed
  <2> QED BY <2>1, <2>2 DEF Fits
<1>4. CASE /\ pc[p] \in {"drop_link", "link_done"} /\ ptr' = Move(p, "ip", "put")
           /\ ret' = [ret EXCEPT ![p] = "return"]
  <2>1. /\ Changes(p) /\ At(p, "ip")' = 0
        /\ \A x \in Regs \ {"ip", "put"} : At(p, x)' = At(p, x)
    BY <1>1, <1>2, <1>4, RegsAre, MoveChanges
  <2>2. OpsFit(p)' /\ NullsFit(p)' /\ Framed(p)
    BY <1>1, <1>4, <2>1, RegsAre DEF RefInv, Types, OpsFit, NullsFit, Where, Inner, Putting,
      UsesNext, UsesAt, UsesDp, BeforeIp, NamexSteps, Creates, Framed
  <2> QED BY <2>1, <2>2 DEF Fits
<1> QED BY <1>1, <1>3, <1>4

(* The directory is given up. *)
LEMMA DirectoryFits ==
  ASSUME RefInv, NEW p \in Procs,
         DirLinkFailed(p) \/ Linked(p) \/ UnlinkLocked(p)
  PROVE  Fits(p)
<1>1. CASE UNCHANGED <<pc, ret, op>> /\ Keeps
  BY <1>1 DEF Fits, Changes, Keeps, Framed, RefInv, Types, OpsFit, NullsFit, Where, At
<1>2. ASSUME ~(UNCHANGED <<pc, ret, op>> /\ Keeps)
      PROVE  /\ op' = op
             /\ \/ /\ pc[p] = "dirlink_failed" /\ IUnlockPut(p, "dp", "link_bad")
                \/ /\ pc[p] = "linked"
                   /\ \/ op[p] = "create" /\ IUnlockPut(p, "dp", "open_locked")
                      \/ IUnlockPut(p, "dp", "link_done")
                \/ /\ pc[p] = "unlink_locked" /\ IUnlockPut(p, "dp", "drop_link")
  BY <1>2 DEF DirLinkFailed, Linked, UnlinkLocked, Panic, Keeps, cache, place, args
<1>3. ASSUME ~(UNCHANGED <<pc, ret, op>> /\ Keeps)
      PROVE  Fits(p)
  <2>1. At(p, "put") = 0
    BY <1>2, <1>3 DEF RefInv, NullsFit, Putting
  <2>2. PICK l \in {"link_bad", "open_locked", "link_done", "drop_link"} :
          /\ l = "open_locked" => op[p] = "create" /\ pc[p] = "linked"
          /\ IUnlockPut(p, "dp", l)
    BY <1>2, <1>3
  <2>3. /\ pc' = [pc EXCEPT ![p] = "iput"] /\ ret' = [ret EXCEPT ![p] = l]
        /\ Changes(p) /\ At(p, "dp")' = 0
        /\ \A x \in Regs \ {"dp", "put"} : At(p, x)' = At(p, x)
    BY <2>1, <2>2, RegsAre, UnlockPutChanges
  <2>4. pc[p] \in {"dirlink_failed", "linked", "unlink_locked"} /\ op' = op
    BY <1>2, <1>3
  <2>5. OpsFit(p)' /\ NullsFit(p)' /\ Framed(p)
    BY <2>2, <2>3, <2>4, RegsAre DEF RefInv, Types, OpsFit, NullsFit, Where, Inner,
      Putting, UsesNext, UsesAt, UsesDp, BeforeIp, NamexSteps, Creates, Framed
  <2> QED BY <2>3, <2>5 DEF Fits
<1> QED BY <1>1, <1>3

(* unlink has found an inode, or drops the directory. *)
LEMMA UnlinkParentFits ==
  ASSUME RefInv, NEW p \in Procs, UnlinkParent(p)
  PROVE  Fits(p)
<1>1. /\ op' = op /\ pc[p] = "unlink_parent"
      /\ \/ IUnlockPut(p, "dp", "return")
         \/ /\ \E i : IGet(p, "ip", i)
            /\ pc' = [pc EXCEPT ![p] = "ilock"] /\ ret' = [ret EXCEPT ![p] = "unlink_locked"]
         \/ Keeps /\ UNCHANGED <<pc, ret>>
  BY DEF UnlinkParent, Panic, CallILock, Goto, args, place, cache, Keeps, DirLookup
<1>2. At(p, "put") = 0 /\ At(p, "ip") = 0
  BY <1>1 DEF RefInv, NullsFit, BeforeIp, Where, Inner, Putting
<1>3. CASE IUnlockPut(p, "dp", "return")
  <2>1. /\ pc' = [pc EXCEPT ![p] = "iput"] /\ ret' = [ret EXCEPT ![p] = "return"]
        /\ Changes(p) /\ At(p, "dp")' = 0
        /\ \A x \in Regs \ {"dp", "put"} : At(p, x)' = At(p, x)
    BY <1>2, <1>3, RegsAre, UnlockPutChanges
  <2>2. OpsFit(p)' /\ NullsFit(p)' /\ Framed(p)
    BY <1>1, <1>2, <2>1, RegsAre DEF RefInv, Types, OpsFit, NullsFit, Where, Inner, Putting,
      UsesNext, UsesAt, UsesDp, BeforeIp, NamexSteps, Creates, Framed
  <2> QED BY <2>1, <2>2 DEF Fits
<1>4. CASE /\ \E i : IGet(p, "ip", i)
           /\ pc' = [pc EXCEPT ![p] = "ilock"] /\ ret' = [ret EXCEPT ![p] = "unlink_locked"]
  <2>1. Keeps \/ Gains(p, "ip")
    BY <1>2, <1>4, RegsAre, RefInvCounts, IGetGains
  <2>2. Changes(p) /\ \A x \in Regs \ {"ip"} : At(p, x)' = At(p, x)
    BY <2>1, RegsAre, OthersKept
  <2>3. OpsFit(p)' /\ NullsFit(p)' /\ Framed(p)
    BY <1>1, <1>4, <2>2, RegsAre DEF RefInv, Types, OpsFit, NullsFit, Where,
      Inner, Putting, UsesNext, UsesAt, UsesDp, BeforeIp, NamexSteps, Creates, Framed
  <2> QED BY <2>2, <2>3 DEF Fits
<1>5. CASE Keeps /\ UNCHANGED <<pc, ret>>
  <2>1. OpsFit(p)' /\ NullsFit(p)' /\ Framed(p)
    BY <1>1, <1>5 DEF RefInv, Types, OpsFit, NullsFit, Where, Framed, Keeps, At
  <2> QED BY <1>5, <2>1 DEF Fits, Changes
<1> QED BY <1>1, <1>3, <1>4, <1>5

(* link counts its inode up and looks the new name up, or gives up. *)
LEMMA LinkLockedFits ==
  ASSUME RefInv, NEW p \in Procs, LinkLocked(p)
  PROVE  Fits(p)
<1>1. /\ op' = op /\ pc[p] = "link_locked"
      /\ \/ IUnlockPut(p, "ip", "return")
         \/ Keeps /\ pc' = [pc EXCEPT ![p] = "namex_start"] /\ ret' = ret
  BY DEF LinkLocked, Step, Goto, Keeps
<1>2. At(p, "put") = 0
  BY <1>1 DEF RefInv, NullsFit, Putting
<1>3. CASE IUnlockPut(p, "ip", "return")
  <2>1. /\ pc' = [pc EXCEPT ![p] = "iput"] /\ ret' = [ret EXCEPT ![p] = "return"]
        /\ Changes(p) /\ At(p, "ip")' = 0
        /\ \A x \in Regs \ {"ip", "put"} : At(p, x)' = At(p, x)
    BY <1>2, <1>3, RegsAre, UnlockPutChanges
  <2>2. OpsFit(p)' /\ NullsFit(p)' /\ Framed(p)
    BY <1>1, <1>2, <2>1, RegsAre DEF RefInv, Types, OpsFit, NullsFit, Where, Inner, Putting,
      UsesNext, UsesAt, UsesDp, BeforeIp, NamexSteps, Creates, Framed
  <2> QED BY <2>1, <2>2 DEF Fits
<1>4. CASE Keeps /\ pc' = [pc EXCEPT ![p] = "namex_start"] /\ ret' = ret
  <2>1. OpsFit(p)' /\ NullsFit(p)' /\ Framed(p)
    BY <1>1, <1>4 DEF Keeps, RefInv, Types, OpsFit, NullsFit, Where, Inner, Putting, At,
      UsesNext, UsesAt, UsesDp, BeforeIp, NamexSteps, Creates, Framed
  <2> QED BY <1>4, <2>1 DEF Fits, Changes
<1> QED BY <1>1, <1>3, <1>4

(* A call that returns leaves the directory and the open file. *)
LEMMA ReturnFits ==
  ASSUME RefInv, NEW p \in Procs, Return(p)
  PROVE  Fits(p)
<1>1. /\ pc[p] = "return" /\ UNCHANGED <<cache, ptr>>
      /\ pc' = [pc EXCEPT ![p] = "user"] /\ ret' = [ret EXCEPT ![p] = "user"]
      /\ op' = [op EXCEPT ![p] = "none"]
  BY Zenon DEF Return, Goto
<1>2. Keeps
  BY <1>1 DEF Keeps, cache
<1>3. OpsFit(p)' /\ NullsFit(p)' /\ Framed(p)
  BY <1>1, <1>2 DEF Keeps, RefInv, Types, OpsFit, NullsFit, Where, Inner, Putting, At,
    UsesNext, UsesAt, UsesDp, BeforeIp, NamexSteps, Creates, Framed
<1> QED BY <1>2, <1>3 DEF Fits, Changes

(* A call that begins uses the pointers its process has. *)
LEMMA CallFits ==
  ASSUME RefInv, NEW p \in Procs, Call(p)
  PROVE  Fits(p)
<1>1. PICK c \in Calls :
        /\ pc[p] = "user" /\ ref' = ref /\ inum' = inum /\ op' = [op EXCEPT ![p] = c]
        /\ \/ /\ c \in {"open", "create", "unlink", "link"}
              /\ c \in {"open", "create"} => At(p, "fd") = 0
              /\ pc' = [pc EXCEPT ![p] = "namex_start"] /\ ret' = ret /\ ptr' = ptr
           \/ /\ c \in {"read", "write"}
              /\ pc' = [pc EXCEPT ![p] = "ilock"] /\ ret' = [ret EXCEPT ![p] = "rw_locked"]
              /\ ptr' = ptr
           \/ /\ c \in {"close", "exit"}
              /\ pc' = [pc EXCEPT ![p] = "iput"] /\ ret' = [ret EXCEPT ![p] = "return"]
              /\ \E r \in {"fd", "cwd"} : ptr' = Move(p, r, "put")
  BY DEF Call, Idle, Step, CallILock, CallIPut, Goto, cache
<1>2. At(p, "put") = 0 /\ At(p, "ip") = 0
  BY <1>1 DEF RefInv, NullsFit, BeforeIp, Where, Inner, Putting
<1>3. CASE ptr' = ptr
  <2>1. Keeps
    BY <1>1, <1>3 DEF Keeps
  <2>2. OpsFit(p)' /\ NullsFit(p)' /\ Framed(p)
    BY <1>1, <1>2, <1>3 DEF RefInv, Types, OpsFit, NullsFit, Where, Inner, Putting, At,
      UsesNext, UsesAt, UsesDp, BeforeIp, NamexSteps, Creates, Framed
  <2> QED BY <2>1, <2>2 DEF Fits, Changes
<1>4. CASE \E r \in {"fd", "cwd"} : ptr' = Move(p, r, "put")
  <2>1. PICK r \in {"fd", "cwd"} : ptr' = Move(p, r, "put")
    BY <1>4
  <2>2. /\ Changes(p) /\ At(p, r)' = 0
        /\ \A x \in Regs \ {r, "put"} : At(p, x)' = At(p, x)
    BY <1>1, <1>2, <2>1, RegsAre, MoveChanges
  <2>3. CASE ptr' # ptr
    <3>1. pc' = [pc EXCEPT ![p] = "iput"] /\ ret' = [ret EXCEPT ![p] = "return"]
      BY <1>1, <2>3
    <3>2. OpsFit(p)' /\ NullsFit(p)' /\ Framed(p)
      BY <1>1, <1>2, <2>1, <2>2, <3>1, RegsAre DEF RefInv, Types, OpsFit, NullsFit, Where,
        Inner, Putting, UsesNext, UsesAt, UsesDp, BeforeIp, NamexSteps, Creates, Framed
    <3> QED BY <2>2, <3>2 DEF Fits
  <2> QED BY <1>3, <2>3
<1> QED BY <1>1, <1>3, <1>4

(* The child has nothing but the current directory of its parent. *)
LEMMA ForkFits ==
  ASSUME RefInv, NEW p \in Procs, Fork(p)
  PROVE  \E q \in Procs : Fits(q)
<1>1. PICK q \in Procs : pc[q] = "user" /\ At(q, "cwd") = 0 /\ IDup(q, "cwd", At(p, "cwd"))
  BY DEF Fork, Idle, Alive
<1>2. <<p, "cwd">> \in Pointers /\ UNCHANGED <<pc, ret, op>>
  BY RegsAre DEF Pointers, Fork, place, args
<1>3. Keeps \/ Gains(q, "cwd")
  BY <1>1, <1>2, RegsAre, RefInvCounts, IDupGains DEF At
<1>4. Changes(q) /\ \A x \in Regs \ {"cwd"} : At(q, x)' = At(q, x)
  BY <1>3, RegsAre, OthersKept
<1>5. OpsFit(q)' /\ NullsFit(q)' /\ Framed(q)
  BY <1>1, <1>2, <1>4, RegsAre DEF RefInv, Types, OpsFit, NullsFit, Where, Inner, Putting,
    UsesNext, UsesAt, UsesDp, BeforeIp, NamexSteps, Creates, Framed
<1> QED BY <1>4, <1>5 DEF Fits

------------------------------------------------------------------------------
(* The theorem *)

(* What a step changes of one process is no other's. *)
LEMMA FitsKeeps ==
  ASSUME RefInv, NEW p \in Procs, Fits(p)
  PROVE  RefInv'
<1>1. Counted'
  BY RefInvCounts, ChangesKeepCounts DEF Fits
<1>2. Types'
  BY <1>1 DEF Types, Counted, CountedTypes, Fits, Framed
<1>3. ASSUME NEW q \in Procs, q # p PROVE OpsFit(q)' /\ NullsFit(q)'
  <2>1. \A x \in Regs : At(q, x)' = At(q, x)
    <3>1. ptr \in [Pointers -> 0 .. NINODE] /\ \A x \in Regs : <<q, x>> \in Pointers
      BY DEF RefInv, Types, Pointers
    <3> QED BY <1>3, <3>1 DEF Fits, Changes, Keeps, Gains, Drops, Moves, Shifts, At
  <2>2. pc'[q] = pc[q] /\ ret'[q] = ret[q] /\ op'[q] = op[q]
    BY <1>3 DEF Fits, Framed
  <2> QED BY <2>1, <2>2, RegsAre DEF RefInv, OpsFit, NullsFit, Where
<1> QED BY <1>1, <1>2, <1>3 DEF RefInv, Counted, Fits

(* After a start only the first process points to something. *)
LEMMA BootCounts ==
  ASSUME NEW f, f = [x \in Pointers |-> IF x = <<INITPROC, "cwd">> THEN 1 ELSE 0],
         NEW s \in Slots
  PROVE  Cardinality({x \in Pointers : f[x] = s}) = IF s = 1 THEN 1 ELSE 0
<1>1. <<INITPROC, "cwd">> \in Pointers /\ s # 0
  BY Constants, RegsAre DEF Pointers, Slots
<1>2. CASE s = 1
  <2>1. {x \in Pointers : f[x] = s} = {<<INITPROC, "cwd">>}
    BY <1>1, <1>2
  <2> QED BY <1>2, <2>1, FS_Singleton
<1>3. CASE s # 1
  <2>1. {x \in Pointers : f[x] = s} = {}
    BY <1>1, <1>3
  <2> QED BY <1>3, <2>1, FS_EmptySet
<1> QED BY <1>2, <1>3

(* The first process has the root. *)
LEMMA InitRefInv == Init => RefInv
<1> SUFFICES ASSUME Init PROVE RefInv
  OBVIOUS
<1>1. /\ BootCache /\ pc = [p \in Procs |-> "user"]
      /\ ret = [p \in Procs |-> "user"] /\ op = [p \in Procs |-> "none"]
  BY Zenon DEF Init
<1>2. Types
  BY <1>1, Constants DEF BootCache, Types
<1>3. \A p \in Procs : OpsFit(p)
  BY <1>1 DEF OpsFit, Where, Inner, Putting, NamexSteps, Creates
<1>4. \A p \in Procs, x \in Regs : x # "cwd" => At(p, x) = 0
  BY <1>1 DEF BootCache, At, Pointers
<1>5. \A p \in Procs : NullsFit(p)
  BY <1>1, <1>4, RegsAre DEF NullsFit, Where, Inner, Putting, NamexSteps
<1>6. RefsAreCounted
  BY <1>1, BootCounts DEF BootCache, RefsAreCounted
<1>7. OneEntryPerInode
  BY <1>1 DEF BootCache, OneEntryPerInode
<1> QED BY <1>2, <1>3, <1>5, <1>6, <1>7 DEF RefInv

(* After a start there is one pointer again, to the root. *)
LEMMA CrashRefInv ==
  ASSUME RefInv, Crash
  PROVE  RefInv'
<1>1. /\ \A p \in Procs : pc[p] = "user"
      /\ UNCHANGED <<pc, ret, op>>
      /\ inum' = [s \in Slots |-> ROOTINO]
      /\ ref' = [s \in Slots |-> IF s = 1 THEN 1 ELSE 0]
      /\ ptr' = [x \in Pointers |-> IF x = <<INITPROC, "cwd">> THEN 1 ELSE 0]
  BY DEF Crash, Idle, place, args
<1>2. Types'
  BY <1>1, Constants DEF Types, RefInv
<1>3. \A p \in Procs : OpsFit(p)'
  BY <1>1 DEF OpsFit, Where, RefInv
<1>4. \A p \in Procs, x \in Regs : x # "cwd" => At(p, x)' = 0
  BY <1>1 DEF At, Pointers
<1>5. \A p \in Procs : NullsFit(p)'
  BY <1>1, <1>4, RegsAre DEF NullsFit, Where, Inner, Putting, NamexSteps
<1>6. RefsAreCounted'
  BY <1>1, BootCounts DEF RefsAreCounted
<1>7. OneEntryPerInode'
  BY <1>1 DEF OneEntryPerInode
<1> QED BY <1>2, <1>3, <1>5, <1>6, <1>7 DEF RefInv

(* Every step keeps the whole invariant. *)
LEMMA NextRefInv == RefInv /\ [Next]_vars => RefInv'
<1> SUFFICES ASSUME RefInv, [Next]_vars PROVE RefInv'
  OBVIOUS
<1>1. ASSUME NEW p \in Procs, Inside(p) PROVE Fits(p)
  BY <1>1, ILockFits, IPutFits, IPutDropFits, BlocksFit, IAllocFits, IAllocGetFits,
     NamexStartFits, NamexFits, NamexLockedFits, NamexStepFits, LocksFit,
     OpenLockedFits, CreateParentFits, CreateFoundFits, DirLinkFits, PutsFit,
     DirectoryFits, UnlinkParentFits, LinkLockedFits, ReturnFits, Zenon DEF Inside
<1>2. ASSUME NEW p \in Procs, Call(p) PROVE Fits(p)
  BY <1>2, CallFits
<1>3. ASSUME NEW p \in Procs, Fork(p) PROVE \E q \in Procs : Fits(q)
  BY <1>3, ForkFits
<1>4. CASE UNCHANGED vars \/ \E p \in Procs : DirGrow(p)
  <2>1. UNCHANGED <<ref, inum, ptr, pc, ret, op>>
    BY <1>4 DEF vars, DirGrow, Panic, cache, place, args
  <2> QED BY <2>1 DEF RefInv, Types, OpsFit, NullsFit, Where, At, RefsAreCounted,
            OneEntryPerInode
<1> QED
  BY <1>1, <1>2, <1>3, <1>4, FitsKeeps, CrashRefInv DEF Next, Halted

(* The ref of an entry of the inode cache is the number of pointers to it  *)
(* that processes hold: iget and idup count each one, iput uncounts it,    *)
(* and no call loses one on any of its ways out.                           *)
THEOREM RefsCorrect == Spec => []RefsAreCounted
<1>1. RefInv => RefsAreCounted
  BY DEF RefInv
<1> QED BY <1>1, InitRefInv, NextRefInv, PTL DEF Spec

(* iget never caches an inode that is cached already: two processes that   *)
(* use an inode use the same lock.                                         *)
THEOREM EntriesCorrect == Spec => []OneEntryPerInode
<1>1. RefInv => OneEntryPerInode
  BY DEF RefInv
<1> QED BY <1>1, InitRefInv, NextRefInv, PTL DEF Spec

------------------------------------------------------------------------------
(* The steps of a call, process by process: where it goes, what becomes of *)
(* its pointers and of the locks.                                          *)

(* What a step does to its own process and that it leaves the others       *)
(* alone.                                                                  *)
LEMMA OnlySteps ==
  ASSUME NEW p, OnlyPlaces(p), OnlyPointers(p), StepOf(p)
  PROVE  Steps(p)
  BY DEF OnlyPlaces, OnlyPointers, Steps, Only, PlaceDomains

(* The ways of going on change the place of one process. *)
LEMMA PlaceSteps ==
  ASSUME Domains, NEW p \in Procs, op' = op
  PROVE  /\ UNCHANGED place => OnlyPlaces(p) /\ Go(p, pc[p])
         /\ \A l : Step(p, l) => OnlyPlaces(p) /\ Go(p, l)
         /\ \A l : CallIPut(p, l) => OnlyPlaces(p) /\ GoIPut(p, l)
         /\ \A l, r : CallILock(p, r, l) => OnlyPlaces(p) /\ GoILock(p, r, l)
  BY DEF Domains, PlaceDomains, place, Step, Goto, CallIPut, CallILock, OnlyPlaces, Go, GoIPut, GoILock

(* A step that changes no pointer leaves those of all processes. *)
LEMMA StillSteps ==
  ASSUME Domains, NEW p \in Procs, UNCHANGED <<ref, inum, ptr>>
  PROVE  Still(p) /\ OnlyPointers(p)
  BY DEF Domains, Still, KeepsAllBut, At, OnlyPointers

(* A pointer that is moved is moved within one process. *)
LEMMA MovedSteps ==
  ASSUME Domains, NEW p \in Procs, NEW from \in Regs, NEW to \in Regs, from # to,
         ptr' = Move(p, from, to), UNCHANGED <<ref, inum>>
  PROVE  Moved(p, from, to) /\ OnlyPointers(p)
<1>1. \A q \in Procs, x \in Regs : <<q, x>> \in DOMAIN ptr
  BY DEF Domains, Pointers
<1>2. \A q \in Procs, x \in Regs : At(q, x)' =
        IF q = p /\ x = from THEN 0 ELSE IF q = p /\ x = to THEN At(p, from) ELSE At(q, x)
  BY <1>1 DEF Move, At
<1> QED BY <1>2 DEF Moved, KeepsAllBut, OnlyPointers

(* So are the pointers that go on to the next inode. *)
LEMMA ShiftedSteps ==
  ASSUME Domains, NEW p \in Procs, NEW from \in {"at", "dp"}, NEW to \in {"at", "ip"},
         ptr'[<<p, "put">>] = At(p, from), ptr'[<<p, to>>] = At(p, "next"),
         ptr'[<<p, "next">>] = 0, from # to => ptr'[<<p, from>>] = 0,
         \A x \in Pointers : x \notin {<<p, y>> : y \in {"put", "next", from, to}} => ptr'[x] = ptr[x],
         UNCHANGED <<ref, inum>>
  PROVE  Shifted(p, from, to) /\ OnlyPointers(p)
  BY RegsAre DEF Shifted, At, KeepsAllBut, OnlyPointers, Pointers

(* The steps of ilock, iput and itrunc. *)
LEMMA InnerSteps ==
  ASSUME Domains, NEW p \in Procs,
         ILock(p) \/ IPut(p) \/ IPutFree(p) \/ IPutInvalid(p) \/ IPutDrop(p)
           \/ ITrunc(p) \/ ITruncEnd(p)
  PROVE  Steps(p)
<1>1. op' = op
  BY DEF ILock, IPut, IPutFree, IPutInvalid, IPutDrop, ITrunc, ITruncEnd, Panic, args
<1>2. CASE ILock(p)
  BY <1>1, <1>2, PlaceSteps, StillSteps, OnlySteps DEF ILock, Panic, StepOf, InnerStep, Takes,
    Stops, cache
<1>3. CASE IPut(p)
  BY <1>1, <1>3, PlaceSteps, StillSteps, OnlySteps DEF IPut, StepOf, InnerStep, Takes
<1>4. CASE IPutFree(p)
  BY <1>1, <1>4, PlaceSteps, StillSteps, OnlySteps DEF IPutFree, StepOf, InnerStep
<1>5. CASE IPutInvalid(p)
  BY <1>1, <1>5, PlaceSteps, StillSteps, OnlySteps DEF IPutInvalid, StepOf, InnerStep, Gives
<1>6. CASE IPutDrop(p)
  <2>1. Dropped(p) /\ OnlyPointers(p)
    BY <1>6, RegsAre, Constants DEF IPutDrop, Dropped, OnlyPointers, Domains, KeepsAllBut, At, Pointers
  <2> QED BY <1>1, <1>6, <2>1, PlaceSteps, OnlySteps DEF IPutDrop, StepOf, InnerStep
<1>7. CASE ITrunc(p)
  BY <1>1, <1>7, PlaceSteps, StillSteps, OnlySteps DEF ITrunc, Panic, StepOf, InnerStep, Stops, cache
<1>8. CASE ITruncEnd(p)
  BY <1>1, <1>8, PlaceSteps, StillSteps, OnlySteps DEF ITruncEnd, StepOf, InnerStep
<1> QED BY <1>2, <1>3, <1>4, <1>5, <1>6, <1>7, <1>8

(* The steps of readi, writei and bmap. *)
LEMMA FileSteps ==
  ASSUME Domains, NEW p \in Procs,
         BMap(p) \/ BZero(p) \/ CopyUnit(p) \/ ReadI(p) \/ WriteI(p) \/ ReadWriteEnd(p)
  PROVE  Steps(p)
<1>1. op' = op
  BY DEF BMap, BAlloc, BZero, CopyUnit, ReadI, WriteI, Transfer, Refused, ReadWriteEnd,
    Panic, args
<1>2. CASE BMap(p)
  BY <1>1, <1>2, PlaceSteps, StillSteps, OnlySteps DEF BMap, BAlloc, Panic, StepOf, FileStep,
    Stops, cache
<1>3. CASE BZero(p)
  BY <1>1, <1>3, PlaceSteps, StillSteps, OnlySteps DEF BZero, StepOf, FileStep
<1>4. CASE CopyUnit(p)
  BY <1>1, <1>4, PlaceSteps, StillSteps, OnlySteps DEF CopyUnit, StepOf, FileStep, cache
<1>5. CASE ReadI(p) \/ WriteI(p)
  BY <1>1, <1>5, PlaceSteps, StillSteps, OnlySteps DEF ReadI, WriteI, Transfer, Refused,
    IUnlock, StepOf, FileStep, cache, Gives, File
<1>6. CASE ReadWriteEnd(p)
  BY <1>1, <1>6, PlaceSteps, StillSteps, OnlySteps DEF ReadWriteEnd, IUnlock, StepOf,
    FileStep, Gives, File
<1> QED BY <1>2, <1>3, <1>4, <1>5, <1>6

(* iget of a pointer. *)
LEMMA IGetSteps ==
  ASSUME Domains, Counted, NEW p \in Procs, NEW r \in Regs, NEW i, IGet(p, r, i),
         panic = "none"
  PROVE  Got(p, r, i) /\ OnlyPointers(p) /\ lock' = lock
<1>1. CASE panic' = "iget: no inodes" /\ UNCHANGED <<cache, ptr>>
  BY <1>1, StillSteps DEF Got, Still, KeepsAllBut, cache
<1>2. ASSUME NEW s \in Slots, ptr' = [ptr EXCEPT ![<<p, r>>] = s]
      PROVE  At(p, r)' = s /\ KeepsAllBut(p, {r}) /\ OnlyPointers(p)
  BY <1>2 DEF Domains, KeepsAllBut, OnlyPointers, At, Pointers
<1>3. ref \in [Slots -> Nat] /\ DOMAIN inum = Slots
  BY DEF Counted, CountedTypes
<1>4. CASE Cached(i) # {}
  <2> DEFINE s == Least(Cached(i))
  <2>1. s \in Slots /\ ref[s] > 0 /\ inum[s] = i
    BY <1>4, LeastIsIn DEF Cached
  <2>2. /\ ref' = [ref EXCEPT ![s] = @ + 1] /\ ptr' = [ptr EXCEPT ![<<p, r>>] = s]
        /\ UNCHANGED <<inum, valid, lock, copy, panic>>
    BY <1>4 DEF IGet
  <2> HIDE DEF s
  <2> QED BY <1>2, <2>1, <2>2 DEF Got
<1>5. CASE Cached(i) = {} /\ Empty # {}
  <2> DEFINE s == Least(Empty)
  <2>1. s \in Slots /\ ref[s] = 0
    BY <1>5, LeastIsIn DEF Empty
  <2>2. /\ ref' = [ref EXCEPT ![s] = 1] /\ ptr' = [ptr EXCEPT ![<<p, r>>] = s]
        /\ inum' = [inum EXCEPT ![s] = i] /\ valid' = [valid EXCEPT ![s] = FALSE]
        /\ UNCHANGED <<lock, copy, panic>>
    BY <1>5 DEF IGet
  <2> HIDE DEF s
  <2>3. ref' = [ref EXCEPT ![s] = @ + 1] /\ inum'[s] = i
    BY <1>3, <2>1, <2>2
  <2> QED BY <1>2, <1>5, <2>1, <2>2, <2>3 DEF Got
<1> QED BY <1>1, <1>4, <1>5 DEF IGet

(* The steps of namex. *)
LEMMA PathSteps ==
  ASSUME Domains, RefInv, NEW p \in Procs, panic = "none",
         NamexStart(p) \/ Namex(p) \/ NamexLocked(p) \/ NamexStep(p)
  PROVE  Steps(p)
<1>1. op' = op /\ Counted
  BY RefInvCounts DEF NamexStart, Namex, NamexLocked, NamexStep, args
<1>2. CASE NamexStart(p)
  <2>1. CASE IGet(p, "at", ROOTINO)
    BY <1>1, <1>2, <2>1, PlaceSteps, RegsAre, IGetSteps, OnlySteps DEF NamexStart, StepOf,
      PathStep
  <2>2. CASE IDup(p, "at", At(p, "cwd")) /\ UNCHANGED panic
    <3>1. Doubled(p, "at", "cwd") /\ OnlyPointers(p) /\ lock' = lock
      BY <2>2, RegsAre DEF IDup, Doubled, OnlyPointers, Domains, KeepsAllBut, At, Pointers
    <3> QED BY <1>1, <1>2, <3>1, PlaceSteps, OnlySteps DEF NamexStart, StepOf, PathStep
  <2> QED BY <1>2, <2>1, <2>2 DEF NamexStart
<1>3. CASE Namex(p)
  BY <1>1, <1>3, PlaceSteps, StillSteps, MovedSteps, RegsAre, OnlySteps DEF Namex, StepOf,
    PathStep, cache
<1>4. CASE NamexLocked(p)
  <2>1. CASE IUnlockPut(p, "at", NoInode(p))
    BY <1>1, <1>4, <2>1, PlaceSteps, MovedSteps, RegsAre, OnlySteps DEF NamexLocked,
      IUnlockPut, IUnlock, StepOf, PathStep, GivesPut, Gives
  <2>2. CASE /\ copy[At(p, "at")].type = "dir" /\ WantsParent(p)
             /\ lock' = Unlocked(p, At(p, "at")) /\ ptr' = Move(p, "at", "dp")
             /\ CallILock(p, "dp", AfterNamex(p))
             /\ UNCHANGED <<inum, ref, valid, copy>>
    BY <1>1, <1>4, <2>2, PlaceSteps, MovedSteps, RegsAre, OnlySteps DEF NamexLocked,
      StepOf, PathStep, Gives
  <2>3. CASE Lookup(name[p]) # {} /\ DirLookup(p, "next") /\ GoToNext(p)
    BY <1>1, <1>4, <2>3, PlaceSteps, IGetSteps, RegsAre, OnlySteps DEF NamexLocked,
      DirLookup, GoToNext, StepOf, PathStep, Found
  <2> QED BY <1>4, <2>1, <2>2, <2>3 DEF NamexLocked, IUnlock
<1>5. CASE NamexStep(p)
  <2>1. Shifted(p, "at", "at") /\ OnlyPointers(p)
    <3>1. /\ ptr'[<<p, "put">>] = At(p, "at") /\ ptr'[<<p, "at">>] = At(p, "next")
          /\ ptr'[<<p, "next">>] = 0
          /\ \A x \in Pointers : x \notin {<<p, y>> : y \in {"put", "next", "at"}} => ptr'[x] = ptr[x]
      BY <1>5, RegsAre DEF NamexStep, Domains, Pointers, At
    <3> QED BY <1>5, <3>1, ShiftedSteps DEF NamexStep
  <2> QED BY <1>1, <1>5, <2>1, PlaceSteps, OnlySteps DEF NamexStep, IUnlock, StepOf, PathStep, Gives
<1> QED BY <1>2, <1>3, <1>4, <1>5

(* iunlockput gives a lock up and moves the pointer to put. *)
LEMMA UnlockPutSteps ==
  ASSUME Domains, NEW p \in Procs, NEW r \in Regs, r # "put", NEW l, IUnlockPut(p, r, l),
         op' = op
  PROVE  GivesPut(p, r, l) /\ OnlyPlaces(p) /\ OnlyPointers(p)
  BY PlaceSteps, MovedSteps, RegsAre DEF IUnlockPut, IUnlock, GivesPut, Gives

(* The steps of a call that has the directory. *)
LEMMA DirectorySteps ==
  ASSUME Domains, RefInv, NEW p \in Procs, panic = "none",
         \/ CreateParent(p) \/ CreateFound(p) \/ IAlloc(p) \/ IAllocGet(p) \/ CreateInit(p)
         \/ DirLink(p) \/ DirLinkFound(p) \/ DirLinkFailed(p) \/ Linked(p)
         \/ UnlinkParent(p) \/ UnlinkLocked(p)
  PROVE  Steps(p)
<1>1. op' = op /\ Counted
  BY RefInvCounts DEF CreateParent, CreateFound, IAlloc, IAllocGet, CreateInit, DirLink,
    DirLinkFound, DirLinkFailed, Linked, UnlinkParent, UnlinkLocked, Panic, args
<1>2. CASE CreateParent(p)
  BY <1>1, <1>2, PlaceSteps, IGetSteps, StillSteps, RegsAre, OnlySteps DEF CreateParent,
    DirLookup, Panic, StepOf, DirectoryStep, Stops, Found, cache
<1>3. CASE CreateFound(p)
  <2>1. Shifted(p, "dp", "ip") /\ OnlyPointers(p)
    <3>1. /\ ptr'[<<p, "put">>] = At(p, "dp") /\ ptr'[<<p, "ip">>] = At(p, "next")
          /\ ptr'[<<p, "next">>] = 0 /\ ptr'[<<p, "dp">>] = 0
          /\ \A x \in Pointers : x \notin {<<p, y>> : y \in {"put", "next", "dp", "ip"}} => ptr'[x] = ptr[x]
      BY <1>3, RegsAre DEF CreateFound, Domains, Pointers, At
    <3> QED BY <1>3, <3>1, ShiftedSteps DEF CreateFound
  <2> QED BY <1>1, <1>3, <2>1, PlaceSteps, OnlySteps DEF CreateFound, IUnlock, StepOf, DirectoryStep, Gives
<1>4. CASE IAlloc(p)
  BY <1>1, <1>4, PlaceSteps, StillSteps, OnlySteps DEF IAlloc, Panic, StepOf, DirectoryStep,
    Stops, cache
<1>5. CASE IAllocGet(p)
  BY <1>1, <1>5, PlaceSteps, IGetSteps, RegsAre, OnlySteps DEF IAllocGet, StepOf, DirectoryStep
<1>6. CASE CreateInit(p)
  BY <1>1, <1>6, PlaceSteps, StillSteps, OnlySteps DEF CreateInit, StepOf, DirectoryStep
<1>7. CASE DirLink(p)
  BY <1>1, <1>7, PlaceSteps, IGetSteps, StillSteps, RegsAre, OnlySteps DEF DirLink,
    DirLookup, Panic, StepOf, DirectoryStep, Stops, Found, cache
<1>8. CASE DirLinkFound(p)
  BY <1>1, <1>8, PlaceSteps, MovedSteps, RegsAre, OnlySteps DEF DirLinkFound, StepOf,
    DirectoryStep, cache
<1>9. CASE DirLinkFailed(p) \/ Linked(p) \/ UnlinkLocked(p)
  BY <1>1, <1>9, UnlockPutSteps, RegsAre, OnlySteps, PlaceSteps, StillSteps DEF DirLinkFailed, Linked,
    UnlinkLocked, Panic, StepOf, DirectoryStep, Stops, cache
<1>10. CASE UnlinkParent(p)
  BY <1>1, <1>10, UnlockPutSteps, RegsAre, OnlySteps, PlaceSteps, IGetSteps, StillSteps
    DEF UnlinkParent, DirLookup, Panic, StepOf, DirectoryStep, Stops, Found, cache
<1> QED BY <1>2, <1>3, <1>4, <1>5, <1>6, <1>7, <1>8, <1>9, <1>10

(* The steps of a call that has its inode. *)
LEMMA InodeSteps ==
  ASSUME Domains, NEW p \in Procs,
         \/ OpenLocked(p) \/ CreateExists(p) \/ DropLink(p) \/ LinkLocked(p)
         \/ LinkBad(p) \/ LinkDone(p)
  PROVE  Steps(p)
<1>1. op' = op
  BY DEF OpenLocked, CreateExists, DropLink, LinkLocked, LinkBad, LinkDone, args
<1>2. CASE OpenLocked(p)
  BY <1>1, <1>2, UnlockPutSteps, MovedSteps, PlaceSteps, RegsAre, OnlySteps DEF OpenLocked,
    IUnlock, StepOf, InodeStep, Gives
<1>3. CASE CreateExists(p) \/ LinkBad(p)
  BY <1>1, <1>3, PlaceSteps, StillSteps, OnlySteps DEF CreateExists, LinkBad, StepOf,
    InodeStep, cache
<1>4. CASE DropLink(p)
  BY <1>1, <1>4, PlaceSteps, MovedSteps, RegsAre, OnlySteps DEF DropLink, IUnlock, StepOf,
    InodeStep, GivesPut, Gives
<1>5. CASE LinkLocked(p)
  BY <1>1, <1>5, UnlockPutSteps, StillSteps, PlaceSteps, RegsAre, OnlySteps DEF LinkLocked,
    IUnlock, StepOf, InodeStep, Gives
<1>6. CASE LinkDone(p)
  BY <1>1, <1>6, PlaceSteps, MovedSteps, RegsAre, OnlySteps DEF LinkDone, StepOf, InodeStep,
    cache
<1> QED BY <1>2, <1>3, <1>4, <1>5, <1>6

(* A call begins. *)
LEMMA CallSteps ==
  ASSUME Domains, NEW p \in Procs, Call(p)
  PROVE  Steps(p)
<1>1. PICK c \in Calls :
        /\ pc[p] = "user" /\ At(p, "cwd") # 0 /\ op' = [op EXCEPT ![p] = c]
        /\ ref' = ref /\ inum' = inum /\ lock' = lock
        /\ \/ /\ c \in {"open", "create", "unlink", "link"}
              /\ c \in {"open", "create"} => At(p, "fd") = 0
              /\ Step(p, "namex_start") /\ ptr' = ptr
           \/ /\ c \in {"read", "write"} /\ At(p, "fd") # 0
              /\ CallILock(p, "fd", "rw_locked") /\ ptr' = ptr
           \/ /\ c = "close" /\ At(p, "fd") # 0
              /\ ptr' = Move(p, "fd", "put") /\ CallIPut(p, "return")
           \/ /\ c = "exit" /\ At(p, "fd") = 0
              /\ ptr' = Move(p, "cwd", "put") /\ CallIPut(p, "return")
  BY DEF Call, Idle, Alive, cache
<1>2. op'[p] = c /\ OnlyPlaces(p)
  BY <1>1 DEF Domains, PlaceDomains, Step, CallILock, CallIPut, Goto, OnlyPlaces
<1>3. /\ Step(p, "namex_start") => Go(p, "namex_start")
      /\ CallILock(p, "fd", "rw_locked") => GoILock(p, "fd", "rw_locked")
      /\ CallIPut(p, "return") => GoIPut(p, "return")
  BY DEF Domains, PlaceDomains, Step, CallILock, CallIPut, Goto, Go, GoILock, GoIPut
<1>4. /\ ptr' = ptr => Still(p) /\ OnlyPointers(p)
      /\ \A r \in {"fd", "cwd"} :
           ptr' = Move(p, r, "put") => Moved(p, r, "put") /\ OnlyPointers(p)
  BY <1>1, StillSteps, MovedSteps, RegsAre
<1>5. CallStep(p) /\ OnlyPointers(p)
  BY <1>1, <1>2, <1>3, <1>4 DEF CallStep
<1> QED BY <1>2, <1>5, OnlySteps DEF StepOf

(* A call returns. *)
LEMMA ReturnSteps ==
  ASSUME Domains, NEW p \in Procs, Return(p)
  PROVE  Steps(p)
<1>1. /\ pc[p] = "return" /\ UNCHANGED <<cache, ptr>>
      /\ pc' = [pc EXCEPT ![p] = "user"] /\ ret' = [ret EXCEPT ![p] = "user"]
      /\ which' = [which EXCEPT ![p] = "cwd"] /\ op' = [op EXCEPT ![p] = "none"]
  BY Zenon DEF Return, Goto
<1>2. Still(p) /\ OnlyPointers(p) /\ lock' = lock
  BY <1>1, StillSteps DEF cache
<1>3. OnlyPlaces(p) /\ ReturnStep(p)
  BY <1>1, <1>2 DEF OnlyPlaces, ReturnStep, Domains, PlaceDomains
<1> QED BY <1>2, <1>3, OnlySteps DEF StepOf

(* Whatever a process does is one of these steps. *)
LEMMA CallsStep ==
  ASSUME Domains, RefInv, NEW p \in Procs, panic = "none", Inside(p) \/ Call(p)
  PROVE  Steps(p)
  BY InnerSteps, FileSteps, PathSteps, DirectorySteps, InodeSteps, CallSteps, ReturnSteps, Zenon
    DEF Inside

------------------------------------------------------------------------------
(* Who holds which lock: a process has exactly the locks that its place    *)
(* says, each by one register.                                             *)

(* However a step takes or gives locks, the processes have those they      *)
(* should have.                                                            *)
LEMMA LockStepKeeps ==
  ASSUME LockInv, NEW p \in Procs, LockStep(p)
  PROVE  /\ lock' \in [Slots -> SUBSET Procs] /\ OneHolder' /\ HoldsFit(p)'
         /\ \A q \in Procs \ {p}, s \in Slots : q \in lock'[s] <=> q \in lock[s]
<1>1. lock \in [Slots -> SUBSET Procs] /\ OneHolder /\ HoldsFit(p)
  BY DEF LockInv, Types
<1>2. CASE LockKeeps(p)
  BY <1>1, <1>2 DEF LockKeeps, OneHolder, HoldsFit
<1>3. ASSUME NEW r \in Regs, LockTakes(p, r)
      PROVE  /\ lock' \in [Slots -> SUBSET Procs] /\ OneHolder' /\ HoldsFit(p)'
             /\ \A q \in Procs \ {p}, s \in Slots : q \in lock'[s] <=> q \in lock[s]
  <2> DEFINE t == At(p, r)
  <2>1. /\ t \in Slots /\ lock[t] = {} /\ lock' = [lock EXCEPT ![t] = {p}]
        /\ \A x \in Regs : /\ Holds(p, x)' <=> Holds(p, x) \/ x = r
                           /\ Holds(p, x) \/ x = r => At(p, x)' = At(p, x)
    BY <1>3 DEF LockTakes
  <2>2. \A x \in Regs : Holds(p, x) => At(p, x) \in Slots /\ At(p, x) # t
    BY <1>1, <2>1 DEF HoldsFit
  <2> HIDE DEF t
  <2>3. /\ lock' \in [Slots -> SUBSET Procs] /\ OneHolder'
        /\ \A q \in Procs \ {p}, s \in Slots : q \in lock'[s] <=> q \in lock[s]
    BY <1>1, <2>1 DEF OneHolder
  <2>4. HoldsFit(p)'
    <3>1. At(p, r)' = t
      BY <2>1 DEF t
    <3>2. QED
      BY <1>1, <2>1, <2>2, <3>1 DEF HoldsFit
  <2> QED BY <2>3, <2>4
<1>4. ASSUME NEW r \in Regs, LockGives(p, r)
      PROVE  /\ lock' \in [Slots -> SUBSET Procs] /\ OneHolder' /\ HoldsFit(p)'
             /\ \A q \in Procs \ {p}, s \in Slots : q \in lock'[s] <=> q \in lock[s]
  <2> DEFINE t == At(p, r)
  <2>1. /\ Holds(p, r) /\ lock' = [lock EXCEPT ![t] = lock[t] \ {p}] /\ t \in Slots
        /\ \A x \in Regs : /\ Holds(p, x)' <=> Holds(p, x) /\ x # r
                           /\ Holds(p, x) /\ x # r => At(p, x)' = At(p, x)
    BY <1>1, <1>4 DEF LockGives, Unlocked, HoldsFit
  <2>2. \A x \in Regs : Holds(p, x) /\ x # r => At(p, x) # t
    BY <1>1, <2>1 DEF HoldsFit
  <2>3. \A s \in Slots : p \in lock[s] => s = t \/ \E x \in Regs : Holds(p, x) /\ At(p, x) = s /\ x # r
    BY <1>1 DEF HoldsFit
  <2> HIDE DEF t
  <2>4. /\ lock' \in [Slots -> SUBSET Procs] /\ OneHolder'
        /\ \A q \in Procs \ {p}, s \in Slots : q \in lock'[s] <=> q \in lock[s]
    BY <1>1, <2>1 DEF OneHolder
  <2>5. HoldsFit(p)'
    BY <1>1, <2>1, <2>2, <2>3 DEF HoldsFit
  <2> QED BY <2>4, <2>5
<1> QED BY <1>2, <1>3, <1>4 DEF LockStep

(* The invariants give the domains that the steps need. *)
LEMMA LockDomains == RefInv /\ LockInv => Domains
  BY DEF RefInv, Types, LockInv, Domains, PlaceDomains

(* The steps of ilock and iput. *)
LEMMA InnerLocks ==
  ASSUME RefInv, LockInv, NEW p \in Procs, panic = "none", op'[p] = op[p], InnerStep(p)
  PROVE  LockStep(p) /\ PlacesFit(p)' /\ WhichFits(p)' /\ NonNull(p)'
<1>1. OpsFit(p) /\ NullsFit(p) /\ PlacesFit(p) /\ WhichFits(p) /\ NonNull(p)
  BY DEF RefInv, LockInv
<1>2. \A x \in Regs : At(p, x) # 0 => At(p, x) \in Slots
  BY Constants DEF RefInv, Types, At, Pointers, Slots
<1>3. PlacesFit(p)' /\ WhichFits(p)' /\ NonNull(p)'
  BY <1>1, RegsAre DEF InnerStep, Go, Still, Dropped, KeepsAllBut, OpsFit, PlacesFit, WhichFits, NonNull,
    Where, Inner, Putting, UsesAt, UsesNext, UsesDp, LocksIp, LinksIp, Copies
<1> DEFINE Alike == \A x \in Regs : At(p, x)' = At(p, x)
<1>4. ASSUME pc[p] = "ilock" PROVE LockStep(p)
  <2>1. /\ Alike /\ Go(p, ret[p]) /\ At(p, which[p]) # 0 /\ Takes(p, which[p])
    BY <1>4 DEF InnerStep, Still, KeepsAllBut, Putting
  <2>2. which[p] \in Regs /\ ret[p] \notin Inner
    BY <1>1, <1>4, RegsAre DEF WhichFits, OpsFit
  <2>3. \A x \in Regs : Holds(p, x)' <=> Holds(p, x) \/ x = which[p]
    BY <1>1, <1>4, <2>1, <2>2 DEF Go, WhichFits, Holds, LocksIp, LinksIp,
      Copies, Frees, Where, Inner, Putting, UsesDp
  <2> QED BY <1>2, <2>1, <2>2, <2>3 DEF LockStep, LockTakes, Takes
<1>5. ASSUME pc[p] = "iput" PROVE LockStep(p)
  <2>1. /\ Alike
        /\ \/ Go(p, "itrunc") /\ Takes(p, "put")
           \/ Go(p, "iput_drop") /\ lock' = lock
    BY <1>5 DEF InnerStep, Still, KeepsAllBut
  <2>2. At(p, "put") \in Slots
    BY <1>1, <1>2, <1>5, RegsAre DEF NonNull, Putting
  <2>3. \A x \in Regs : IF pc'[p] = "itrunc" THEN Holds(p, x)' <=> Holds(p, x) \/ x = "put"
                        ELSE Holds(p, x)' <=> Holds(p, x)
    BY <1>1, <1>5, <2>1 DEF Go, Holds, Copies, Frees, Where, Inner, Putting
  <2> QED BY <2>1, <2>2, <2>3, RegsAre DEF LockStep, LockTakes, LockKeeps, Takes, Go
<1>6. ASSUME pc[p] \in Frees PROVE LockStep(p)
  <2>1. /\ Alike
        /\ \/ lock' = lock /\ \E l \in Frees : Go(p, l)
           \/ Go(p, "iput_drop") /\ Gives(p, "put")
    BY <1>6 DEF InnerStep, Still, KeepsAllBut, Frees
  <2>2. \A x \in Regs : IF pc'[p] = "iput_drop" THEN Holds(p, x)' <=> Holds(p, x) /\ x # "put"
                        ELSE Holds(p, x)' <=> Holds(p, x)
    BY <1>1, <1>6, <2>1 DEF Go, Holds, Copies, Frees, Where, Inner, Putting
  <2>3. Holds(p, "put")
    BY <1>6 DEF Holds
  <2> QED BY <2>1, <2>2, <2>3, RegsAre DEF LockStep, LockGives, LockKeeps, Gives, Go, Frees
<1>7. ASSUME pc[p] = "iput_drop" PROVE LockStep(p)
  <2>1. lock' = lock /\ Go(p, ret[p]) /\ KeepsAllBut(p, {"put"})
    BY <1>7 DEF InnerStep, Dropped
  <2>2. \A x \in Regs : (Holds(p, x)' <=> Holds(p, x)) /\ (Holds(p, x) => x # "put")
    BY <1>1, <1>7, <2>1 DEF Go, PlacesFit, OpsFit, Holds, LocksIp, LinksIp, Copies, Frees, Where, Inner, Putting
  <2> QED BY <2>1, <2>2 DEF LockStep, LockKeeps, KeepsAllBut
<1> QED BY <1>3, <1>4, <1>5, <1>6, <1>7 DEF InnerStep, Frees

(* The steps of readi, writei and their caller. *)
LEMMA FileLocks ==
  ASSUME RefInv, LockInv, NEW p \in Procs, panic = "none", op'[p] = op[p], FileStep(p)
  PROVE  LockStep(p) /\ PlacesFit(p)' /\ WhichFits(p)' /\ NonNull(p)'
<1>1. OpsFit(p) /\ NullsFit(p) /\ PlacesFit(p) /\ WhichFits(p) /\ NonNull(p)
  BY DEF RefInv, LockInv
<1>2. PlacesFit(p)' /\ WhichFits(p)' /\ NonNull(p)'
  BY <1>1, RegsAre DEF FileStep, Go, Still, KeepsAllBut, PlacesFit, WhichFits, NonNull,
    Where, Inner, Putting, UsesAt, UsesNext, UsesDp, LocksIp, LinksIp, Copies
<1>3. /\ \A x \in Regs : At(p, x)' = At(p, x)
      /\ \/ lock' = lock /\ \A x \in Regs : Holds(p, x)' <=> Holds(p, x)
         \/ /\ Gives(p, "fd") /\ Holds(p, "fd")
            /\ \A x \in Regs : Holds(p, x)' <=> Holds(p, x) /\ x # "fd"
  BY <1>1 DEF FileStep, Go, Still, KeepsAllBut, Holds, LocksIp, LinksIp, Copies, Frees,
    Where, Inner, Putting, UsesDp
<1> QED BY <1>2, <1>3, RegsAre DEF LockStep, LockKeeps, LockGives, Gives

(* The steps of namex give up the lock of the directory they leave. *)
LEMMA PathLocks ==
  ASSUME RefInv, LockInv, NEW p \in Procs, panic = "none", op'[p] = op[p], PathStep(p)
  PROVE  /\ LockStep(p) /\ PlacesFit(p)' /\ WhichFits(p)'
         /\ panic' = "none" => NonNull(p)'
<1>1. OpsFit(p) /\ NullsFit(p) /\ PlacesFit(p) /\ WhichFits(p) /\ NonNull(p)
  BY DEF RefInv, LockInv
<1>2. pc[p] \in {"namex", "namex_locked"} =>
      \/ AfterNamex(p) = "create_parent" /\ op[p] = "create" /\ WantsParent(p)
      \/ AfterNamex(p) = "unlink_parent" /\ op[p] = "unlink" /\ WantsParent(p)
      \/ AfterNamex(p) = "dirlink" /\ op[p] = "link" /\ WantsParent(p) /\ At(p, "ip") # 0
      \/ AfterNamex(p) = "link_locked" /\ op[p] = "link" /\ ~WantsParent(p)
      \/ AfterNamex(p) = "open_locked" /\ op[p] = "open" /\ ~WantsParent(p)
  BY <1>1 DEF OpsFit, NamexSteps, Where, Inner, Putting, AfterNamex, WantsParent
<1>3. \/ NoInode(p) = "return"
      \/ NoInode(p) = "link_bad" /\ op[p] = "link" /\ At(p, "ip") # 0
  BY DEF NoInode
<1> HIDE DEF AfterNamex, WantsParent, NoInode
<1>4. PlacesFit(p)' /\ WhichFits(p)'
  BY <1>1, <1>2, <1>3 DEF PathStep, Go, GoILock, GoIPut, GivesPut, PlacesFit, WhichFits,
    Where, Inner, Putting, LocksIp, LinksIp, Copies
<1>5. panic' = "none" => NonNull(p)'
  BY <1>1, <1>2, <1>3, RegsAre DEF PathStep, Go, GoILock, GoIPut, GivesPut, Got, Doubled, Found,
    Moved, Shifted, Still, KeepsAllBut, NonNull, Slots,
    Where, Inner, Putting, UsesAt, UsesNext, UsesDp, LocksIp, LinksIp, Copies
<1>6. ASSUME pc[p] \in {"namex_start", "namex"} PROVE LockStep(p)
  <2>1. lock' = lock /\ KeepsAllBut(p, {"at", "ip", "put"})
    BY <1>6 DEF PathStep, Got, Doubled, Moved, Still, KeepsAllBut
  <2>2. \A x \in Regs : ~Holds(p, x) /\ ~Holds(p, x)'
    BY <1>1, <1>2, <1>3, <1>6 DEF PathStep, Go, GoILock, GoIPut, Holds, LocksIp, LinksIp, Copies,
      Frees, Where, Inner, Putting, UsesDp
  <2> QED BY <2>1, <2>2 DEF LockStep, LockKeeps
<1>7. ASSUME pc[p] \in {"namex_locked", "namex_step"} PROVE LockStep(p)
  <2>1. \A x \in Regs : Holds(p, x) <=> x = "at"
    BY <1>7, RegsAre DEF Holds, LocksIp, LinksIp, Copies, Frees, Where, Inner, Putting, UsesDp
  <2>2. \/ Gives(p, "at") /\ \A x \in Regs : ~Holds(p, x)'
        \/ /\ lock' = lock /\ KeepsAllBut(p, {"next"})
           /\ \A x \in Regs : Holds(p, x)' <=> x = "at"
    BY <1>1, <1>2, <1>3, <1>7, RegsAre DEF PathStep, Go, GoILock, GoIPut, GivesPut, Found, Got,
      Holds, LocksIp, LinksIp, Copies, Frees, Where, Inner, Putting, UsesDp
  <2>3. ASSUME Gives(p, "at"), \A x \in Regs : ~Holds(p, x)' PROVE LockGives(p, "at")
    BY <2>1, <2>3, RegsAre DEF LockGives, Gives
  <2>4. ASSUME lock' = lock, KeepsAllBut(p, {"next"}), \A x \in Regs : Holds(p, x)' <=> x = "at"
        PROVE  LockKeeps(p)
    BY <2>1, <2>4 DEF LockKeeps, KeepsAllBut
  <2> QED BY <2>2, <2>3, <2>4, RegsAre DEF LockStep
<1> QED BY <1>4, <1>5, <1>6, <1>7 DEF PathStep

(* A call gives up the lock of the directory, or keeps what it has.        *)
LEMMA DirectoryLocks ==
  ASSUME RefInv, LockInv, NEW p \in Procs, panic = "none", op'[p] = op[p], DirectoryStep(p)
  PROVE  /\ LockStep(p) /\ PlacesFit(p)' /\ WhichFits(p)'
         /\ panic' = "none" => NonNull(p)'
<1>1. OpsFit(p) /\ NullsFit(p) /\ PlacesFit(p) /\ WhichFits(p) /\ NonNull(p)
  BY DEF RefInv, LockInv
<1>2. PlacesFit(p)' /\ WhichFits(p)'
  BY <1>1 DEF DirectoryStep, Go, GoILock, GoIPut, GivesPut, OpsFit, PlacesFit, WhichFits,
    Creates, Where, Inner, Putting, LocksIp, LinksIp, Copies
<1>3. panic' = "none" => NonNull(p)'
  BY <1>1, RegsAre DEF DirectoryStep, Go, GoILock, GoIPut, GivesPut, Got, Found,
    Moved, Shifted, Still, KeepsAllBut, NonNull, Slots,
    Where, Inner, Putting, UsesAt, UsesNext, UsesDp, LocksIp, LinksIp, Copies
<1>4. Where(p) \in UsesDp /\ pc[p] # "ilock" /\ Where(p) = pc[p]
  BY DEF DirectoryStep, Where, Inner, Putting, UsesDp
<1>5. Holds(p, "dp") /\ \A x \in Regs : Holds(p, x) => x \in {"dp", "ip"}
  BY <1>4 DEF Holds, Copies, Frees, UsesDp
<1>6. \A x \in Regs : Holds(p, x) /\ Holds(p, x)' => At(p, x)' = At(p, x)
  BY <1>1, <1>4, <1>5 DEF DirectoryStep, Go, GoILock, GoIPut, GivesPut, Found, Got, Moved, Shifted,
    Still, KeepsAllBut, OpsFit, Creates,
    Holds, LocksIp, LinksIp, Copies, Frees, Where, Inner, Putting, UsesDp
<1>7. \/ Gives(p, "dp") /\ \A x \in Regs : Holds(p, x)' <=> Holds(p, x) /\ x # "dp"
      \/ lock' = lock /\ \A x \in Regs : Holds(p, x)' <=> Holds(p, x)
  BY <1>1, <1>4, RegsAre DEF DirectoryStep, Go, GoILock, GoIPut, GivesPut, Found, Got,
    OpsFit, PlacesFit, Creates,
    Holds, LocksIp, LinksIp, Copies, Frees, Where, Inner, Putting, UsesDp
<1>8. ASSUME Gives(p, "dp"), \A x \in Regs : Holds(p, x)' <=> Holds(p, x) /\ x # "dp"
      PROVE  LockGives(p, "dp")
  BY <1>5, <1>6, <1>8 DEF LockGives, Gives
<1>9. ASSUME lock' = lock, \A x \in Regs : Holds(p, x)' <=> Holds(p, x)
      PROVE  LockKeeps(p)
  BY <1>6, <1>9 DEF LockKeeps
<1> QED BY <1>2, <1>3, <1>7, <1>8, <1>9, RegsAre DEF LockStep

(* A call gives up the lock of its inode, or has none. *)
LEMMA InodeLocks ==
  ASSUME RefInv, LockInv, NEW p \in Procs, panic = "none", op'[p] = op[p], InodeStep(p)
  PROVE  LockStep(p) /\ PlacesFit(p)' /\ WhichFits(p)' /\ NonNull(p)'
<1>1. OpsFit(p) /\ NullsFit(p) /\ PlacesFit(p) /\ WhichFits(p) /\ NonNull(p)
  BY DEF RefInv, LockInv
<1>2. PlacesFit(p)' /\ WhichFits(p)' /\ NonNull(p)'
  BY <1>1, RegsAre DEF InodeStep, Go, GoILock, GoIPut, GivesPut, Gives, Moved, Still, KeepsAllBut,
    OpsFit, PlacesFit, WhichFits, NonNull,
    Where, Inner, Putting, UsesAt, UsesNext, UsesDp, LocksIp, LinksIp, Copies
<1>3. \A x \in Regs : ~Holds(p, x)'
  BY <1>1 DEF InodeStep, Go, GoILock, GoIPut, GivesPut,
    Holds, LocksIp, LinksIp, Copies, Frees, Where, Inner, Putting, UsesDp
<1>4. \/ lock' = lock /\ \A x \in Regs : ~Holds(p, x)
      \/ Gives(p, "ip") /\ \A x \in Regs : Holds(p, x) <=> x = "ip"
  BY RegsAre DEF InodeStep, GivesPut,
    Holds, LocksIp, LinksIp, Copies, Frees, Where, Inner, Putting, UsesDp
<1>5. ASSUME lock' = lock, \A x \in Regs : ~Holds(p, x) PROVE LockKeeps(p)
  BY <1>3, <1>5 DEF LockKeeps
<1>6. ASSUME Gives(p, "ip"), \A x \in Regs : Holds(p, x) <=> x = "ip" PROVE LockGives(p, "ip")
  BY <1>3, <1>6, RegsAre DEF LockGives, Gives
<1> QED BY <1>2, <1>4, <1>5, <1>6, RegsAre DEF LockStep

(* Outside of calls no lock is taken or given up. *)
LEMMA CallLocks ==
  ASSUME RefInv, LockInv, NEW p \in Procs, panic = "none", CallStep(p) \/ ReturnStep(p)
  PROVE  LockStep(p) /\ PlacesFit(p)' /\ WhichFits(p)' /\ NonNull(p)'
<1>1. OpsFit(p) /\ NullsFit(p) /\ PlacesFit(p) /\ WhichFits(p) /\ NonNull(p)
  BY DEF RefInv, LockInv
<1>2. PlacesFit(p)' /\ WhichFits(p)' /\ NonNull(p)'
  BY <1>1, RegsAre DEF CallStep, ReturnStep, Go, GoILock, GoIPut, Moved, Still, KeepsAllBut,
    PlacesFit, WhichFits, NonNull,
    Where, Inner, Putting, UsesAt, UsesNext, UsesDp, LocksIp, LinksIp, Copies
<1>3. \A x \in Regs : ~Holds(p, x)' /\ ~Holds(p, x)
  BY DEF CallStep, ReturnStep, Go, GoILock, GoIPut,
    Holds, LocksIp, LinksIp, Copies, Frees, Where, Inner, Putting, UsesDp
<1>4. LockKeeps(p)
  BY <1>3 DEF LockKeeps, CallStep, ReturnStep
<1> QED BY <1>2, <1>4 DEF LockStep

(* Whatever a process does, the others' locks and places are as they were. *)
LEMMA OthersLocks ==
  ASSUME LockInv, NEW p \in Procs, Only(p), NEW q \in Procs \ {p},
         \A s \in Slots : q \in lock'[s] <=> q \in lock[s]
  PROVE  PlacesFit(q)' /\ WhichFits(q)' /\ HoldsFit(q)' /\ (NonNull(q) => NonNull(q)')
<1>1. /\ pc'[q] = pc[q] /\ ret'[q] = ret[q] /\ which'[q] = which[q] /\ op'[q] = op[q]
      /\ \A x \in Regs : At(q, x)' = At(q, x)
  BY DEF Only
<1>2. PlacesFit(q) /\ WhichFits(q) /\ HoldsFit(q)
  BY DEF LockInv
<1>3. Where(q)' = Where(q) /\ \A x \in Regs : Holds(q, x)' <=> Holds(q, x)
  BY <1>1 DEF Where, Holds
<1>4. PlacesFit(q)' /\ WhichFits(q)'
  BY <1>1, <1>2, <1>3 DEF PlacesFit, WhichFits
<1>5. HoldsFit(q)'
  BY <1>1, <1>2, <1>3 DEF HoldsFit
<1>6. NonNull(q) => NonNull(q)'
  BY <1>1, <1>3, RegsAre DEF NonNull
<1> QED BY <1>4, <1>5, <1>6

(* A step of a process keeps what is said of the locks of all of them. *)
LEMMA StepLocks ==
  ASSUME RefInv, LockInv, NEW p \in Procs, panic = "none", Steps(p)
  PROVE  LockInv'
<1>1. CASE Stops
  BY <1>1 DEF Stops, LockInv, cache, place, args, PlacesFit, WhichFits, HoldsFit, OneHolder,
    Holds, Where, At
<1>2. CASE ~Stops
  <2>1. LockStep(p) /\ PlacesFit(p)' /\ WhichFits(p)' /\ (panic' = "none" => NonNull(p)')
    BY <1>2, InnerLocks, FileLocks, PathLocks, DirectoryLocks, InodeLocks, CallLocks
      DEF Steps, StepOf
  <2>2. /\ lock' \in [Slots -> SUBSET Procs] /\ OneHolder' /\ HoldsFit(p)'
        /\ \A q \in Procs \ {p}, s \in Slots : q \in lock'[s] <=> q \in lock[s]
    BY <2>1, LockStepKeeps
  <2>3. \A q \in Procs \ {p} :
          PlacesFit(q)' /\ WhichFits(q)' /\ HoldsFit(q)' /\ NonNull(q)'
    BY <2>2, OthersLocks DEF Steps, LockInv
  <2>4. DOMAIN which' = Procs
    BY DEF Steps, PlaceDomains
  <2> QED BY <2>1, <2>2, <2>3, <2>4 DEF LockInv
<1> QED BY <1>1, <1>2

(* The child of a fork waits in no call. *)
LEMMA ForkLocks ==
  ASSUME RefInv, LockInv, NEW p \in Procs, panic = "none", Fork(p)
  PROVE  LockInv'
<1>1. PICK q \in Procs : pc[q] = "user" /\ At(q, "cwd") = 0 /\ IDup(q, "cwd", At(p, "cwd"))
  BY DEF Fork, Idle, Alive
<1>2. UNCHANGED <<lock, pc, ret, which, op, panic>>
  BY <1>1 DEF Fork, place, args, IDup
<1>3. \A u \in Procs, x \in Regs : <<u, x>> # <<q, "cwd">> => At(u, x)' = At(u, x)
  BY <1>1 DEF IDup, At, RefInv, Types, Pointers
<1>4. \A u \in Procs, x \in Regs : Holds(u, x)' <=> Holds(u, x)
  BY <1>2 DEF Holds, Where
<1>5. \A u \in Procs, x \in Regs : Holds(u, x) => At(u, x)' = At(u, x)
  BY <1>1, <1>3 DEF Holds, LocksIp, LinksIp, Copies, Frees, Where, Inner, Putting, UsesDp
<1>6. \A u \in Procs : PlacesFit(u)' /\ WhichFits(u)'
  BY <1>2 DEF LockInv, PlacesFit, WhichFits, Where
<1>7. \A u \in Procs : HoldsFit(u)'
  <2> TAKE u \in Procs
  <2>1. HoldsFit(u)
    BY DEF LockInv
  <2> QED BY <1>2, <1>4, <1>5, <2>1 DEF HoldsFit
<1>8. ASSUME NEW u \in Procs, NonNull(u) PROVE NonNull(u)'
  <2>1. Where(u)' = Where(u) /\ pc'[u] = pc[u]
    BY <1>2 DEF Where
  <2>2. CASE u # q
    <3>1. \A x \in Regs : At(u, x)' = At(u, x)
      BY <1>3, <2>2
    <3> QED BY <1>8, <2>1, <3>1, RegsAre DEF NonNull
  <2>3. CASE u = q
    BY <1>1, <2>1, <2>3 DEF NonNull, Where, Inner, Putting, UsesAt, UsesNext, UsesDp,
      LocksIp, LinksIp, Copies
  <2> QED BY <2>2, <2>3
<1> QED BY <1>2, <1>6, <1>7, <1>8 DEF LockInv, OneHolder

(* After a start nobody holds a lock, and no call is running. *)
LEMMA IdleLocks ==
  ASSUME DOMAIN pc = Procs, DOMAIN which = Procs, \A p \in Procs : pc[p] = "user",
         lock = [s \in Slots |-> {}]
  PROVE  LockInv
<1>1. \A p \in Procs, x \in Regs : ~Holds(p, x)
  BY DEF Holds, LocksIp, LinksIp, Copies, Frees, Where, Inner, Putting, UsesDp
<1>2. \A p \in Procs : PlacesFit(p) /\ WhichFits(p) /\ NonNull(p)
  BY DEF PlacesFit, WhichFits, NonNull, Where, Inner, Putting, UsesAt, UsesNext, UsesDp, LocksIp,
    LinksIp, Copies
<1>3. \A p \in Procs : HoldsFit(p)
  BY <1>1 DEF HoldsFit
<1> QED BY <1>2, <1>3 DEF LockInv, OneHolder

(* At first nobody holds a lock. *)
LEMMA InitLockInv == Init => LockInv
<1> SUFFICES ASSUME Init PROVE LockInv
  OBVIOUS
<1>1. BootCache /\ pc = [p \in Procs |-> "user"] /\ which = [p \in Procs |-> "cwd"]
  BY Zenon DEF Init
<1> QED BY <1>1, IdleLocks DEF BootCache

(* After a start nobody holds a lock. *)
LEMMA CrashLockInv ==
  ASSUME RefInv, LockInv, Crash
  PROVE  LockInv'
<1>1. /\ DOMAIN pc' = Procs /\ DOMAIN which' = Procs /\ \A p \in Procs : pc'[p] = "user"
      /\ lock' = [s \in Slots |-> {}]
  BY DEF Crash, Idle, place, RefInv, Types, LockInv
<1>2. \A p \in Procs, x \in Regs : ~Holds(p, x)'
  BY <1>1 DEF Holds, LocksIp, LinksIp, Copies, Frees, Where, Inner, Putting, UsesDp
<1>3. \A p \in Procs : PlacesFit(p)' /\ WhichFits(p)' /\ NonNull(p)'
  BY <1>1 DEF PlacesFit, WhichFits, NonNull, Where, Inner, Putting, UsesAt, UsesNext, UsesDp,
    LocksIp, LinksIp, Copies
<1>4. \A p \in Procs : HoldsFit(p)'
  BY <1>1, <1>2 DEF HoldsFit
<1> QED BY <1>1, <1>3, <1>4 DEF LockInv, OneHolder

(* Every step keeps who holds which lock. *)
LEMMA NextLockInv == RefInv /\ LockInv /\ [Next]_vars => LockInv'
<1> SUFFICES ASSUME RefInv, LockInv, [Next]_vars PROVE LockInv'
  OBVIOUS
<1>1. ASSUME NEW p \in Procs, panic = "none", Inside(p) \/ Call(p) PROVE LockInv'
  BY <1>1, LockDomains, CallsStep, StepLocks
<1>2. CASE UNCHANGED vars \/ \E p \in Procs : DirGrow(p)
  <2>1. UNCHANGED <<lock, ptr, pc, ret, which, op>> /\ (panic' = "none" => panic = "none")
    BY <1>2 DEF vars, DirGrow, Panic, cache, place, args
  <2>2. \A p \in Procs : Where(p)' = Where(p) /\ \A x \in Regs : At(p, x)' = At(p, x)
    BY <2>1 DEF Where, At
  <2>3. \A p \in Procs : PlacesFit(p)' /\ WhichFits(p)' /\ HoldsFit(p)'
    BY <2>1, <2>2 DEF LockInv, PlacesFit, WhichFits, HoldsFit, Holds
  <2>4. \A p \in Procs : NonNull(p) => NonNull(p)'
    BY <2>1, <2>2, RegsAre DEF NonNull
  <2> QED BY <2>1, <2>3, <2>4 DEF LockInv, OneHolder
<1> QED BY <1>1, <1>2, ForkLocks, CrashLockInv DEF Next, Halted

(* A process holds exactly the locks that its place in a call says, each   *)
(* for one of its pointers, and no inode is locked by two (sleep locks of  *)
(* FS.C:290, 312): the invariant behind every later theorem of this file.  *)
THEOREM LocksHeld == Spec => []LockInv
<1> QED BY InitRefInv, NextRefInv, InitLockInv, NextLockInv, PTL DEF Spec

------------------------------------------------------------------------------
(* The types of the data, and what a step does to the inodes and to the    *)
(* directory.                                                              *)

LEMMA Sizes ==
  /\ NINODES \in Nat /\ ROOTINO \in 1 .. NINODES
  /\ NBLOCK \in Nat /\ NBLOCK # 0 /\ NDIRECT \in Nat /\ NINDIRECT \in Nat /\ NINDIRECT # 0
  /\ NDIRECT # 0 /\ DirentsPerBlock \in Nat
  /\ IsFiniteSet(Names) /\ "." \notin Names
  /\ \A target \in Paths : target \in Seq(Names \cup {"."})
  /\ \A t \in Transfers : t[1] \in Nat /\ t[2] \in Nat
<1>1. Transfers \subseteq Nat \X Nat
  BY FSAssumption, Zenon
<1>2. \A t \in Nat \X Nat : t[1] \in Nat /\ t[2] \in Nat
  OBVIOUS
<1>3. \A t \in Transfers : t[1] \in Nat /\ t[2] \in Nat
  BY <1>1, <1>2
<1> QED BY <1>3, FSAssumption, Zenon DEF Inodes

LEMMA EntriesBound == Room \in Nat /\ Entries \subseteq 0 .. Room
<1>1. Room \in Nat
  BY Sizes DEF Room, MAXFILE
<1> QED BY <1>1 DEF Entries, Room

(* "" is no name, and an empty entry names nothing. *)
LEMMA EmptyEntry == NoEntry.inum = 0
  BY DEF NoEntry

(* What an assignment to one field leaves of the others. *)
LEMMA TypeExcept ==
  ASSUME NEW d \in Fields, NEW t \in {Free, "file", "dir"}
  PROVE  LET e == [d EXCEPT !.type = t] IN
           e \in Fields /\ e.type = t /\ e.nlink = d.nlink /\ e.size = d.size /\ e.addrs = d.addrs
  BY DEF Fields

(* An assignment to nlink leaves the other fields. *)
LEMMA NlinkExcept ==
  ASSUME NEW d \in Fields, NEW n \in Int
  PROVE  LET e == [d EXCEPT !.nlink = n] IN
           e \in Fields /\ e.type = d.type /\ e.nlink = n /\ e.size = d.size /\ e.addrs = d.addrs
  BY DEF Fields

(* An assignment to size leaves the other fields. *)
LEMMA SizeExcept ==
  ASSUME NEW d \in Fields, NEW n \in Nat
  PROVE  LET e == [d EXCEPT !.size = n] IN
           e \in Fields /\ e.type = d.type /\ e.nlink = d.nlink /\ e.size = n /\ e.addrs = d.addrs
  BY DEF Fields

(* An assignment of a block number leaves the other fields. *)
LEMMA AddrsExcept ==
  ASSUME NEW d \in Fields, NEW k \in 0 .. NDIRECT, NEW b \in 0 .. NBLOCK
  PROVE  LET e == [d EXCEPT !.addrs[k] = b] IN
           /\ e \in Fields /\ e.type = d.type /\ e.nlink = d.nlink /\ e.size = d.size
           /\ e.addrs = [d.addrs EXCEPT ![k] = b]
  BY DEF Fields

(* ialloc clears all fields but the type. *)
LEMMA ZeroFields ==
  ASSUME NEW t \in {Free, "file", "dir"}
  PROVE  /\ ZeroInode(t) \in Fields /\ ZeroInode(t).type = t /\ ZeroInode(t).nlink = 0
         /\ ZeroInode(t).size = 0 /\ ZeroInode(t).addrs = [k \in 0 .. NDIRECT |-> 0]
  BY Sizes DEF ZeroInode, Fields

(* The root that mkfs makes has its first block. *)
LEMMA RootFields ==
  /\ RootDinode \in Fields /\ RootDinode.type = "dir" /\ RootDinode.nlink = 1
  /\ RootDinode.size = 1 /\ RootDinode.addrs = [k \in 0 .. NDIRECT |-> IF k = 0 THEN 1 ELSE 0]
<1> DEFINE z == ZeroInode("dir")
           a == [k \in 0 .. NDIRECT |-> IF k = 0 THEN 1 ELSE 0]
<1>1. z \in Fields /\ z.type = "dir" /\ z.addrs = [k \in 0 .. NDIRECT |-> 0]
  BY ZeroFields
<1>2. a \in [0 .. NDIRECT -> 0 .. NBLOCK] /\ [z.addrs EXCEPT ![0] = 1] = a
  BY <1>1, Sizes
<1> HIDE DEF z, a
<1>3. RootDinode = [z EXCEPT !.nlink = 1, !.size = 1, !.addrs[0] = 1]
  BY DEF RootDinode, z
<1>4. RootDinode = [type |-> "dir", nlink |-> 1, size |-> 1, addrs |-> a]
  BY <1>1, <1>2, <1>3 DEF Fields
<1> QED BY <1>2, <1>4 DEF Fields, a

(* The names that are looked up are in the directory. *)
LEMMA LookupIsIn ==
  ASSUME DataTypes, NEW n, Lookup(n) # {}
  PROVE  LET k == Least(Lookup(n)) IN
           k \in Entries /\ dirent[k].name = n /\ dirent[k].inum \in Inodes
<1>1. Lookup(n) \subseteq Entries /\ Lookup(n) \subseteq 0 .. Room
  BY EntriesBound DEF Lookup, DataTypes
<1>2. Least(Lookup(n)) \in Lookup(n)
  BY <1>1, EntriesBound, LeastOf
<1> QED BY <1>1, <1>2, Sizes DEF Lookup, DataTypes, Inodes

(* A pointer that is not null is counted. *)
LEMMA PointerTypes ==
  ASSUME RefInv, NEW p \in Procs
  PROVE  \A r \in Regs : At(p, r) # 0 => At(p, r) \in Slots /\ ref[At(p, r)] > 0
<1> TAKE r \in Regs
<1>1. <<p, r>> \in Pointers
  BY DEF Pointers
<1> QED BY <1>1, RefInvCounts, PointedIsCounted DEF At

(* iget makes no entry valid. *)
LEMMA IGetValid ==
  ASSUME NEW p, NEW r, NEW i, IGet(p, r, i)
  PROVE  ValidKept
<1>1. Empty # {} => Least(Empty) \in Slots /\ ref[Least(Empty)] = 0
  BY LeastIsIn DEF Empty
<1> QED BY <1>1 DEF IGet, ValidKept, cache

(* What ilock, iput and itrunc do to the data. *)
LEMMA InnerData ==
  ASSUME DataTypes, RefInv, LockInv, NEW p \in Procs, panic = "none",
         ILock(p) \/ IPut(p) \/ IPutFree(p) \/ IPutInvalid(p) \/ IPutDrop(p)
           \/ ITrunc(p) \/ ITruncEnd(p)
  PROVE  DataFrame(p) /\ (Stops \/ DataStep(p))
<1>1. DOMAIN pc = Procs
  BY DEF RefInv, Types
<1>2. pc[p] \in Putting => At(p, "put") \in Slots
  BY RegsAre, PointerTypes DEF LockInv, NonNull
<1>3. CASE ILock(p)
  <2>1. At(p, which[p]) = 0 \/ At(p, which[p]) \in Slots
    BY <1>3, PointerTypes, RegsAre DEF LockInv, WhichFits, ILock
  <2>2. DataFrame(p)
    BY <1>3 DEF ILock, DataFrame, Panic, args, loop, cache, ValidKept
  <2> QED BY <1>1, <1>3, <2>1, <2>2 DEF ILock, Panic, Stops, DataStep, Reads, disk
<1>4. CASE IPut(p) \/ IPutInvalid(p) \/ IPutDrop(p)
  BY <1>1, <1>2, <1>4 DEF IPut, IPutInvalid, IPutDrop, DataFrame, DataStep, Kept, disk, args, loop,
    ValidKept, DataTypes, Invalidated
<1>5. CASE IPutFree(p)
  <2>1. /\ pc[p] = "iput_free" /\ dirent' = dirent
        /\ IUpdate(At(p, "put"), [copy[At(p, "put")] EXCEPT !.type = Free])
    BY <1>5 DEF IPutFree
  <2>2. DataFrame(p)
    BY <1>5 DEF IPutFree, DataFrame, args, loop, ValidKept
  <2>3. Saves(p, "put", Free, NlinkAt(p, "put"))
    <3> DEFINE e == [copy[At(p, "put")] EXCEPT !.type = Free]
    <3>1. At(p, "put") \in Slots /\ copy[At(p, "put")] \in Fields
      BY <1>2, <2>1 DEF Putting, DataTypes
    <3>2. /\ e \in Fields /\ e.type = Free /\ e.nlink = NlinkAt(p, "put")
          /\ e.size = copy[At(p, "put")].size /\ e.addrs = copy[At(p, "put")].addrs
      BY <3>1, TypeExcept DEF NlinkAt
    <3>3. IUpdate(At(p, "put"), e)
      BY <2>1
    <3> HIDE DEF e
    <3> QED BY <2>1, <3>1, <3>2, <3>3 DEF Saves, SavedSize
  <2> QED BY <2>1, <2>2, <2>3 DEF DataStep
<1>6. CASE ITrunc(p)
  <2> DEFINE s == At(p, "put")
             index == IF off[p] = MAXFILE THEN NDIRECT ELSE off[p]
             Turns == /\ pc[p] = "itrunc" /\ pc'[p] = "itrunc" /\ UNCHANGED <<dinode, dirent>>
                      /\ copy' = IF off[p] < NDIRECT \/ off[p] = MAXFILE
                                 THEN [copy EXCEPT ![s].addrs[index] = 0] ELSE copy
                      /\ off' = [off EXCEPT ![p] = off[p] + 1]
                      /\ UNCHANGED <<valid, args, end, blk>>
  <2>1. Turns \/ (Stops /\ DataFrame(p))
    BY <1>6 DEF ITrunc, Panic, Stops, DataFrame, ValidKept, args, loop, cache, place
  <2>2. ASSUME Turns PROVE DataFrame(p)
    BY <2>2 DEF DataFrame, args, DataTypes, ValidKept
  <2>3. ASSUME Turns PROVE Patches(p, "put")
    <3>1. s \in Slots /\ copy[s] \in Fields
      BY <1>2, <2>3 DEF DataTypes, Putting
    <3>2. CASE copy' = copy
      BY <2>3, <3>2 DEF Patches, DataTypes
    <3>3. CASE copy' # copy
      <4>1. index \in 0 .. NDIRECT /\ 0 \in 0 .. NBLOCK
        BY <2>3, <3>3, Sizes DEF DataTypes
      <4> DEFINE e == [copy[s] EXCEPT !.addrs[index] = 0]
      <4>2. e \in Fields /\ e.type = copy[s].type /\ e.nlink = copy[s].nlink /\ e.size = copy[s].size
        <5> HIDE DEF index
        <5> QED BY <3>1, <4>1, AddrsExcept
      <4>3. copy' = [copy EXCEPT ![s] = e]
        BY <2>3, <3>3
      <4> HIDE DEF e, index
      <4> QED BY <2>3, <3>1, <4>2, <4>3 DEF Patches, DataTypes
    <3> QED BY <3>2, <3>3
  <2> QED BY <2>1, <2>2, <2>3 DEF DataStep
<1>7. CASE ITruncEnd(p)
  <2>1. /\ pc[p] = "itrunc" /\ pc'[p] = "iput_free" /\ dirent' = dirent
        /\ IUpdate(At(p, "put"), [copy[At(p, "put")] EXCEPT !.size = 0])
    BY <1>1, <1>7 DEF ITruncEnd, Step, Goto
  <2>2. DataFrame(p)
    BY <1>7 DEF ITruncEnd, DataFrame, args, loop, ValidKept, DataTypes
  <2> DEFINE e == [copy[At(p, "put")] EXCEPT !.size = 0]
  <2>3. At(p, "put") \in Slots /\ e \in Fields /\ e.type = TypeAt(p, "put") /\ e.nlink = NlinkAt(p, "put")
       /\ e.size = 0 /\ e.addrs = copy[At(p, "put")].addrs
    <3>1. At(p, "put") \in Slots /\ copy[At(p, "put")] \in Fields /\ 0 \in Nat
      BY <1>2, <2>1 DEF Putting, DataTypes
    <3> QED BY <3>1, SizeExcept DEF NlinkAt, TypeAt
  <2> HIDE DEF e
  <2>4. IUpdate(At(p, "put"), e)
    BY <2>1 DEF e
  <2>5. Saves(p, "put", TypeAt(p, "put"), NlinkAt(p, "put"))
    BY <2>1, <2>3, <2>4 DEF Saves, SavedSize
  <2> QED BY <2>1, <2>2, <2>5 DEF DataStep
<1> QED BY <1>3, <1>4, <1>5, <1>6, <1>7

(* What readi, writei and bmap do to the data. *)
LEMMA FileData ==
  ASSUME DataTypes, RefInv, LockInv, NEW p \in Procs, panic = "none",
         BMap(p) \/ BZero(p) \/ CopyUnit(p) \/ ReadI(p) \/ WriteI(p) \/ ReadWriteEnd(p)
  PROVE  DataFrame(p) /\ (Stops \/ DataStep(p))
<1>1. DOMAIN pc = Procs
  BY DEF RefInv, Types
<1>2. pc[p] \in Copies => At(p, "fd") \in Slots
  BY RegsAre, PointerTypes DEF LockInv, NonNull, Where, Inner, Putting, Copies
<1>3. CASE BMap(p)
  <2>1. Stops \/ UNCHANGED <<valid, copy, dinode, dirent, name, off, end>>
    BY <1>3 DEF BMap, BAlloc, Panic, Stops, cache, args
  <2>2. pc[p] = "bmap" /\ DataFrame(p)
    BY <1>3 DEF BMap, BAlloc, Panic, DataFrame, cache, args, loop, ValidKept, DataTypes
  <2> QED BY <2>1, <2>2 DEF DataStep, Kept
<1>4. CASE CopyUnit(p) \/ ReadI(p) \/ WriteI(p)
  BY <1>4 DEF CopyUnit, ReadI, WriteI, Transfer, Refused, DataStep, Kept, DataFrame, cache, disk,
    args, loop, ValidKept, DataTypes
<1>5. CASE BZero(p)
  <2> DEFINE s == At(p, "fd")
  <2>1. /\ pc[p] = "bzero" /\ pc'[p] = "bmap" /\ UNCHANGED <<valid, dinode, dirent, name, off, end>>
        /\ \/ \E k \in {off[p], NDIRECT} : /\ k < NDIRECT \/ k = NDIRECT
                                           /\ copy' = [copy EXCEPT ![s].addrs[k] = blk[p]]
           \/ copy' = copy
        /\ blk' = [blk EXCEPT ![p] = 0]
    BY <1>1, <1>5 DEF BZero, File, args, Step, Goto
  <2>2. DataFrame(p)
    BY <2>1 DEF DataFrame, ValidKept, DataTypes
  <2>3. s \in Slots /\ copy[s] \in Fields /\ blk[p] \in 0 .. NBLOCK /\ off[p] \in Nat
    BY <1>2, <2>1 DEF Copies, DataTypes
  <2>4. Patches(p, "fd")
    <3>1. CASE copy' = copy
      BY <2>1, <3>1 DEF Patches, DataTypes
    <3>2. ASSUME NEW k \in {off[p], NDIRECT}, k < NDIRECT \/ k = NDIRECT,
                 copy' = [copy EXCEPT ![s].addrs[k] = blk[p]]
          PROVE  Patches(p, "fd")
      <4>1. k \in 0 .. NDIRECT
        BY <2>3, <3>2, Sizes
      <4> DEFINE e == [copy[s] EXCEPT !.addrs[k] = blk[p]]
      <4>2. e \in Fields /\ e.type = copy[s].type /\ e.nlink = copy[s].nlink /\ e.size = copy[s].size
        BY <2>3, <4>1, AddrsExcept
      <4>3. copy' = [copy EXCEPT ![s] = e]
        BY <3>2
      <4> HIDE DEF e
      <4> QED BY <2>1, <2>3, <4>2, <4>3 DEF Patches, DataTypes
    <3> QED BY <2>1, <3>1, <3>2
  <2> QED BY <2>1, <2>2, <2>4 DEF DataStep
<1>6. CASE ReadWriteEnd(p)
  <2>1. /\ pc[p] = "bmap" /\ pc'[p] = "return" /\ UNCHANGED <<valid, dirent, name, off, end, blk>>
        /\ \/ IUpdate(At(p, "fd"), [copy[At(p, "fd")] EXCEPT !.size = off[p]])
           \/ UNCHANGED <<copy, dinode>>
    BY <1>1, <1>6 DEF ReadWriteEnd, File, Step, Goto, args, loop
  <2>2. DataFrame(p)
    BY <2>1 DEF DataFrame, ValidKept
  <2> DEFINE e == [copy[At(p, "fd")] EXCEPT !.size = off[p]]
  <2>3. At(p, "fd") \in Slots /\ e \in Fields /\ e.type = TypeAt(p, "fd") /\ e.nlink = NlinkAt(p, "fd")
       /\ e.size = off[p] /\ e.addrs = copy[At(p, "fd")].addrs
    BY <1>2, <2>1, SizeExcept DEF NlinkAt, TypeAt, Copies, DataTypes
  <2> HIDE DEF e
  <2>4. CASE IUpdate(At(p, "fd"), e)
    BY <2>1, <2>2, <2>3, <2>4 DEF Saves, SavedSize, DataStep
  <2>5. CASE UNCHANGED <<copy, dinode>>
    BY <2>1, <2>2, <2>5 DEF Kept, DataStep
  <2> QED BY <2>1, <2>4, <2>5 DEF e
<1> QED BY <1>3, <1>4, <1>5, <1>6

(* namex changes no inode and no name of the directory. *)
LEMMA PathData ==
  ASSUME DataTypes, RefInv, LockInv, NEW p \in Procs, panic = "none",
         NamexStart(p) \/ Namex(p) \/ NamexLocked(p) \/ NamexStep(p)
  PROVE  DataFrame(p) /\ (Stops \/ DataStep(p))
<1>1. Kept /\ off' = off /\ end' = end /\ blk' = blk
  BY DEF NamexStart, Namex, NamexLocked, NamexStep, Kept, cache, disk, args, loop, IGet, IDup,
    IUnlockPut, DirLookup
<1>2. pc[p] \in NamexSteps /\ \A q \in Procs \ {p} : name'[q] = name[q]
  BY DEF NamexStart, Namex, NamexLocked, NamexStep, args, DataTypes, NamexSteps
<1>3. pc[p] # "namex" => name' = name
  BY DEF NamexStart, Namex, NamexLocked, NamexStep, args
<1>4. pc[p] = "namex" /\ pc'[p] = "ilock" /\ which'[p] = "at" => name'[p] \in Names \cup {"."}
  <2> DEFINE S == Names \cup {"."}
  <2> SUFFICES ASSUME Namex(p), pc'[p] = "ilock", which'[p] = "at" PROVE name'[p] \in S
    BY DEF NamexStart, Namex, NamexLocked, NamexStep
  <2>1. path[p] # <<>> /\ name' = [name EXCEPT ![p] = Head(path[p])]
    BY <1>1 DEF Namex, CallILock, CallIPut, Goto, LockInv, RefInv, Types
  <2>2. path[p] \in Seq(S) /\ DOMAIN name = Procs
    BY DEF DataTypes
  <2> HIDE DEF S
  <2>3. Head(path[p]) \in S
    BY <2>1, <2>2
  <2> QED BY <2>1, <2>2, <2>3
<1>5. ValidKept
  BY IGetValid DEF NamexStart, Namex, NamexLocked, NamexStep, DirLookup, IDup, IUnlockPut, cache, ValidKept
<1> QED BY <1>1, <1>2, <1>3, <1>4, <1>5 DEF DataFrame, DataStep, NamexSteps

(* What a call does to the data of the inode it has. *)
LEMMA InodeData ==
  ASSUME DataTypes, RefInv, LockInv, NEW p \in Procs, panic = "none",
         \/ OpenLocked(p) \/ CreateExists(p) \/ DropLink(p) \/ LinkLocked(p)
         \/ LinkBad(p) \/ LinkDone(p)
  PROVE  DataFrame(p) /\ (Stops \/ DataStep(p))
<1>1. DOMAIN pc = Procs
  BY DEF RefInv, Types
<1>2. pc[p] \in LocksIp => At(p, "ip") \in Slots /\ copy[At(p, "ip")] \in Fields
  BY RegsAre, PointerTypes DEF LockInv, NonNull, Where, Inner, Putting, LocksIp, DataTypes
<1>3. UNCHANGED <<valid, dirent, name, off, end, blk>>
  BY DEF OpenLocked, CreateExists, DropLink, LinkLocked, LinkBad, LinkDone, cache, disk, args, loop,
    IUnlockPut
<1>4. DataFrame(p)
  BY <1>3 DEF DataFrame, ValidKept, OpenLocked, CreateExists, DropLink, LinkLocked, LinkBad, LinkDone
<1>5. CASE OpenLocked(p) \/ CreateExists(p) \/ LinkBad(p) \/ LinkDone(p)
  BY <1>4, <1>5 DEF OpenLocked, CreateExists, LinkBad, LinkDone, IUnlockPut, cache, disk, DataStep, Kept
<1>6. CASE DropLink(p)
  <2>1. pc[p] = "drop_link" /\ IUpdate(At(p, "ip"), [copy[At(p, "ip")] EXCEPT !.nlink = @ - 1])
    BY <1>6 DEF DropLink
  <2>2. NlinkAt(p, "ip") - 1 \in Int
    BY <1>2, <2>1 DEF NlinkAt, LocksIp, Fields
  <2> DEFINE e == [copy[At(p, "ip")] EXCEPT !.nlink = NlinkAt(p, "ip") - 1]
  <2>3. IUpdate(At(p, "ip"), e)
    BY <2>1 DEF NlinkAt
  <2>4. e \in Fields /\ e.type = TypeAt(p, "ip") /\ e.nlink = NlinkAt(p, "ip") - 1
       /\ e.size = copy[At(p, "ip")].size /\ e.addrs = copy[At(p, "ip")].addrs
    BY <1>2, <2>1, <2>2, NlinkExcept DEF TypeAt, LocksIp
  <2> HIDE DEF e
  <2> QED BY <1>2, <1>3, <1>4, <2>1, <2>3, <2>4 DEF DataStep, Saves, SavedSize, LocksIp
<1>7. CASE LinkLocked(p)
  <2>1. /\ pc[p] = "link_locked"
        /\ \/ pc'[p] = "iput" /\ UNCHANGED <<copy, dinode>>
           \/ /\ TypeAt(p, "ip") # "dir" /\ pc'[p] = "namex_start"
              /\ IUpdate(At(p, "ip"), [copy[At(p, "ip")] EXCEPT !.nlink = @ + 1])
    BY <1>1, <1>7 DEF LinkLocked, IUnlockPut, CallIPut, Step, Goto, TypeAt
  <2>2. NlinkAt(p, "ip") + 1 \in Int
    BY <1>2, <2>1 DEF NlinkAt, LocksIp, Fields
  <2> DEFINE e == [copy[At(p, "ip")] EXCEPT !.nlink = NlinkAt(p, "ip") + 1]
  <2>3. e \in Fields /\ e.type = TypeAt(p, "ip") /\ e.nlink = NlinkAt(p, "ip") + 1
       /\ e.size = copy[At(p, "ip")].size /\ e.addrs = copy[At(p, "ip")].addrs
    BY <1>2, <2>1, <2>2, NlinkExcept DEF TypeAt, LocksIp
  <2>4. \/ pc'[p] = "iput" /\ UNCHANGED <<copy, dinode>>
        \/ TypeAt(p, "ip") # "dir" /\ pc'[p] = "namex_start" /\ IUpdate(At(p, "ip"), e)
    BY <2>1 DEF NlinkAt
  <2> HIDE DEF e
  <2> QED BY <1>2, <1>3, <1>4, <2>1, <2>3, <2>4 DEF DataStep, Saves, SavedSize, LocksIp, Kept
<1> QED BY <1>5, <1>6, <1>7

(* An entry is written in an empty place. *)
LEMMA VacantPlace ==
  ASSUME NEW p, Vacant(p) # {}
  PROVE  Least(Vacant(p)) \in Entries /\ dirent[Least(Vacant(p))].inum = 0
<1>1. Vacant(p) \subseteq 0 .. Room
  BY EntriesBound DEF Vacant
<1>2. Least(Vacant(p)) \in Vacant(p)
  BY <1>1, EntriesBound, LeastOf
<1> QED BY <1>2 DEF Vacant

(* What a call does to the data when it has the directory. *)
LEMMA DirectoryData ==
  ASSUME DataTypes, RefInv, LockInv, NEW p \in Procs, panic = "none",
         \/ CreateParent(p) \/ CreateFound(p) \/ IAlloc(p) \/ IAllocGet(p) \/ CreateInit(p)
         \/ DirLink(p) \/ DirLinkFound(p) \/ DirLinkFailed(p) \/ Linked(p)
         \/ UnlinkParent(p) \/ UnlinkLocked(p)
  PROVE  DataFrame(p) /\ (Stops \/ DataStep(p))
<1>1. DOMAIN pc = Procs
  BY DEF RefInv, Types
<1>2. pc[p] \in LocksIp => At(p, "ip") \in Slots /\ copy[At(p, "ip")] \in Fields
  BY RegsAre, PointerTypes DEF LockInv, NonNull, Where, Inner, Putting, LocksIp, DataTypes
<1>3. CASE CreateParent(p)
  <2>1. ValidKept
    BY <1>3, IGetValid DEF CreateParent, Panic, DirLookup, cache, ValidKept
  <2>2. CASE IsDir(p)
    BY <1>1, <1>3, <2>1, <2>2 DEF CreateParent, DirLookup, IGet, Step, Goto, DataFrame, DataStep, Kept, cache,
      disk, args, DataTypes
  <2>3. CASE ~IsDir(p)
    BY <1>3, <2>1, <2>3 DEF CreateParent, Panic, Stops, DataFrame, place, args, loop
  <2> QED BY <2>2, <2>3
<1>4. CASE CreateFound(p) \/ DirLinkFound(p) \/ DirLinkFailed(p) \/ Linked(p)
  BY <1>4 DEF CreateFound, DirLinkFound, DirLinkFailed, Linked, IUnlockPut, Panic, Stops, DataFrame,
    DataStep, Kept, cache, disk, args, loop, ValidKept
<1>5. CASE IAlloc(p)
  <2>1. Stops \/ (pc[p] = "ialloc" /\ off[p] <= NINODES)
    <3>1. off[p] > NINODES \/ off[p] <= NINODES
      BY Sizes DEF DataTypes
    <3> QED BY <1>5, <3>1 DEF IAlloc, Panic, Stops
  <2>2. DataFrame(p)
    BY <1>5 DEF IAlloc, Panic, DataFrame, cache, args, loop, ValidKept, DataTypes
  <2>3. Stops \/ /\ UNCHANGED <<copy, dirent>>
                 /\ \/ /\ dinode[off[p]].type = Free /\ pc'[p] = "ialloc_get" /\ off'[p] = off[p]
                       /\ dinode' = [dinode EXCEPT ![off[p]] = ZeroInode("file")]
                    \/ dinode' = dinode /\ pc' = pc /\ off'[p] = off[p] + 1
    BY <1>1, <1>5 DEF IAlloc, Panic, Stops, Step, Goto, cache, place, DataTypes
  <2> QED BY <2>1, <2>2, <2>3 DEF DataStep, Kept, Allocates
<1>6. CASE IAllocGet(p)
  <2>1. ValidKept
    BY <1>6, IGetValid DEF IAllocGet
  <2> QED BY <1>6, <2>1 DEF IAllocGet, IGet, DataFrame, DataStep, Kept, cache, disk, args, DataTypes
<1>7. CASE CreateInit(p)
  <2>1. pc[p] = "create_init" /\ IUpdate(At(p, "ip"), [copy[At(p, "ip")] EXCEPT !.nlink = 1])
    BY <1>7 DEF CreateInit
  <2> DEFINE e == [copy[At(p, "ip")] EXCEPT !.nlink = 1]
  <2>2. e \in Fields /\ e.type = TypeAt(p, "ip") /\ e.nlink = 1
       /\ e.size = copy[At(p, "ip")].size /\ e.addrs = copy[At(p, "ip")].addrs
    BY <1>2, <2>1, NlinkExcept DEF TypeAt, LocksIp
  <2>3. DataFrame(p) /\ dirent' = dirent
    BY <1>7 DEF CreateInit, DataFrame, ValidKept, args, loop
  <2> HIDE DEF e
  <2>4. Saves(p, "ip", TypeAt(p, "ip"), 1)
    BY <1>2, <2>1, <2>2, <2>3 DEF Saves, SavedSize, LocksIp, e
  <2> QED BY <2>1, <2>3, <2>4 DEF DataStep
<1>8. CASE DirLink(p)
  <2>1. ValidKept
    BY <1>8, IGetValid DEF DirLink, Panic, DirLookup, cache, ValidKept
  <2>2. CASE IsDir(p) /\ Lookup(name[p]) = {}
    <3>1. /\ pc[p] = "dirlink" /\ pc'[p] = "linked" /\ UNCHANGED <<copy, dinode>>
          /\ dirent' = [dirent EXCEPT ![Least(Vacant(p))] =
                          [name |-> name[p], inum |-> inum[At(p, "ip")]]]
      BY <1>1, <1>8, <2>2 DEF DirLink, Step, Goto, cache
    <3>2. DataFrame(p)
      BY <1>8, <2>1, <2>2 DEF DirLink, Step, Goto, DataFrame, args, loop
    <3> QED BY <1>8, <2>2, <3>1, <3>2, VacantPlace DEF DirLink, DataStep
  <2>3. CASE IsDir(p) /\ Lookup(name[p]) # {}
    BY <1>1, <1>8, <2>1, <2>3 DEF DirLink, DirLookup, IGet, Step, Goto, DataFrame, DataStep, Kept, cache,
      args, loop
  <2>4. CASE ~IsDir(p)
    BY <1>8, <2>1, <2>4 DEF DirLink, Panic, Stops, DataFrame, args, loop
  <2> QED BY <2>2, <2>3, <2>4
<1>9. CASE UnlinkParent(p)
  <2>1. ValidKept
    BY <1>9, IGetValid DEF UnlinkParent, Panic, DirLookup, IUnlockPut, cache, ValidKept
  <2>2. CASE name[p] # "." /\ ~IsDir(p)
    BY <1>9, <2>1, <2>2 DEF UnlinkParent, Panic, Stops, DataFrame, args, loop
  <2>3. CASE ~(name[p] # "." /\ ~IsDir(p))
    BY <1>9, <2>1, <2>3 DEF UnlinkParent, DirLookup, IGet, IUnlockPut, DataFrame, DataStep, Kept, cache, disk,
      args, loop
  <2> QED BY <2>2, <2>3
<1>10. CASE UnlinkLocked(p)
  <2>1. NlinkAt(p, "ip") < 1 <=> ~(NlinkAt(p, "ip") >= 1)
    <3>1. pc[p] = "unlink_locked"
      BY <1>10 DEF UnlinkLocked
    <3>2. NlinkAt(p, "ip") \in Int
      BY <1>2, <3>1 DEF NlinkAt, LocksIp, Fields
    <3> QED BY <3>2
  <2> QED BY <1>10, <2>1 DEF UnlinkLocked, IUnlockPut, Panic, Stops, DataFrame, DataStep, NlinkAt,
        cache, args, loop, ValidKept
<1> QED BY <1>3, <1>4, <1>5, <1>6, <1>7, <1>8, <1>9, <1>10

(* A call that begins or returns changes no data. *)
LEMMA CallData ==
  ASSUME DataTypes, NEW p \in Procs, Call(p) \/ Return(p)
  PROVE  DataFrame(p) /\ (Stops \/ DataStep(p))
<1>1. CASE Call(p)
  BY <1>1 DEF Call, Idle, DataFrame, DataStep, Kept, cache, disk, ValidKept, DataTypes
<1>2. CASE Return(p)
  <2>1. /\ pc[p] = "return" /\ UNCHANGED <<cache, disk, blk>>
        /\ off' = [off EXCEPT ![p] = 0] /\ end' = [end EXCEPT ![p] = 0]
        /\ \E n : name' = [name EXCEPT ![p] = n]
    BY <1>2, Zenon DEF Return
  <2> QED BY <2>1 DEF DataFrame, DataStep, Kept, cache, disk, ValidKept, DataTypes
<1> QED BY <1>1, <1>2

(* Whatever a process does changes the data in one of these ways. *)
LEMMA StepData ==
  ASSUME DataTypes, RefInv, LockInv, NEW p \in Procs, panic = "none", Inside(p) \/ Call(p)
  PROVE  DataFrame(p) /\ (Stops \/ DataStep(p))
  BY InnerData, FileData, PathData, DirectoryData, InodeData, CallData, Zenon DEF Inside

------------------------------------------------------------------------------
(* The root is the one directory, and no call takes it for a file.         *)

(* Whatever a process does, it does as the lemmas say. *)
LEMMA CallsDo ==
  ASSUME DataTypes, RefInv, LockInv, NEW p \in Procs, panic = "none", Inside(p) \/ Call(p)
  PROVE  Does(p)
  BY LockDomains, CallsStep, StepData DEF Does

(* What is in use after a step was so before, for the same inode; only     *)
(* ilock makes an entry valid.                                             *)
LEMMA SlotsStep ==
  ASSUME NEW p \in Procs, Does(p)
  PROVE  /\ \A s \in Slots : ref[s] > 0 => inum'[s] = inum[s]
         /\ \A s \in Slots : Used(s)' => /\ ref[s] > 0
                                         /\ valid[s] \/ (pc[p] = "ilock" /\ s = At(p, which[p]))
         /\ \A s \in Slots : ref[s] > 0 /\ valid[s] /\ ~valid'[s]
                => pc[p] = "iput_invalid" /\ s = At(p, "put")
<1>1. ref \in [Slots -> Nat] /\ inum \in [Slots -> Inodes] /\ valid \in [Slots -> BOOLEAN]
  BY DEF Does, DataTypes, RefInv, Types
<1>2. CASE Stops
  BY <1>2 DEF Stops, cache, Used
<1>3. CASE ~Stops
  <2>1. /\ pc[p] \notin {"ilock", "iput_invalid"} => ValidKept
        /\ pc[p] = "iput_invalid" => valid' = [valid EXCEPT ![At(p, "put")] = FALSE]
        /\ pc[p] = "ilock" => valid' = [valid EXCEPT ![At(p, which[p])] = TRUE]
    BY <1>3 DEF Does, DataFrame, DataStep, Reads
  <2>2. \/ UNCHANGED <<ref, inum>>
        \/ \E r \in Regs : At(p, r) \in Slots /\ ref[At(p, r)] > 0 /\ inum' = inum
                           /\ \/ ref' = [ref EXCEPT ![At(p, r)] = @ + 1]
                              \/ ref' = [ref EXCEPT ![At(p, r)] = @ - 1]
        \/ \E s \in Slots : /\ ref' = [ref EXCEPT ![s] = @ + 1]
                            /\ \/ ref[s] > 0 /\ inum' = inum
                               \/ \E i : ref[s] = 0 /\ inum' = [inum EXCEPT ![s] = i] /\ ~valid'[s]
    <3>1. StepOf(p)
      BY DEF Does, Steps
    <3>2. \A r \in Regs : At(p, r) \notin Slots => [ref EXCEPT ![At(p, r)] = @ + 1] = ref
      BY <1>1
    <3>3. \A r \in Regs : At(p, r) # 0 => At(p, r) \in Slots /\ ref[At(p, r)] > 0
      BY PointerTypes DEF Does
    <3>4. (\E r \in Regs : \E i : Got(p, r, i)) =>
             \/ UNCHANGED <<ref, inum>>
             \/ \E s \in Slots : /\ ref' = [ref EXCEPT ![s] = @ + 1]
                                 /\ \/ ref[s] > 0 /\ inum' = inum
                                    \/ \E i : ref[s] = 0 /\ inum' = [inum EXCEPT ![s] = i] /\ ~valid'[s]
      BY <1>1 DEF Got, Still
    <3>5. CASE UNCHANGED <<ref, inum>>
      BY <3>5
    <3>6. CASE \E r \in Regs : \E i : Got(p, r, i)
      BY <3>4, <3>6
    <3>7. CASE Doubled(p, "at", "cwd")
      <4>1. CASE At(p, "cwd") = 0
        <5>1. At(p, "cwd") \notin Slots /\ "cwd" \in Regs
          BY <4>1, RegsAre DEF Slots
        <5>2. ref' = ref /\ inum' = inum
          BY <3>2, <3>7, <5>1 DEF Doubled
        <5> QED BY <5>2
      <4>2. CASE At(p, "cwd") # 0
        BY <3>3, <3>7, <4>2, RegsAre DEF Doubled
      <4> QED BY <4>1, <4>2
    <3>8. CASE pc[p] = "iput_drop" /\ Dropped(p)
      <4>1. At(p, "put") # 0
        BY <3>8 DEF Does, LockInv, NonNull, Putting
      <4> QED BY <3>3, <3>8, <4>1, RegsAre DEF Dropped
    <3>9. \/ UNCHANGED <<ref, inum>>
          \/ \E r \in Regs : \E i : Got(p, r, i)
          \/ Doubled(p, "at", "cwd")
          \/ pc[p] = "iput_drop" /\ Dropped(p)
      BY <1>3, <3>1, RegsAre DEF StepOf, InnerStep, FileStep, PathStep,
          DirectoryStep, InodeStep, CallStep, ReturnStep, Still, Moved, Shifted, GivesPut, Found
    <3> QED BY <3>5, <3>6, <3>7, <3>8, <3>9
  <2>3. \A s \in Slots : ref[s] > 0 => inum'[s] = inum[s]
    BY <1>1, <2>2
  <2>4. \A s \in Slots : ref'[s] > 0 /\ ref[s] = 0 => ~valid'[s]
    BY <1>1, <2>2
  <2>5. \A s \in Slots : valid'[s] => valid[s] \/ (pc[p] = "ilock" /\ s = At(p, which[p]))
    BY <1>1, <2>1 DEF ValidKept
  <2>6. \A s \in Slots : ref[s] > 0 /\ valid[s] /\ ~valid'[s]
                => pc[p] = "iput_invalid" /\ s = At(p, "put")
    BY <1>1, <2>1 DEF ValidKept
  <2> QED BY <1>1, <2>3, <2>4, <2>5, <2>6 DEF Used
<1> QED BY <1>2, <1>3

(* What is not changed keeps its type. *)
LEMMA StillTypes ==
  ASSUME DataTypes, UNCHANGED <<content, off, end, blk, name, path, newpath>>
  PROVE  LoopTypes'
  BY DEF DataTypes, LoopTypes

(* An assignment to one block number of one block. *)
LEMMA TwiceExcept ==
  ASSUME NEW A, NEW J, NEW V, NEW f \in [A -> [J -> V]], NEW a, NEW j, NEW v \in V
  PROVE  [f EXCEPT ![a][j] = v] \in [A -> [J -> V]]
  OBVIOUS

(* The loops of readi and writei keep their types. *)
LEMMA FileTypes ==
  ASSUME DataTypes, RefInv, LockInv, NEW p \in Procs, panic = "none",
         BMap(p) \/ BZero(p) \/ CopyUnit(p) \/ ReadI(p) \/ WriteI(p) \/ ReadWriteEnd(p)
  PROVE  LoopTypes'
<1>1. pc[p] \in Copies => At(p, "fd") \in Slots /\ copy[At(p, "fd")] \in Fields
  BY RegsAre, PointerTypes DEF LockInv, NonNull, Where, Inner, Putting, Copies, DataTypes
<1>2. CASE BMap(p)
  <2>1. CASE Unused = {} \/ off[p] >= MAXFILE
    BY <1>2, <2>1, StillTypes DEF BMap, BAlloc, Panic, disk, args, loop
  <2>2. CASE Unused # {} /\ ~(off[p] >= MAXFILE)
    <3>1. Unused \subseteq 0 .. NBLOCK
      BY Sizes DEF Unused, Blocks
    <3>2. Least(Unused) \in 0 .. NBLOCK
      BY <2>2, <3>1, Sizes, LeastOf
    <3>3. UNCHANGED <<content, off, end, args>> /\ blk' = [blk EXCEPT ![p] = Least(Unused)]
      BY <1>2, <2>2 DEF BMap, BAlloc
    <3> QED BY <3>2, <3>3 DEF DataTypes, LoopTypes, args
  <2> QED BY <2>1, <2>2
<1>3. CASE BZero(p)
  <2> DEFINE b == blk[p]
             a == Indirect(p)
  <2>1. /\ UNCHANGED <<args, off, end>> /\ blk' = [blk EXCEPT ![p] = 0]
        /\ \/ content' = Zeroed(b)
           \/ content' = [Zeroed(b) EXCEPT ![a][off[p] - NDIRECT] = b]
    BY <1>3 DEF BZero
  <2>2. b \in 0 .. NBLOCK
    BY DEF DataTypes
  <2>3. ZeroBlock \in [0 .. NINDIRECT - 1 -> 0 .. NBLOCK]
    BY Sizes DEF ZeroBlock
  <2>4. Zeroed(b) \in [Blocks -> [0 .. NINDIRECT - 1 -> 0 .. NBLOCK]]
    BY <2>3 DEF Zeroed, DataTypes
  <2> HIDE DEF b, a
  <2>5. content' \in [Blocks -> [0 .. NINDIRECT - 1 -> 0 .. NBLOCK]]
    <3> DEFINE J == 0 .. NINDIRECT - 1
               V == 0 .. NBLOCK
               f == Zeroed(b)
    <3>1. f \in [Blocks -> [J -> V]] /\ b \in V /\ (content' = f \/ content' = [f EXCEPT ![a][off[p] - NDIRECT] = b])
      BY <2>1, <2>2, <2>4
    <3> HIDE DEF J, V, f
    <3>2. [f EXCEPT ![a][off[p] - NDIRECT] = b] \in [Blocks -> [J -> V]]
      BY <3>1, TwiceExcept
    <3>3. content' \in [Blocks -> [J -> V]]
      BY <3>1, <3>2
    <3> QED BY <3>3 DEF J, V
  <2>6. off' \in [Procs -> Nat] /\ end' \in [Procs -> Nat] /\ blk' \in [Procs -> 0 .. NBLOCK]
    <3>1. 0 \in 0 .. NBLOCK
      BY Sizes
    <3> QED BY <2>1, <3>1 DEF DataTypes
  <2> QED BY <2>1, <2>5, <2>6 DEF DataTypes, LoopTypes, args
<1>4. CASE CopyUnit(p)
  BY <1>4 DEF CopyUnit, disk, args, DataTypes, LoopTypes
<1>5. CASE ReadI(p) \/ WriteI(p)
  <2>1. pc[p] = "rw_locked" /\ UNCHANGED <<disk, args, off, blk>>
    BY <1>5 DEF ReadI, WriteI, Transfer, Refused, loop
  <2>2. end[p] \in Nat /\ Size(p) \in Nat
    BY <1>1, <2>1 DEF Copies, DataTypes, Size, File, Fields
  <2>3. Least({end[p], Size(p)}) \in Nat
    BY <2>2, LeastOf, end[p] + Size(p) \in Nat, {end[p], Size(p)} \subseteq 0 .. (end[p] + Size(p))
  <2>4. end' = end \/ \E e \in Nat : end' = [end EXCEPT ![p] = e]
    BY <1>5, <2>2, <2>3 DEF ReadI, WriteI, Transfer, Refused, loop
  <2> QED BY <2>1, <2>4 DEF disk, args, DataTypes, LoopTypes
<1>6. CASE ReadWriteEnd(p)
  BY <1>6, StillTypes DEF ReadWriteEnd, args, loop
<1> QED BY <1>2, <1>3, <1>4, <1>5, <1>6

(* So does every step of a call. *)
LEMMA CallTypes ==
  ASSUME DataTypes, RefInv, LockInv, NEW p \in Procs, panic = "none", Inside(p) \/ Call(p)
  PROVE  LoopTypes'
<1>1. CASE BMap(p) \/ BZero(p) \/ CopyUnit(p) \/ ReadI(p) \/ WriteI(p) \/ ReadWriteEnd(p)
  BY <1>1, FileTypes
<1>2. CASE ILock(p) \/ IPutFree(p) \/ IPutInvalid(p) \/ IPutDrop(p)
  BY <1>2, StillTypes DEF ILock, IPutFree, IPutInvalid, IPutDrop, Panic, disk, args, loop
<1>3. CASE IPut(p) \/ ITrunc(p) \/ ITruncEnd(p)
  <2>1. /\ UNCHANGED <<content, end, blk, args>>
        /\ off' = off \/ \E n \in {0, off[p] + 1} : off' = [off EXCEPT ![p] = n]
    BY <1>3 DEF IPut, ITrunc, ITruncEnd, Panic, disk, loop
  <2>2. off[p] \in Nat
    BY DEF DataTypes
  <2>3. off' \in [Procs -> Nat]
    BY <2>1, <2>2 DEF DataTypes
  <2> QED BY <2>1, <2>3 DEF DataTypes, LoopTypes, args
<1>4. CASE NamexStart(p) \/ NamexLocked(p) \/ NamexStep(p) \/ OpenLocked(p) \/ CreateFound(p) \/ CreateExists(p)
             \/ CreateInit(p) \/ DirLink(p) \/ DirLinkFound(p) \/ DirLinkFailed(p) \/ Linked(p)
             \/ UnlinkParent(p) \/ UnlinkLocked(p) \/ DropLink(p) \/ LinkBad(p) \/ LinkDone(p)
  BY <1>4, StillTypes DEF NamexStart, NamexLocked, NamexStep, OpenLocked, CreateFound, CreateExists,
    CreateInit, DirLink, DirLinkFound, DirLinkFailed, Linked, UnlinkParent, UnlinkLocked, DropLink,
    LinkBad, LinkDone, Panic, disk, args, loop
<1>5. CASE Namex(p)
  <2>1. UNCHANGED <<content, off, end, blk, newpath>> /\ DOMAIN name' = Procs
    BY <1>5 DEF Namex, disk, loop, DataTypes
  <2>2. path' = path \/ (path[p] # <<>> /\ path' = [path EXCEPT ![p] = Tail(path[p])])
    BY <1>5 DEF Namex
  <2>3. path[p] # <<>> => Tail(path[p]) \in Seq(Names \cup {"."})
    <3>1. path[p] \in Seq(Names \cup {"."})
      BY DEF DataTypes
    <3> QED BY <3>1
  <2>4. path' \in [Procs -> Seq(Names \cup {"."})]
    BY <2>2, <2>3 DEF DataTypes
  <2>5. newpath' \in [Procs -> Seq(Names \cup {"."})]
    BY <2>1 DEF DataTypes
  <2> QED BY <2>1, <2>4, <2>5 DEF DataTypes, LoopTypes
<1>6. CASE CreateParent(p) \/ IAlloc(p) \/ IAllocGet(p)
  <2>1. /\ UNCHANGED <<content, end, blk, args>>
        /\ off' = off \/ \E n \in {0, 1, off[p] + 1} : off' = [off EXCEPT ![p] = n]
    BY <1>6 DEF CreateParent, IAlloc, IAllocGet, Panic, disk, loop
  <2>2. off[p] \in Nat
    BY DEF DataTypes
  <2>3. off' \in [Procs -> Nat]
    BY <2>1, <2>2 DEF DataTypes
  <2> QED BY <2>1, <2>3 DEF DataTypes, LoopTypes, args
<1>7. CASE LinkLocked(p)
  <2>1. /\ UNCHANGED <<content, off, end, blk, name>>
        /\ \/ UNCHANGED <<path, newpath>>
           \/ path' = [path EXCEPT ![p] = newpath[p]] /\ newpath' = [newpath EXCEPT ![p] = <<>>]
    BY <1>7 DEF LinkLocked, loop
  <2> DEFINE S == Seq(Names \cup {"."})
  <2>2. path \in [Procs -> S] /\ newpath \in [Procs -> S] /\ <<>> \in S
    BY DEF DataTypes
  <2> HIDE DEF S
  <2>3. path' \in [Procs -> S] /\ newpath' \in [Procs -> S]
    BY <2>1, <2>2
  <2> QED BY <2>1, <2>3 DEF DataTypes, LoopTypes, S
<1>8. CASE Return(p)
  <2>1. /\ UNCHANGED <<disk, blk>> /\ path' = [path EXCEPT ![p] = <<>>]
        /\ newpath' = [newpath EXCEPT ![p] = <<>>]
        /\ off' = [off EXCEPT ![p] = 0] /\ end' = [end EXCEPT ![p] = 0]
        /\ \E n : name' = [name EXCEPT ![p] = n]
    BY <1>8, Zenon DEF Return
  <2> QED BY <2>1 DEF DataTypes, LoopTypes, disk
<1>9. CASE Call(p)
  <2>1. /\ UNCHANGED <<content, name, blk>>
        /\ \/ UNCHANGED <<path, newpath>>
           \/ \E target, new \in Paths \cup {<<>>} :
                path' = [path EXCEPT ![p] = target] /\ newpath' = [newpath EXCEPT ![p] = new]
        /\ \/ UNCHANGED <<off, end>>
           \/ \E t \in Transfers :
                off' = [off EXCEPT ![p] = t[1]] /\ end' = [end EXCEPT ![p] = t[1] + t[2]]
    BY <1>9 DEF Call, disk
  <2>2. \A target \in Paths \cup {<<>>} : target \in Seq(Names \cup {"."})
    <3>1. <<>> \in Seq(Names \cup {"."})
      OBVIOUS
    <3> QED BY <3>1, Sizes
  <2>3. path' \in [Procs -> Seq(Names \cup {"."})] /\ newpath' \in [Procs -> Seq(Names \cup {"."})]
    BY <2>1, <2>2 DEF DataTypes
  <2>4. off' \in [Procs -> Nat] /\ end' \in [Procs -> Nat]
    <3>1. \A t \in Transfers : t[1] \in Nat /\ t[1] + t[2] \in Nat
      BY Sizes
    <3>2. off \in [Procs -> Nat] /\ end \in [Procs -> Nat]
      BY DEF DataTypes
    <3>3. CASE UNCHANGED <<off, end>>
      BY <3>2, <3>3
    <3>4. ASSUME NEW t \in Transfers, off' = [off EXCEPT ![p] = t[1]],
                 end' = [end EXCEPT ![p] = t[1] + t[2]]
          PROVE  off' \in [Procs -> Nat] /\ end' \in [Procs -> Nat]
      BY <3>1, <3>2, <3>4
    <3> QED BY <2>1, <3>3, <3>4
  <2> QED BY <2>1, <2>3, <2>4 DEF DataTypes, LoopTypes
<1> QED BY <1>1, <1>2, <1>3, <1>4, <1>5, <1>6, <1>7, <1>8, <1>9 DEF Inside

(* What iget is asked for is an inode. *)
LEMMA RootTypes ==
  ASSUME RootInv, NEW p \in Procs, Does(p), LoopTypes'
  PROVE  DataTypes'
<1>1. DataTypes /\ FilesFit(p)
  BY DEF RootInv
<1>2. CASE Stops
  BY <1>1, <1>2 DEF Stops, DataTypes, LoopTypes, cache, disk, args
<1>3. CASE ~Stops
  <2>1. StepOf(p) /\ DataFrame(p) /\ DataStep(p)
    BY <1>3 DEF Does, Steps
  <2>2. inum' \in [Slots -> Inodes]
    <3>1. ROOTINO \in Inodes
      BY Sizes DEF Inodes
    <3>2. ASSUME NEW r, NEW i \in Inodes, Got(p, r, i) PROVE inum' \in [Slots -> Inodes]
      BY <1>1, <3>2 DEF Got, Still, DataTypes
    <3>3. ASSUME NEW r, Found(p, r) PROVE inum' \in [Slots -> Inodes]
      BY <1>1, <3>2, <3>3, LookupIsIn DEF Found
    <3>4. \/ UNCHANGED inum
          \/ \E r : Got(p, r, ROOTINO)
          \/ \E r : Found(p, r)
          \/ pc[p] = "ialloc_get" /\ \E r : Got(p, r, off[p])
      BY <1>3, <2>1, RegsAre DEF StepOf, InnerStep, FileStep, PathStep,
          DirectoryStep, InodeStep, CallStep, ReturnStep, Still, Moved, Shifted, Doubled, Dropped, GivesPut
    <3> QED BY <1>1, <3>1, <3>2, <3>3, <3>4 DEF FilesFit, DataTypes
  <2>3. valid' \in [Slots -> BOOLEAN]
    BY <1>1, <2>1 DEF DataTypes, DataFrame, ValidKept, DataStep, Reads
  <2>4. \A t \in {Free, "file", "dir"} : ZeroInode(t) \in Fields
    BY ZeroFields
  <2>5. copy' \in [Slots -> Fields] /\ dinode' \in [Inodes -> Fields]
    <3>1. copy \in [Slots -> Fields] /\ dinode \in [Inodes -> Fields] /\ inum \in [Slots -> Inodes]
      BY <1>1 DEF DataTypes
    <3>2. ASSUME NEW s, NEW d \in Fields, IUpdate(s, d)
          PROVE  copy' \in [Slots -> Fields] /\ dinode' \in [Inodes -> Fields]
      BY <3>1, <3>2 DEF IUpdate
    <3>3. CASE Kept \/ Reads(p)
      BY <3>1, <3>3 DEF Kept, Reads
    <3>4. CASE Allocates(p)
      BY <2>4, <3>1, <3>4 DEF Allocates
    <3>5. ASSUME NEW r, Patches(p, r)
          PROVE  copy' \in [Slots -> Fields] /\ dinode' \in [Inodes -> Fields]
      BY <3>1, <3>5 DEF Patches
    <3>6. ASSUME NEW r, NEW t, NEW n, Saves(p, r, t, n)
          PROVE  copy' \in [Slots -> Fields] /\ dinode' \in [Inodes -> Fields]
      BY <3>2, <3>6 DEF Saves
    <3> QED BY <2>1, <3>1, <3>3, <3>4, <3>5, <3>6 DEF DataStep
  <2>6. DOMAIN dirent' = Entries /\ \A k \in Entries : dirent'[k].inum \in 0 .. NINODES
    <3>1. \A s \in Slots : inum[s] \in 0 .. NINODES
      BY <1>1, Sizes DEF DataTypes, Inodes
    <3>2. 0 \in 0 .. NINODES
      BY Sizes
    <3>3. \/ dirent' = dirent
          \/ \E k : dirent' = [dirent EXCEPT ![k] = NoEntry]
          \/ /\ pc[p] = "dirlink"
             /\ \E n, k : dirent' = [dirent EXCEPT ![k] = [name |-> n, inum |-> inum[At(p, "ip")]]]
      BY <2>1 DEF DataStep, Kept, Reads, Patches, Saves, Allocates
    <3>4. pc[p] = "dirlink" => At(p, "ip") \in Slots
      BY RegsAre, PointerTypes DEF Does, LockInv, NonNull, Where, Inner, Putting, LinksIp
    <3>5. ASSUME NEW k, NEW e, dirent' = [dirent EXCEPT ![k] = e], e.inum \in 0 .. NINODES
          PROVE  DOMAIN dirent' = Entries /\ \A l \in Entries : dirent'[l].inum \in 0 .. NINODES
      BY <1>1, <3>5 DEF DataTypes
    <3>6. NoEntry.inum \in 0 .. NINODES
      BY <3>2, EmptyEntry
    <3>7. \A n, i : [name |-> n, inum |-> i].inum = i
      OBVIOUS
    <3>8. CASE dirent' = dirent
      BY <1>1, <3>8 DEF DataTypes
    <3> HIDE DEF NoEntry
    <3> QED BY <3>1, <3>3, <3>4, <3>5, <3>6, <3>7, <3>8
  <2> QED BY <2>2, <2>3, <2>5, <2>6 DEF DataTypes, LoopTypes
<1> QED BY <1>2, <1>3

(* A lock is only taken of an inode that is read.                          *)
LEMMA LockedKept ==
  ASSUME RootInv, NEW p \in Procs, Does(p)
  PROVE  LockedIsValid'
<1>1. /\ ref \in [Slots -> Nat] /\ valid \in [Slots -> BOOLEAN] /\ lock \in [Slots -> SUBSET Procs]
      /\ LockedIsValid /\ OneHolder
  BY DEF RootInv, Does, DataTypes, RefInv, Types, LockInv
<1>2. \A s \in Slots, q \in Procs : q \in lock[s] => ref[s] > 0
  <2> SUFFICES ASSUME NEW s \in Slots, NEW q \in Procs, q \in lock[s] PROVE ref[s] > 0
    OBVIOUS
  <2>1. PICK r \in Regs : At(q, r) = s
    BY DEF Does, LockInv, HoldsFit
  <2>2. s # 0 /\ RefInv
    BY DEF Slots, Does
  <2> QED BY <2>1, <2>2, PointerTypes
<1>3. CASE Stops
  BY <1>1, <1>3 DEF Stops, cache, LockedIsValid
<1>4. CASE ~Stops
  <2>1. StepOf(p) /\ DataFrame(p) /\ DataStep(p)
    BY <1>4 DEF Does, Steps
  <2>2. \/ pc[p] = "ilock" /\ Takes(p, which[p])
        \/ pc[p] = "iput" /\ LastPut(At(p, "put")) /\ Takes(p, "put")
        \/ pc[p] \notin {"ilock", "iput_invalid"} /\ lock' = lock
        \/ pc[p] \notin {"ilock", "iput_invalid"} /\ \E r : Gives(p, r)
        \/ pc[p] = "iput_invalid" /\ Gives(p, "put")
    BY <1>4, <2>1 DEF StepOf, InnerStep, FileStep, PathStep, DirectoryStep, InodeStep, CallStep,
      ReturnStep, GivesPut, Found
  <2>3. /\ pc[p] \notin {"ilock", "iput_invalid"} => ValidKept
        /\ pc[p] = "iput_invalid" => valid' = [valid EXCEPT ![At(p, "put")] = FALSE]
        /\ pc[p] = "ilock" => /\ valid' = [valid EXCEPT ![At(p, which[p])] = TRUE]
                              /\ At(p, which[p]) \in Slots
    BY <2>1 DEF DataFrame, DataStep, Reads
  <2>4. CASE pc[p] = "ilock"
    BY <1>1, <2>2, <2>3, <2>4 DEF LockedIsValid, Takes
  <2>5. CASE pc[p] = "iput_invalid"
    <3>1. At(p, "put") \in Slots /\ p \in lock[At(p, "put")]
      BY <2>5, RegsAre DEF Does, LockInv, HoldsFit, Holds, Frees
    <3>2. lock' = [lock EXCEPT ![At(p, "put")] = {}]
      BY <1>1, <2>2, <2>5, <3>1 DEF Gives, Unlocked, OneHolder
    <3> QED BY <1>1, <2>3, <2>5, <3>1, <3>2 DEF LockedIsValid
  <2>6. CASE pc[p] \notin {"ilock", "iput_invalid"}
    <3>1. \A s \in Slots : lock[s] # {} => valid'[s]
      BY <1>1, <1>2, <2>3, <2>6 DEF LockedIsValid, ValidKept
    <3>2. \A s \in Slots : lock'[s] # {} => lock[s] # {} \/ (pc[p] = "iput" /\ s = At(p, "put") /\ valid[s])
      BY <1>1, <2>2, <2>6 DEF Takes, Gives, Unlocked, LastPut
    <3>3. pc[p] = "iput" => ref[At(p, "put")] > 0
      BY PointerTypes, RegsAre DEF Does, LockInv, NonNull, Putting
    <3>4. \A s \in Slots : valid[s] /\ ref[s] > 0 => valid'[s]
      BY <1>1, <2>3, <2>6 DEF ValidKept
    <3> QED BY <3>1, <3>2, <3>3, <3>4 DEF LockedIsValid
  <2> QED BY <2>4, <2>5, <2>6
<1> QED BY <1>3, <1>4

(* An inode that a call has locked is one in use.                          *)
LEMMA HeldIsUsed ==
  ASSUME RootInv, NEW p \in Procs, Does(p), NEW r \in Regs, Holds(p, r)
  PROVE  At(p, r) \in Slots /\ Used(At(p, r)) /\ inum[At(p, r)] \in Inodes
<1>1. At(p, r) \in Slots /\ p \in lock[At(p, r)]
  BY DEF Does, LockInv, HoldsFit
<1>2. ref[At(p, r)] > 0
  BY <1>1, PointerTypes DEF Does, Slots
<1> QED BY <1>1, <1>2 DEF RootInv, LockedIsValid, Used, DataTypes

(* What a call saves is of an inode it has locked, and it is the root only *)
(* when type and links are what they were.                                 *)
LEMMA SavesHeld ==
  ASSUME RootInv, NEW p \in Procs, Does(p), DataStep(p)
  PROVE  \/ UNCHANGED <<copy, dinode>> /\ pc[p] # "ilock"
         \/ Reads(p) /\ pc[p] = "ilock"
         \/ (\E r \in Regs : Holds(p, r) /\ Patches(p, r)) /\ pc[p] # "ilock"
         \/ /\ pc[p] # "ilock"
            /\ \E r \in Regs : /\ Holds(p, r)
                               /\ \/ Saves(p, r, TypeAt(p, r), NlinkAt(p, r))
                                  \/ /\ inum[At(p, r)] # ROOTINO
                                     /\ \E t, n : Saves(p, r, t, n) /\ t \in {Free, TypeAt(p, r)}
         \/ Allocates(p) /\ off[p] \in Inodes /\ pc[p] # "ilock"
<1>1. FilesFit(p) /\ NonNull(p) /\ DataTypes
  BY DEF RootInv, Does, LockInv
<1>2. /\ pc[p] = "itrunc" \/ pc[p] = "iput_free" => Holds(p, "put")
      /\ pc[p] \in {"bmap", "bzero"} => Holds(p, "fd")
      /\ pc[p] \in {"create_init", "drop_link", "link_locked"} => Holds(p, "ip")
  BY DEF Holds, Frees, Copies, LocksIp, Where, Inner, Putting
<1>3. /\ pc[p] = "iput_free" => inum[At(p, "put")] # ROOTINO
      /\ pc[p] \in {"create_init", "drop_link"} => inum[At(p, "ip")] # ROOTINO
  BY <1>1 DEF FilesFit, NonNull, IsFile, FileIp, Frees, LocksIp, Where, Inner, Putting
<1>4. pc[p] = "link_locked" /\ TypeAt(p, "ip") # "dir" => inum[At(p, "ip")] # ROOTINO
  BY <1>2, HeldIsUsed, RegsAre DEF RootInv, RootCopies, TypeAt
<1>5. pc[p] = "ialloc" /\ off[p] <= NINODES => off[p] \in Inodes
  BY <1>1, Sizes DEF FilesFit, Inodes, DataTypes
<1> QED BY <1>2, <1>3, <1>4, <1>5, RegsAre DEF DataStep, Kept, Allocates

(* A step keeps the root the one directory, with one link and one name. *)
LEMMA RootKept ==
  ASSUME RootInv, NEW p \in Procs, Does(p), DataTypes'
  PROVE  RootInode' /\ RootCopies' /\ RootNames'
<1>1. /\ inum \in [Slots -> Inodes] /\ copy \in [Slots -> Fields] /\ dinode \in [Inodes -> Fields]
      /\ RootInode /\ RootCopies /\ RootNames /\ DOMAIN dirent = Entries /\ ROOTINO \in Inodes
  BY Sizes DEF RootInv, DataTypes, Inodes
<1>2. CASE Stops
  BY <1>1, <1>2 DEF Stops, cache, disk, RootInode, RootCopies, RootNames, Used
<1>3. CASE ~Stops
  <2>1. DataStep(p)
    BY <1>3 DEF Does
  <2>2. \A s \in Slots : Used(s)' => /\ inum'[s] = inum[s]
                                     /\ Used(s) \/ (pc[p] = "ilock" /\ s = At(p, which[p]))
    BY SlotsStep DEF Used
  <2>3. ASSUME UNCHANGED <<copy, dinode>>, pc[p] # "ilock" PROVE RootInode' /\ RootCopies'
    BY <1>1, <2>2, <2>3 DEF RootInode, RootCopies
  <2>4. ASSUME Reads(p), pc[p] = "ilock" PROVE RootInode' /\ RootCopies'
    <3> DEFINE t == At(p, which[p])
    <3>1. /\ dinode' = dinode /\ t \in Slots
          /\ copy' = IF valid[t] THEN copy ELSE [copy EXCEPT ![t] = dinode[inum[t]]]
      BY <2>4 DEF Reads
    <3>2. ref'[t] > 0 => ref[t] > 0
      BY <2>2, <2>4, <3>1, SlotsStep, LockedKept DEF Used, Reads, RootInv, DataTypes
    <3>3. \A s \in Slots : Used(s)' => \/ Used(s) /\ copy'[s] = copy[s] /\ inum'[s] = inum[s]
                                       \/ copy'[s] = dinode[inum[s]] /\ inum'[s] = inum[s]
      BY <1>1, <2>2, <3>1, <3>2 DEF Used
    <3> HIDE DEF t
    <3>4. RootInode'
      BY <1>1, <3>1 DEF RootInode
    <3>5. \A s \in Slots : Used(s)' => /\ copy'[s].type = "dir" <=> inum'[s] = ROOTINO
                                       /\ inum'[s] = ROOTINO => copy'[s].nlink = 1
      BY <1>1, <3>3 DEF RootInode, RootCopies
    <3> QED BY <3>4, <3>5 DEF RootCopies
  <2>5. ASSUME NEW r \in Regs, Patches(p, r), pc[p] # "ilock" PROVE RootInode' /\ RootCopies'
    BY <1>1, <2>2, <2>5 DEF RootInode, RootCopies, Patches
  <2>6. ASSUME Allocates(p), off[p] \in Inodes, pc[p] # "ilock" PROVE RootInode' /\ RootCopies'
    <3>1. ZeroInode("file").type = "file"
      BY ZeroFields
    <3> QED BY <1>1, <2>2, <2>6, <3>1 DEF RootInode, RootCopies, Allocates, Free
  <2>7. ASSUME NEW r \in Regs, Holds(p, r), NEW t, NEW n, Saves(p, r, t, n), pc[p] # "ilock",
               \/ t = TypeAt(p, r) /\ n = NlinkAt(p, r)
               \/ inum[At(p, r)] # ROOTINO /\ t \in {Free, TypeAt(p, r)}
        PROVE  RootInode' /\ RootCopies'
    <3> DEFINE s == At(p, r)
               i == inum[s]
    <3>1. s \in Slots /\ Used(s) /\ i \in Inodes
      BY <2>7, HeldIsUsed
    <3>2. PICK d \in Fields : /\ d.type = t /\ d.nlink = n /\ copy' = [copy EXCEPT ![s] = d]
                              /\ dinode' = [dinode EXCEPT ![i] = d]
      BY <2>7 DEF Saves, IUpdate
    <3>3. d.type = "dir" <=> i = ROOTINO
      BY <1>1, <2>7, <3>1, <3>2 DEF RootCopies, TypeAt, Free
    <3>4. i = ROOTINO => d.nlink = 1
      BY <1>1, <2>7, <3>1, <3>2 DEF RootCopies, NlinkAt
    <3> HIDE DEF s
    <3> QED BY <1>1, <2>2, <2>7, <3>1, <3>2, <3>3, <3>4 DEF RootInode, RootCopies
  <2>8. RootInode' /\ RootCopies'
    BY <2>1, <2>3, <2>4, <2>5, <2>6, <2>7, SavesHeld
  <2>9. RootNames'
    <3>1. \/ dirent' = dirent
          \/ \E k : dirent' = [dirent EXCEPT ![k] = NoEntry]
          \/ /\ pc[p] = "dirlink"
             /\ \E m, k : dirent' = [dirent EXCEPT ![k] = [name |-> m, inum |-> inum[At(p, "ip")]]]
      BY <2>1 DEF DataStep, Kept, Reads, Patches, Saves, Allocates
    <3>2. pc[p] = "dirlink" => inum[At(p, "ip")] # ROOTINO
      BY RegsAre DEF Does, LockInv, NonNull, RootInv, FilesFit, IsFile, FileIp, LinksIp, Where, Inner, Putting
    <3>3. ASSUME NEW k, NEW e, dirent' = [dirent EXCEPT ![k] = e], e.inum # ROOTINO
          PROVE  RootNames'
      BY <1>1, <3>3 DEF RootNames
    <3>4. NoEntry.inum # ROOTINO
      BY Sizes, EmptyEntry
    <3>5. \A m, i : [name |-> m, inum |-> i].inum = i
      OBVIOUS
    <3>6. CASE dirent' = dirent
      BY <1>1, <3>6 DEF RootNames
    <3> HIDE DEF NoEntry
    <3> QED BY <3>1, <3>2, <3>3, <3>4, <3>5, <3>6
  <2> QED BY <2>8, <2>9
<1> QED BY <1>2, <1>3

(* Pointers that are not changed still point to the same inode. *)
LEMMA PointersStay ==
  ASSUME NEW p \in Procs, Does(p), NEW q \in Procs, NEW r \in Regs, At(q, r) # 0
  PROVE  inum'[At(q, r)] = inum[At(q, r)]
<1>1. At(q, r) \in Slots /\ ref[At(q, r)] > 0
  BY PointerTypes DEF Does
<1> QED BY <1>1, SlotsStep

(* What is said of the files of another process stays true. *)
LEMMA OthersFit ==
  ASSUME RootInv, NEW p \in Procs, Does(p), NEW q \in Procs, q # p
  PROVE  FilesFit(q)'
<1>1. pc'[q] = pc[q] /\ ret'[q] = ret[q] /\ \A r \in Regs : At(q, r)' = At(q, r)
  BY DEF Does, Steps, Only
<1>2. off'[q] = off[q]
  BY DEF Does, DataFrame
<1>3. \A r \in Regs : At(q, r) # 0 => inum'[At(q, r)'] = inum[At(q, r)]
  BY <1>1, PointersStay
<1>4. FilesFit(q) /\ Where(q)' = Where(q)
  BY <1>1 DEF RootInv, Where
<1> QED BY <1>1, <1>2, <1>3, <1>4, RegsAre DEF FilesFit, IsFile

(* What is said of the files of a call is true where it goes. *)
LEMMA OwnFits ==
  ASSUME RootInv, NEW p \in Procs, Does(p), ~Stops
  PROVE  FilesFit(p)'
<1>1. StepOf(p) /\ DataFrame(p) /\ DataStep(p)
  BY DEF Does, Steps
<1>2. OpsFit(p) /\ NullsFit(p) /\ PlacesFit(p) /\ WhichFits(p) /\ NonNull(p) /\ FilesFit(p)
  BY DEF Does, RefInv, LockInv, RootInv
<1>3. \A r \in Regs : At(p, r) # 0 => inum'[At(p, r)] = inum[At(p, r)]
  BY PointersStay
<1>4. pc[p] \in {"namex", "namex_locked"} =>
      \/ AfterNamex(p) \in {"create_parent", "unlink_parent"} /\ WantsParent(p)
      \/ AfterNamex(p) = "dirlink" /\ op[p] = "link" /\ WantsParent(p) /\ At(p, "ip") # 0
      \/ AfterNamex(p) \in {"link_locked", "open_locked"} /\ ~WantsParent(p)
  BY <1>2 DEF OpsFit, NamexSteps, Where, Inner, Putting, AfterNamex, WantsParent
<1>5. NoInode(p) = "return" \/ (NoInode(p) = "link_bad" /\ op[p] = "link")
  BY DEF NoInode
<1> HIDE DEF AfterNamex, WantsParent, NoInode
<1>6. Where(p)' \in UsesDp /\ At(p, "dp")' # 0 => inum'[At(p, "dp")'] = ROOTINO
  <2>1. pc[p] = "namex_locked" /\ copy[At(p, "at")].type = "dir" => inum[At(p, "at")] = ROOTINO
    BY HeldIsUsed, RegsAre DEF Holds, RootInv, RootCopies
  <2>2. Where(p)' \in UsesDp =>
          \/ Where(p) \in UsesDp /\ At(p, "dp")' = At(p, "dp")
          \/ pc[p] = "namex_locked" /\ copy[At(p, "at")].type = "dir" /\ At(p, "dp")' = At(p, "at")
    BY <1>1, <1>2, <1>4, <1>5, RegsAre DEF StepOf, InnerStep, FileStep, PathStep, DirectoryStep, InodeStep,
      CallStep, ReturnStep, Stops, Go, GoILock, GoIPut, GivesPut, Got, Found, Doubled, Dropped, Moved,
      Shifted, Still, KeepsAllBut, OpsFit, Where, Inner, Putting, UsesDp
  <2> QED BY <1>2, <1>3, <2>1, <2>2, RegsAre DEF FilesFit
<1>7. Where(p)' \in FileIp => IsFile(p, "ip")'
  <2>1. pc[p] = "link_locked" /\ copy[At(p, "ip")].type # "dir" => inum[At(p, "ip")] # ROOTINO
    BY HeldIsUsed, RegsAre DEF Holds, Where, Inner, Putting, LocksIp, RootInv, RootCopies
  <2>2. name[p] # "." /\ Lookup(name[p]) # {} => dirent[Least(Lookup(name[p]))].inum # ROOTINO
    BY LookupIsIn DEF RootInv, RootNames
  <2>3. Where(p)' \in FileIp =>
          \/ At(p, "ip")' = 0
          \/ At(p, "ip")' = At(p, "ip") /\ Where(p) \in FileIp
          \/ /\ At(p, "ip")' = At(p, "ip") /\ pc[p] = "link_locked" /\ copy[At(p, "ip")].type # "dir"
          \/ pc[p] = "ialloc_get" /\ Got(p, "ip", off[p])
          \/ pc[p] = "unlink_parent" /\ name[p] # "." /\ Found(p, "ip")
    BY <1>1, <1>2, <1>4, <1>5, RegsAre DEF StepOf, InnerStep, FileStep, PathStep, DirectoryStep, InodeStep,
      CallStep, ReturnStep, Stops, Go, GoILock, GoIPut, GivesPut, Got, Found, Doubled, Dropped, Moved,
      Shifted, Still, KeepsAllBut, OpsFit, PlacesFit, NullsFit, Where, Inner, Putting, FileIp, NamexSteps,
      LinksIp, BeforeIp
  <2>4. ASSUME NEW i, Got(p, "ip", i), i # ROOTINO, At(p, "ip") = 0, At(p, "ip")' # 0
        PROVE  inum'[At(p, "ip")'] # ROOTINO
    BY <2>4, RegsAre DEF Got, Still, KeepsAllBut
  <2>5. pc[p] \in {"ialloc_get", "unlink_parent"} => At(p, "ip") = 0
    BY <1>2 DEF NullsFit, BeforeIp, Where, Inner, Putting
  <2>6. pc[p] = "ialloc_get" => off[p] # ROOTINO
    BY <1>2 DEF FilesFit
  <2>7. pc[p] = "unlink_parent" /\ name[p] # "." /\ Found(p, "ip") /\ At(p, "ip")' # 0
          => inum'[At(p, "ip")'] # ROOTINO
    BY <2>2, <2>4, <2>5 DEF Found
  <2>8. pc[p] = "ialloc_get" /\ Got(p, "ip", off[p]) /\ At(p, "ip")' # 0
          => inum'[At(p, "ip")'] # ROOTINO
    BY <2>4, <2>5, <2>6
  <2> QED BY <1>2, <1>3, <2>1, <2>3, <2>7, <2>8, RegsAre DEF FilesFit, IsFile
<1>8. pc'[p] \in Frees => IsFile(p, "put")'
  <2>1. pc'[p] \in Frees =>
          /\ At(p, "put")' = At(p, "put")
          /\ pc[p] \in Frees \/ (pc[p] = "iput" /\ LastPut(At(p, "put")))
    BY <1>1, <1>2, <1>4, <1>5, RegsAre DEF StepOf, InnerStep, FileStep, PathStep, DirectoryStep, InodeStep,
      CallStep, ReturnStep, Stops, Go, GoILock, GoIPut, GivesPut, Got, Found, Doubled, Dropped, Moved,
      Shifted, Still, KeepsAllBut, OpsFit, PlacesFit, Where, Inner, Putting, Frees
  <2>2. pc[p] = "iput" /\ LastPut(At(p, "put")) => inum[At(p, "put")] # ROOTINO
    <3>1. pc[p] = "iput" => At(p, "put") \in Slots /\ ref[At(p, "put")] > 0
      BY <1>2, RegsAre, PointerTypes DEF Does, NonNull, Putting
    <3> QED BY <3>1 DEF RootInv, RootCopies, Used, LastPut
  <2> QED BY <1>2, <1>3, <2>1, <2>2, RegsAre DEF FilesFit, IsFile
<1>9. /\ pc'[p] \in {"ialloc", "ialloc_get"} => off'[p] > 0
      /\ pc'[p] = "ialloc_get" => off'[p] \in Inodes \ {ROOTINO}
  <2>1. pc'[p] \in {"ialloc", "ialloc_get"} =>
          \/ pc[p] = "create_parent" /\ pc'[p] = "ialloc"
          \/ pc[p] = "ialloc"
    BY <1>1, <1>2, <1>4, <1>5 DEF StepOf, InnerStep, FileStep, PathStep, DirectoryStep, InodeStep,
      CallStep, ReturnStep, Stops, Go, GoILock, GoIPut, GivesPut, OpsFit, PlacesFit, WhichFits, LocksIp,
      Where, Inner, Putting
  <2>2. off[p] \in Nat /\ dinode[ROOTINO].type = "dir"
    BY Sizes DEF RootInv, DataTypes, RootInode, Inodes
  <2>3. CASE pc[p] = "create_parent" /\ pc'[p] = "ialloc"
    BY <1>1, <2>3 DEF DataFrame
  <2>4. CASE pc[p] = "ialloc"
    <3>1. \/ pc'[p] = "ialloc" /\ off'[p] = off[p] + 1
          \/ pc'[p] = "ialloc_get" /\ Allocates(p)
      BY <1>1, <2>4 DEF DataStep
    <3>2. off[p] > 0
      BY <1>2, <2>4 DEF FilesFit
    <3> QED BY <2>2, <2>4, <3>1, <3>2, Sizes DEF Allocates, Inodes, Free
  <2> QED BY <2>1, <2>3, <2>4
<1> QED BY <1>6, <1>7, <1>8, <1>9 DEF FilesFit

(* A step of a process keeps all of it. *)
LEMMA StepRoot ==
  ASSUME RootInv, NEW p \in Procs, Does(p), LoopTypes'
  PROVE  RootInv'
<1>1. DataTypes' /\ LockedIsValid' /\ RootInode' /\ RootCopies' /\ RootNames'
  BY RootTypes, LockedKept, RootKept
<1>2. CASE Stops
  <2>1. \A q \in Procs : FilesFit(q)'
    BY <1>2 DEF Stops, RootInv, cache, place, args, loop, FilesFit, IsFile, Where, At
  <2> QED BY <1>1, <2>1 DEF RootInv
<1>3. CASE ~Stops
  <2>1. \A q \in Procs : FilesFit(q)'
    BY <1>3, OwnFits, OthersFit
  <2> QED BY <1>1, <2>1 DEF RootInv
<1> QED BY <1>2, <1>3

(* The child of a fork is given one more pointer to a directory in use.    *)
LEMMA ForkRoot ==
  ASSUME RefInv, RootInv, NEW p \in Procs, Fork(p)
  PROVE  RootInv'
<1>1. PICK q \in Procs : pc[q] = "user" /\ At(q, "cwd") = 0 /\ IDup(q, "cwd", At(p, "cwd"))
  BY DEF Fork, Idle, Alive
<1>2. UNCHANGED <<inum, valid, lock, copy, disk, place, args, loop>>
  BY <1>1 DEF Fork, IDup
<1>3. \A u \in Procs, x \in Regs : x # "cwd" => At(u, x)' = At(u, x)
  BY <1>1 DEF IDup, At, RefInv, Types, Pointers
<1>4. DataTypes'
  BY <1>2 DEF RootInv, DataTypes, disk, args, loop
<1>5. \A s \in Slots : ref'[s] > 0 => ref[s] > 0
  <2>1. At(p, "cwd") # 0 /\ ref' = [ref EXCEPT ![At(p, "cwd")] = @ + 1]
    BY <1>1 DEF Fork, Alive, IDup
  <2>2. ref[At(p, "cwd")] > 0
    BY <2>1, RegsAre, PointerTypes
  <2> QED BY <2>1, <2>2 DEF RefInv, Types
<1>6. LockedIsValid' /\ RootInode' /\ RootCopies' /\ RootNames'
  BY <1>2, <1>5 DEF RootInv, LockedIsValid, RootInode, RootCopies, RootNames, Used, disk
<1>7. \A u \in Procs : FilesFit(u)'
  <2> TAKE u \in Procs
  <2>1. FilesFit(u)
    BY DEF RootInv
  <2> QED BY <1>2, <1>3, <2>1, RegsAre DEF FilesFit, IsFile, Where, place, loop
<1> QED BY <1>4, <1>6, <1>7 DEF RootInv

(* After a start the cache has no inode that was read.                     *)
LEMMA BootRoot ==
  ASSUME \A p \in Procs : pc[p] = "user", lock = [s \in Slots |-> {}],
         valid = [s \in Slots |-> FALSE], DataTypes, RootInode, RootNames
  PROVE  RootInv
<1>1. LockedIsValid /\ RootCopies
  BY DEF LockedIsValid, RootCopies, Used
<1>2. \A p \in Procs : FilesFit(p)
  BY DEF FilesFit, Where, Inner, Putting, UsesDp, FileIp, NamexSteps, LinksIp, LocksIp, Frees
<1> QED BY <1>1, <1>2 DEF RootInv

(* After a start the root is the one directory still. *)
LEMMA CrashRoot ==
  ASSUME RefInv, RootInv, Crash
  PROVE  RootInv'
<1>1. /\ \A p \in Procs : pc'[p] = "user"
      /\ lock' = [s \in Slots |-> {}] /\ valid' = [s \in Slots |-> FALSE]
      /\ inum' = [s \in Slots |-> ROOTINO] /\ copy' = [s \in Slots |-> ZeroInode(Free)]
      /\ UNCHANGED <<disk, args, loop>>
  BY DEF Crash, Idle, place
<1>2. DataTypes'
  <2>1. ROOTINO \in Inodes /\ ZeroInode(Free) \in Fields
    BY Sizes, ZeroFields DEF Inodes
  <2>2. inum' \in [Slots -> Inodes] /\ valid' \in [Slots -> BOOLEAN] /\ copy' \in [Slots -> Fields]
    BY <1>1, <2>1
  <2> QED BY <1>1, <2>2 DEF RootInv, DataTypes, disk, args, loop
<1>3. RootInode' /\ RootNames'
  BY <1>1 DEF RootInv, RootInode, RootNames, disk
<1>4. LockedIsValid' /\ RootCopies'
  BY <1>1 DEF LockedIsValid, RootCopies, Used
<1>5. \A p \in Procs : FilesFit(p)'
  BY <1>1 DEF FilesFit, Where, Inner, Putting, UsesDp, FileIp, NamexSteps, LinksIp, LocksIp, Frees
<1> QED BY <1>2, <1>3, <1>4, <1>5 DEF RootInv

(* At first the root is the only inode. *)
LEMMA InitRoot == Init => RootInv
<1> SUFFICES ASSUME Init PROVE RootInv
  OBVIOUS
<1>1. /\ BootCache /\ content = [b \in Blocks |-> ZeroBlock]
      /\ dinode = [i \in Inodes |-> IF i = ROOTINO THEN RootDinode ELSE ZeroInode(Free)]
      /\ dirent = [k \in Entries |-> IF k = 1 THEN [name |-> ".", inum |-> ROOTINO] ELSE NoEntry]
      /\ pc = [p \in Procs |-> "user"]
      /\ path = [p \in Procs |-> <<>>] /\ newpath = [p \in Procs |-> <<>>]
      /\ DOMAIN name = Procs
      /\ off = [p \in Procs |-> 0] /\ end = [p \in Procs |-> 0] /\ blk = [p \in Procs |-> 0]
  <2>1. \E n : name = [p \in Procs |-> n]
    BY Zenon DEF Init
  <2>2. DOMAIN name = Procs
    BY <2>1
  <2> QED BY <2>2, Zenon DEF Init
<1>2. ROOTINO \in Inodes /\ ROOTINO \in 0 .. NINODES /\ 0 \in 0 .. NINODES /\ 0 \notin Inodes
  BY Sizes DEF Inodes
<1>3. /\ RootDinode \in Fields /\ RootDinode.type = "dir" /\ RootDinode.nlink = 1
      /\ ZeroInode(Free) \in Fields /\ ZeroInode(Free).type = Free
  BY ZeroFields, RootFields
<1>5. dinode \in [Inodes -> Fields] /\ RootInode
  BY <1>1, <1>2, <1>3 DEF RootInode, Free
<1>6. /\ \A k \in Entries : dirent[k].inum \in {0, ROOTINO} /\ (dirent[k].inum = ROOTINO => dirent[k].name = ".")
      /\ DOMAIN dirent = Entries
  <2>1. \A k \in Entries : dirent[k] = IF k = 1 THEN [name |-> ".", inum |-> ROOTINO] ELSE NoEntry
    BY <1>1
  <2>2. ROOTINO # 0 /\ NoEntry.inum = 0
    BY Sizes, EmptyEntry
  <2>3. DOMAIN dirent = Entries
    BY <1>1
  <2> HIDE DEF NoEntry
  <2> QED BY <2>1, <2>2, <2>3
<1>7. RootNames /\ \A k \in Entries : dirent[k].inum \in 0 .. NINODES
  BY <1>2, <1>6 DEF RootNames
<1>8. /\ inum \in [Slots -> Inodes] /\ valid \in [Slots -> BOOLEAN] /\ copy \in [Slots -> Fields]
      /\ valid = [s \in Slots |-> FALSE] /\ lock = [s \in Slots |-> {}]
  BY <1>1, <1>2, <1>3 DEF BootCache
<1>9. content \in [Blocks -> [0 .. NINDIRECT - 1 -> 0 .. NBLOCK]]
  <2>1. ZeroBlock \in [0 .. NINDIRECT - 1 -> 0 .. NBLOCK]
    BY Sizes DEF ZeroBlock
  <2> QED BY <1>1, <2>1
<1>10. /\ off \in [Procs -> Nat] /\ end \in [Procs -> Nat] /\ blk \in [Procs -> 0 .. NBLOCK]
  <2>1. 0 \in 0 .. NBLOCK
    BY Sizes
  <2> QED BY <1>1, <2>1
<1>11. path \in [Procs -> Seq(Names \cup {"."})] /\ newpath \in [Procs -> Seq(Names \cup {"."})]
  <2> DEFINE S == Seq(Names \cup {"."})
  <2>1. <<>> \in S
    OBVIOUS
  <2> HIDE DEF S
  <2>2. path \in [Procs -> S] /\ newpath \in [Procs -> S]
    BY <1>1, <2>1
  <2> QED BY <2>2 DEF S
<1>12. DataTypes
  BY <1>1, <1>5, <1>6, <1>7, <1>8, <1>9, <1>10, <1>11 DEF DataTypes
<1> QED BY <1>1, <1>5, <1>7, <1>8, <1>12, BootRoot

(* The directory grows by a block, or the machine panics. *)
LEMMA GrowSteps ==
  ASSUME DataTypes, RefInv, LockInv, NEW p \in Procs, panic = "none", DirGrow(p)
  PROVE  GrowStep(p)
<1> DEFINE s == At(p, "dp")  c == copy[s]  n == c.size  i == c.addrs[NDIRECT]
           new == n >= NDIRECT /\ i = 0
           a == IF new THEN Least(Unused) ELSE i
           b == Least(Unused \ {a})
<1>1. pc[p] = "dirlink" /\ UNCHANGED <<inum, ref, valid, lock, dirent, ptr, place, args, loop, orphans>>
  BY DEF DirGrow, Panic, cache, disk
<1>2. s \in Slots /\ c \in Fields
  BY <1>1, RegsAre, PointerTypes DEF LockInv, NonNull, Where, Inner, Putting, UsesDp, DataTypes
<1>3. CASE n >= MAXFILE \/ Unused = {} \/ Unused \ {a} = {}
  BY <1>1, <1>2, <1>3 DEF DirGrow, Panic, GrowStep, cache, disk
<1>4. CASE ~(n >= MAXFILE) /\ Unused # {} /\ Unused \ {a} # {}
  <2>1. n \in Nat /\ c.addrs \in [0 .. NDIRECT -> 0 .. NBLOCK] /\ i \in 0 .. NBLOCK /\ n < MAXFILE
    BY <1>2, <1>4, Sizes DEF Fields, MAXFILE
  <2>2. Unused \subseteq Blocks /\ Blocks \subseteq 0 .. NBLOCK
    BY Sizes DEF Unused, Blocks
  <2>3. Least(Unused) \in Unused
    BY <1>4, <2>2, Sizes, LeastOf, Zenon
  <2>4. b \in Unused \ {a}
    <3> HIDE DEF a
    <3>1. Unused \ {a} \subseteq 0 .. NBLOCK
      BY <2>2
    <3> QED BY <1>4, <3>1, Sizes, LeastOf, Zenon
  <2>5. a \in 0 .. NBLOCK /\ b \in Blocks
    BY <2>1, <2>2, <2>3, <2>4
  <2> DEFINE e == [c EXCEPT !.size = n + 1,
                 !.addrs = IF n >= NDIRECT THEN [@ EXCEPT ![NDIRECT] = a] ELSE [@ EXCEPT ![n] = b]]
  <2>6. /\ used' = used \cup {b} \cup (IF new THEN {a} ELSE {}) /\ IUpdate(s, e) /\ panic' = panic
        /\ content' = [x \in Blocks |->
             IF x = b THEN ZeroBlock
             ELSE IF n >= NDIRECT /\ x = a
             THEN [(IF new THEN ZeroBlock ELSE content[a]) EXCEPT ![n - NDIRECT] = b]
             ELSE content[x]]
    BY <1>4 DEF DirGrow
  <2> HIDE DEF a, b
  <2>7. /\ e \in Fields /\ e.type = c.type /\ e.nlink = c.nlink /\ e.size = n + 1
        /\ e.addrs = IF n >= NDIRECT THEN [c.addrs EXCEPT ![NDIRECT] = a]
                     ELSE [c.addrs EXCEPT ![n] = b]
    <3> DEFINE f == IF n >= NDIRECT THEN [c.addrs EXCEPT ![NDIRECT] = a] ELSE [c.addrs EXCEPT ![n] = b]
    <3>1. f \in [0 .. NDIRECT -> 0 .. NBLOCK]
      BY <2>1, <2>2, <2>5
    <3>2. e = [c EXCEPT !.size = n + 1, !.addrs = f]
      BY <1>2 DEF Fields
    <3> DEFINE k == n + 1
    <3>3. k \in Nat
      BY <2>1
    <3> HIDE DEF f, e, c, k
    <3>4. e = [type |-> c.type, nlink |-> c.nlink, size |-> k, addrs |-> f]
      BY <1>2, <3>2 DEF Fields, k
    <3>5. e \in Fields /\ e.type = c.type /\ e.nlink = c.nlink /\ e.size = k /\ e.addrs = f
      BY <1>2, <3>1, <3>3, <3>4 DEF Fields
    <3> QED BY <3>5 DEF f, c, k
  <2> HIDE DEF e
  <2>8. IF new THEN a \in Unused ELSE a = i
    BY <2>3 DEF a
  <2>9. Grows(p, b, a)
    BY <2>1, <2>4, <2>6, <2>7, <2>8 DEF Grows
  <2> QED BY <1>1, <1>2, <2>5, <2>6, <2>9 DEF GrowStep
<1> QED BY <1>3, <1>4

LEMMA ParentKnown ==
  ASSUME RefInv, LockInv, RootInv, NEW p \in Procs, At(p, "dp") # 0, pc[p] \in Parents
  PROVE  inum[At(p, "dp")] = ROOTINO /\ Holds(p, "dp") /\ Used(At(p, "dp"))
<1> DEFINE s == At(p, "dp")
<1>1. s \in Slots /\ s # 0 /\ pc[p] \in Parents
  BY RegsAre, PointerTypes
<1>2. inum[s] = ROOTINO
  BY <1>1 DEF RootInv, FilesFit, Where, Inner, Putting, UsesDp, Parents
<1>3. Holds(p, "dp")
  BY <1>1 DEF Holds, Where, Inner, Putting, UsesDp, Parents
<1>4. p \in lock[s]
  BY <1>3, RegsAre DEF LockInv, HoldsFit
<1>5. ref[s] > 0
  BY <1>1, RegsAre, PointerTypes
<1> QED BY <1>1, <1>2, <1>3, <1>4, <1>5 DEF RootInv, LockedIsValid, Used, DataTypes

LEMMA GrowKnown ==
  ASSUME RefInv, LockInv, RootInv, NEW p \in Procs, GrowStep(p)
  PROVE  inum[At(p, "dp")] = ROOTINO /\ Holds(p, "dp") /\ Used(At(p, "dp"))
<1>1. At(p, "dp") \in Slots /\ pc[p] = "dirlink"
  BY Zenon DEF GrowStep
<1> QED BY <1>1, ParentKnown DEF Slots, Parents

(* The directory has its types and its name when it has grown. *)
LEMMA GrowRoot ==
  ASSUME RefInv, LockInv, RootInv, NEW p \in Procs, panic = "none", DirGrow(p)
  PROVE  RootInv'
<1> DEFINE s == At(p, "dp")
<1>1. GrowStep(p) /\ DataTypes
  BY GrowSteps DEF RootInv
<1>2. /\ s \in Slots /\ pc[p] = "dirlink"
      /\ UNCHANGED <<inum, ref, valid, lock, dirent, ptr, place, args, loop>>
  BY <1>1 DEF GrowStep
<1>3. inum[s] = ROOTINO
  BY <1>1, GrowKnown
<1>4. Used(s)
  BY <1>1, GrowKnown
<1>5. \A q \in Procs : FilesFit(q)'
  BY <1>2 DEF RootInv, FilesFit, IsFile, Where, At, place, loop
<1>6. CASE UNCHANGED <<copy, dinode, used, content>>
  BY <1>2, <1>5, <1>6 DEF RootInv, DataTypes, LockedIsValid, RootInode, RootCopies, RootNames, Used,
    args, loop
<1>7. ASSUME NEW b \in Blocks, NEW a \in 0 .. NBLOCK, Grows(p, b, a) PROVE RootInv'
  <2>1. PICK d \in Fields : d.type = copy[s].type /\ d.nlink = copy[s].nlink /\ IUpdate(s, d)
    BY <1>7 DEF Grows
  <2>2. copy' = [copy EXCEPT ![s] = d] /\ dinode' = [dinode EXCEPT ![ROOTINO] = d]
    BY <1>3, <2>1 DEF IUpdate
  <2>3. d.type = "dir" /\ d.nlink = 1 /\ ROOTINO \in Inodes
    BY <1>3, <1>4, <2>1, <1>2, Sizes DEF RootInv, RootCopies, Inodes
  <2>4. copy' \in [Slots -> Fields] /\ dinode' \in [Inodes -> Fields]
    BY <1>1, <2>2 DEF DataTypes
  <2>5. content' \in [Blocks -> [0 .. NINDIRECT - 1 -> 0 .. NBLOCK]]
    <3> DEFINE R == [0 .. NINDIRECT - 1 -> 0 .. NBLOCK]
    <3>1. ZeroBlock \in R /\ b \in 0 .. NBLOCK
      BY Sizes DEF ZeroBlock, Blocks
    <3>2. \A r \in R : \A j : [r EXCEPT ![j] = b] \in R
      BY <3>1
    <3>3. content \in [Blocks -> R]
      BY <1>1 DEF DataTypes
    <3> HIDE DEF R
    <3>4. content' \in [Blocks -> R]
      BY <1>7, <3>1, <3>2, <3>3 DEF Grows
    <3> QED BY <3>4 DEF R
  <2>6. DataTypes'
    BY <1>1, <1>2, <2>4, <2>5 DEF DataTypes, args, loop
  <2>7. LockedIsValid' /\ RootInode' /\ RootCopies' /\ RootNames'
    BY <1>1, <1>2, <1>3, <2>2, <2>3 DEF RootInv, LockedIsValid, RootInode, RootCopies, RootNames, Used,
      DataTypes
  <2> QED BY <1>5, <2>6, <2>7 DEF RootInv
<1> QED BY <1>1, <1>6, <1>7 DEF GrowStep

(* Every step keeps the root the one directory. *)
LEMMA NextRoot == RefInv /\ LockInv /\ RootInv /\ [Next]_vars => RootInv'
<1> SUFFICES ASSUME RefInv, LockInv, RootInv, [Next]_vars PROVE RootInv'
  OBVIOUS
<1>1. ASSUME NEW p \in Procs, panic = "none", Inside(p) \/ Call(p) PROVE RootInv'
  <2>1. Does(p) /\ LoopTypes'
    BY <1>1, CallsDo, CallTypes DEF RootInv
  <2> QED BY <2>1, StepRoot
<1>2. CASE UNCHANGED vars
  <2>1. UNCHANGED <<cache, disk, ptr, place, args, loop>>
    BY <1>2 DEF vars
  <2>2. DataTypes' /\ LockedIsValid' /\ RootInode' /\ RootCopies' /\ RootNames'
    BY <2>1 DEF RootInv, DataTypes, LockedIsValid, RootInode, RootCopies, RootNames, Used, cache,
      disk, args, loop
  <2>3. \A q \in Procs : FilesFit(q)'
    BY <2>1 DEF RootInv, FilesFit, IsFile, Where, At, cache, place, loop
  <2> QED BY <2>2, <2>3 DEF RootInv
<1> QED BY <1>1, <1>2, GrowRoot, ForkRoot, CrashRoot DEF Next, Halted

(* Whoever waits in ilock with a lock holds the root's, and waits for a    *)
(* file.                                                                   *)
LEMMA WaitersFit ==
  ASSUME RefInv, LockInv, RootInv
  PROVE  DeadlockNeedsPut
<1> SUFFICES ASSUME NEW p \in Procs, NEW q \in Procs, NEW r \in Procs,
                    NEW s \in Slots, p \in lock[s],
                    WaitsFor(p, q), WaitsFor(q, r), pc[p] # "iput", pc[q] # "iput"
             PROVE  FALSE
  BY DEF DeadlockNeedsPut
<1>1. \A u \in Procs : /\ WhichFits(u) /\ HoldsFit(u) /\ FilesFit(u) /\ OpsFit(u)
  BY DEF LockInv, RootInv, RefInv
<1>2. \A u \in Procs, x \in Regs : pc[u] = "ilock" /\ Holds(u, x) =>
        /\ inum[At(u, x)] = ROOTINO /\ Where(u) \in {"create_init", "unlink_locked"}
        /\ which[u] = "ip"
  BY <1>1 DEF Holds, WhichFits, HoldsFit, FilesFit, OpsFit, Where, Inner, Putting, UsesDp, LocksIp, LinksIp, Copies, Frees, Slots
<1>3. /\ pc[p] = "ilock" /\ At(p, which[p]) # 0 /\ q \in lock[At(p, which[p])]
      /\ pc[q] = "ilock"
  BY DEF WaitsFor
<1>4. Where(p) \in {"create_init", "unlink_locked"} /\ which[p] = "ip"
  <2>1. PICK x \in Regs : Holds(p, x)
    BY <1>1 DEF HoldsFit
  <2> QED BY <1>2, <1>3, <2>1
<1>5. inum[At(p, "ip")] # ROOTINO
  BY <1>1, <1>3, <1>4 DEF FilesFit, IsFile, FileIp
<1>6. inum[At(p, "ip")] = ROOTINO
  <2>1. At(p, which[p]) \in Slots
    BY <1>1, <1>3, PointerTypes, RegsAre DEF WhichFits
  <2>2. PICK x \in Regs : Holds(q, x) /\ At(q, x) = At(p, which[p])
    BY <1>1, <1>3, <2>1 DEF HoldsFit
  <2> QED BY <1>2, <1>3, <1>4, <2>2
<1> QED BY <1>5, <1>6

(* Of two calls that follow each other in a circle of calls waiting for    *)
(* each other one is in iput, for every number of processes and cache      *)
(* entries: nobody who waits in ilock holding an inode waits for somebody  *)
(* who waits in ilock himself.                                             *)
THEOREM CirclesNeedPuts == Spec => []DeadlockNeedsPut
<1> QED BY InitRefInv, NextRefInv, InitLockInv, NextLockInv, InitRoot, NextRoot, WaitersFit, PTL DEF Spec

------------------------------------------------------------------------------
(* What the cache says of an inode and what the disk says: they agree      *)
(* whenever nobody is truncating, extending or freeing the inode.          *)

(* What readi, writei and bmap do to the loop and to the inode. *)
LEMMA FileLoops ==
  ASSUME DataTypes, RefInv, LockInv, NEW p \in Procs, panic = "none",
         BMap(p) \/ BZero(p) \/ CopyUnit(p) \/ ReadI(p) \/ WriteI(p) \/ ReadWriteEnd(p)
  PROVE  Stops \/ LoopStep(p)
<1>1. DOMAIN pc = Procs /\ off \in [Procs -> Nat] /\ end \in [Procs -> Nat] /\ blk \in [Procs -> 0 .. NBLOCK]
  BY DEF RefInv, Types, DataTypes
<1>2. pc[p] \in Copies => At(p, "fd") \in Slots /\ copy[At(p, "fd")] \in Fields
  BY RegsAre, PointerTypes DEF LockInv, NonNull, Where, Inner, Putting, Copies, DataTypes
<1>3. CASE BMap(p)
  <2>1. CASE Unused = {} \/ off[p] >= MAXFILE
    BY <1>3, <2>1 DEF BMap, BAlloc, Panic, Stops
  <2>2. CASE Unused # {} /\ ~(off[p] >= MAXFILE)
    <3>1. Unused \subseteq 0 .. NBLOCK /\ 0 \notin Unused
      BY Sizes DEF Unused, Blocks
    <3>2. Least(Unused) \in Unused
      BY <2>2, <3>1, Sizes, LeastOf
    <3>3. /\ pc[p] = "bmap" /\ Kept /\ UNCHANGED <<off, end>> /\ blk' = [blk EXCEPT ![p] = Least(Unused)]
          /\ pc' = [pc EXCEPT ![p] = "bzero"] /\ off[p] < end[p] /\ BMapped(p, off[p]) = 0
      BY <1>3, <2>2 DEF BMap, BAlloc, Kept, Step, Goto, cache
    <3>4. blk'[p] # 0 /\ pc'[p] = "bzero"
      BY <1>1, <3>1, <3>2, <3>3
    <3> QED BY <3>3, <3>4 DEF LoopStep
  <2> QED BY <2>1, <2>2
<1>4. CASE CopyUnit(p)
  <2>1. /\ pc[p] = "bmap" /\ Kept /\ pc' = pc /\ end' = end /\ off' = [off EXCEPT ![p] = off[p] + 1]
        /\ BMapped(p, off[p]) # 0
    BY <1>4 DEF CopyUnit, Kept, cache, disk, place
  <2> QED BY <1>1, <2>1 DEF LoopStep
<1>5. CASE BZero(p)
  <2>1. /\ pc[p] = "bzero" /\ pc'[p] = "bmap" /\ UNCHANGED <<dinode, dirent, off, end>>
    BY <1>1, <1>5 DEF BZero, Step, Goto
  <2> QED BY <1>5, <2>1 DEF LoopStep, BZero
<1>6. CASE ReadI(p) \/ WriteI(p)
  <2>1. pc[p] = "rw_locked" /\ Kept /\ off' = off
    BY <1>6 DEF ReadI, WriteI, Transfer, Refused, loop, disk, cache, Kept
  <2>2. end[p] \in Nat /\ Size(p) \in Nat /\ off[p] \in Nat
    BY <1>1, <1>2, <2>1 DEF Copies, Size, File, Fields
  <2>3. Least({end[p], Size(p)}) <= Size(p)
    BY <2>2, LeastOf, end[p] + Size(p) \in Nat, {end[p], Size(p)} \subseteq 0 .. (end[p] + Size(p))
  <2>4. \/ pc'[p] = "return"
        \/ pc'[p] = "bmap" /\ off[p] <= Size(p) /\ (op[p] # "write" => end'[p] <= Size(p))
    BY <1>1, <1>6, <2>2, <2>3 DEF ReadI, WriteI, Transfer, Refused, Step, Goto
  <2> QED BY <2>1, <2>4 DEF LoopStep
<1>7. CASE ReadWriteEnd(p)
  <2>1. /\ pc[p] = "bmap" /\ pc'[p] = "return" /\ off[p] = end[p] /\ dirent' = dirent
        /\ IF op[p] = "write" /\ off[p] > Size(p)
           THEN IUpdate(File(p), [copy[File(p)] EXCEPT !.size = off[p]])
           ELSE UNCHANGED <<copy, dinode>>
    BY <1>1, <1>7 DEF ReadWriteEnd, Step, Goto
  <2> DEFINE e == [copy[At(p, "fd")] EXCEPT !.size = off[p]]
  <2>2. At(p, "fd") \in Slots /\ e \in Fields /\ e.type = TypeAt(p, "fd") /\ e.nlink = NlinkAt(p, "fd")
       /\ e.size = off[p] /\ e.addrs = copy[At(p, "fd")].addrs
    BY <1>1, <1>2, <2>1, SizeExcept DEF NlinkAt, TypeAt, Copies
  <2>3. IF op[p] = "write" /\ off[p] > Size(p) THEN IUpdate(At(p, "fd"), e) ELSE UNCHANGED <<copy, dinode>>
    BY <2>1 DEF File
  <2> HIDE DEF e
  <2> QED BY <2>1, <2>2, <2>3 DEF LoopStep, Saves, SavedSize, Kept
<1> QED BY <1>3, <1>4, <1>5, <1>6, <1>7

(* Nothing but these steps is done at their places. *)
LEMMA OthersLoop ==
  ASSUME DataTypes, NEW p \in Procs, Inside(p) \/ Call(p), pc[p] \in Copies
  PROVE  BMap(p) \/ BZero(p) \/ CopyUnit(p) \/ ReadI(p) \/ WriteI(p) \/ ReadWriteEnd(p)
  BY DEF Inside, Call, Idle, Copies, ILock, IPut, IPutFree, IPutInvalid, IPutDrop, ITrunc, ITruncEnd,
    NamexStart, Namex, NamexLocked, NamexStep, OpenLocked, CreateParent, CreateFound, CreateExists,
    IAlloc, IAllocGet, CreateInit, DirLink, DirLinkFound, DirLinkFailed, Linked, UnlinkParent,
    UnlinkLocked, DropLink, LinkLocked, LinkBad, LinkDone, Return

(* Whatever a process does, it does as these steps say. *)
LEMMA CallsDoCache ==
  ASSUME RefInv, LockInv, RootInv, CacheInv, NEW p \in Procs, panic = "none", Inside(p) \/ Call(p),
         DataTypes', ~Stops
  PROVE  CacheDoes(p)
  BY CallsDo, OthersLoop, FileLoops DEF CacheDoes, RootInv

(* Nobody else changes what a call has locked.                             *)
LEMMA HeldIsKept ==
  ASSUME NEW p \in Procs, RootInv, Does(p), ~Stops, NEW q \in Procs, q # p, NEW r \in Regs, Holds(q, r)
  PROVE  copy'[At(q, r)] = copy[At(q, r)]
<1> DEFINE s == At(q, r)
<1>1. s \in Slots /\ q \in lock[s]
  BY DEF Does, LockInv, HoldsFit
<1>2. \A x \in Regs : Holds(p, x) => At(p, x) \in Slots /\ p \in lock[At(p, x)]
  BY DEF Does, LockInv, HoldsFit
<1>3. \A x \in Regs : Holds(p, x) => At(p, x) # s
  BY <1>1, <1>2 DEF Does, LockInv, OneHolder
<1>4. pc[p] = "ilock" => At(p, which[p]) # s
  <2>1. StepOf(p)
    BY DEF Does, Steps
  <2>2. pc[p] = "ilock" => lock[At(p, which[p])] = {}
    BY <2>1 DEF StepOf, InnerStep, FileStep, PathStep, DirectoryStep, InodeStep, CallStep, ReturnStep, Takes
  <2> QED BY <1>1, <2>2
<1>5. copy \in [Slots -> Fields]
  BY DEF RootInv, DataTypes
<1> HIDE DEF s
<1>6. copy'[s] = copy[s]
  <2>1. CASE UNCHANGED copy
    BY <2>1
  <2>2. CASE Reads(p) /\ pc[p] = "ilock"
    BY <1>1, <1>4, <1>5, <2>2 DEF Reads
  <2>3. ASSUME NEW x \in Regs, Holds(p, x), Patches(p, x) PROVE copy'[s] = copy[s]
    BY <1>1, <1>3, <2>3 DEF Patches
  <2>4. ASSUME NEW x \in Regs, Holds(p, x), NEW t, NEW n, Saves(p, x, t, n) PROVE copy'[s] = copy[s]
    BY <1>1, <1>3, <1>5, <2>4 DEF Saves, IUpdate
  <2> QED BY <2>1, <2>2, <2>3, <2>4, SavesHeld DEF Does, Allocates
<1> QED BY <1>6 DEF s

(* What is said of the loops of another process stays true. *)
LEMMA OthersLoops ==
  ASSUME NEW p \in Procs, CacheDoes(p), NEW q \in Procs, q # p
  PROVE  LoopFits(q)'
<1>1. /\ pc'[q] = pc[q] /\ op'[q] = op[q] /\ At(q, "fd")' = At(q, "fd")
      /\ off'[q] = off[q] /\ end'[q] = end[q] /\ blk'[q] = blk[q]
  BY RegsAre DEF CacheDoes, Does, Steps, Only, DataFrame
<1>2. LoopFits(q)
  BY DEF CacheDoes, CacheInv
<1>3. pc[q] \in {"bmap", "bzero"} => copy'[At(q, "fd")] = copy[At(q, "fd")]
  BY HeldIsKept, RegsAre DEF CacheDoes, Holds, Copies
<1> QED BY <1>1, <1>2, <1>3 DEF LoopFits, File, Size

(* A block number more makes no hole. *)
LEMMA MappedGrows ==
  ASSUME NEW d \in Fields, NEW j \in 0 .. NDIRECT, NEW b \in 0 .. NBLOCK, b # 0
  PROVE  LET e == [d EXCEPT !.addrs[j] = b] IN
           /\ e \in Fields /\ e.type = d.type /\ e.nlink = d.nlink /\ e.size = d.size
           /\ \A k \in Nat : Mapped(d, k) => Mapped(e, k)
<1> DEFINE e == [d EXCEPT !.addrs[j] = b]
<1>1. /\ e \in Fields /\ e.type = d.type /\ e.nlink = d.nlink /\ e.size = d.size
      /\ e.addrs = [d.addrs EXCEPT ![j] = b]
  BY AddrsExcept
<1>2. DOMAIN d.addrs = 0 .. NDIRECT
  BY DEF Fields
<1> HIDE DEF e
<1>3. \A k \in 0 .. NDIRECT : d.addrs[k] # 0 => e.addrs[k] # 0
  BY <1>1, <1>2
<1>4. \A k \in Nat : Mapped(d, k) => Mapped(e, k)
  BY <1>3, Sizes DEF Mapped
<1> QED BY <1>1, <1>4 DEF e

(* What BZero leaves in the copy of the file. *)
LEMMA BZeroed ==
  ASSUME NEW p \in Procs, CacheDoes(p), pc[p] = "bzero"
  PROVE  LET s == File(p) IN
         /\ s \in Slots /\ Used(s) /\ pc'[p] = "bmap" /\ At(p, "fd")' = s
         /\ off'[p] = off[p] /\ end'[p] = end[p] /\ op'[p] = op[p] /\ dinode' = dinode
         /\ \A t \in Slots : t # s => copy'[t] = copy[t]
         /\ copy'[s].size = copy[s].size
         /\ copy'[s].type = copy[s].type /\ copy'[s].nlink = copy[s].nlink
         /\ \A k \in Nat : Mapped(copy[s], k) => Mapped(copy'[s], k)
         /\ copy' = copy \/ ~Mapped(copy[s], off[p])
<1> DEFINE s == File(p)
<1>1. s \in Slots /\ Used(s)
  BY HeldIsUsed, RegsAre DEF CacheDoes, Holds, Copies, File
<1>2. /\ LoopStep(p) /\ LoopFits(p) /\ copy \in [Slots -> Fields] /\ off[p] \in Nat
      /\ blk[p] \in 0 .. NBLOCK
  BY DEF CacheDoes, CacheInv, Does, DataTypes, Copies
<1>3. /\ pc'[p] = "bmap" /\ off'[p] = off[p] /\ end'[p] = end[p] /\ dinode' = dinode
      /\ \/ off[p] < NDIRECT /\ copy' = [copy EXCEPT ![s].addrs[off[p]] = blk[p]]
         \/ off[p] >= NDIRECT /\ Indirect(p) = 0 /\ copy' = [copy EXCEPT ![s].addrs[NDIRECT] = blk[p]]
         \/ copy' = copy
  BY <1>2 DEF LoopStep
<1>4. At(p, "fd")' = s /\ op'[p] = op[p]
  BY RegsAre DEF CacheDoes, Does, Steps, StepOf, InnerStep, FileStep, PathStep, DirectoryStep,
    InodeStep, CallStep, ReturnStep, Still, KeepsAllBut, File
<1>5. blk[p] # 0 /\ (off[p] < NDIRECT => copy[s].addrs[off[p]] = 0)
  BY <1>2 DEF LoopFits
<1>6. ASSUME NEW j \in 0 .. NDIRECT, copy' = [copy EXCEPT ![s].addrs[j] = blk[p]]
      PROVE  /\ \A t \in Slots : t # s => copy'[t] = copy[t]
             /\ copy'[s].size = copy[s].size
             /\ copy'[s].type = copy[s].type /\ copy'[s].nlink = copy[s].nlink
             /\ \A k \in Nat : Mapped(copy[s], k) => Mapped(copy'[s], k)
  <2> DEFINE e == [copy[s] EXCEPT !.addrs[j] = blk[p]]
  <2>1. /\ e.size = copy[s].size /\ e.type = copy[s].type /\ e.nlink = copy[s].nlink
        /\ \A k \in Nat : Mapped(copy[s], k) => Mapped(e, k)
    BY <1>1, <1>2, <1>5, MappedGrows
  <2>2. copy' = [copy EXCEPT ![s] = e]
    BY <1>6
  <2> HIDE DEF e, s
  <2> QED BY <1>1, <1>2, <2>1, <2>2
<1>7. off[p] < NDIRECT => ~Mapped(copy[s], off[p])
  BY <1>5 DEF Mapped
<1>8. off[p] >= NDIRECT /\ Indirect(p) = 0 => ~Mapped(copy[s], off[p])
  BY <1>2, Sizes DEF Mapped, Indirect
<1>9. NDIRECT \in 0 .. NDIRECT /\ (off[p] < NDIRECT => off[p] \in 0 .. NDIRECT)
  BY <1>2, Sizes
<1>10. CASE copy' = copy
  BY <1>1, <1>3, <1>4, <1>10
<1>11. CASE off[p] < NDIRECT /\ copy' = [copy EXCEPT ![s].addrs[off[p]] = blk[p]]
  BY <1>1, <1>3, <1>4, <1>6, <1>7, <1>9, <1>11
<1>12. CASE off[p] >= NDIRECT /\ Indirect(p) = 0 /\ copy' = [copy EXCEPT ![s].addrs[NDIRECT] = blk[p]]
  BY <1>1, <1>3, <1>4, <1>6, <1>8, <1>9, <1>12
<1> QED BY <1>3, <1>10, <1>11, <1>12

(* What is said of a loop is true of its next turn. *)
LEMMA OwnLoops ==
  ASSUME NEW p \in Procs, CacheDoes(p)
  PROVE  LoopFits(p)'
<1>1. LoopFits(p) /\ RefInv /\ LockInv
  BY DEF CacheDoes, CacheInv, Does
<1>2. OpsFit(p) /\ PlacesFit(p) /\ WhichFits(p)
  BY <1>1 DEF RefInv, LockInv
<1>3. pc'[p] \in {"bmap", "bzero"} => pc[p] \in Copies
  BY <1>2 DEF CacheDoes, Does, Steps, StepOf, InnerStep, FileStep, PathStep, DirectoryStep,
    InodeStep, CallStep, ReturnStep, Go, GoILock, GoIPut, GivesPut, AfterNamex, NoInode, OpsFit, PlacesFit, WhichFits,
    Where, Inner, Putting, Copies, LocksIp
<1>4. ASSUME pc[p] \in Copies, pc'[p] \in {"bmap", "bzero"} PROVE LoopFits(p)'
  <2>1. LoopStep(p)
    BY <1>4 DEF CacheDoes
  <2>2. At(p, "fd")' = At(p, "fd") /\ op'[p] = op[p]
    BY <1>4, RegsAre DEF CacheDoes, Does, Steps, StepOf, InnerStep, FileStep, PathStep, DirectoryStep,
      InodeStep, CallStep, ReturnStep, Still, KeepsAllBut, Copies
  <2>3. At(p, "fd") \in Slots /\ Used(At(p, "fd")) /\ copy[At(p, "fd")] \in Fields /\ off[p] \in Nat
    BY <1>4, HeldIsUsed, RegsAre DEF CacheDoes, Holds, Does, DataTypes
  <2>4. CASE pc[p] = "rw_locked"
    <3>1. NoHoles(copy[At(p, "fd")])
      <4>1. ~Truncates(At(p, "fd"))
        <5> SUFFICES ASSUME NEW q \in Procs, pc[q] = "itrunc", At(q, "put") = At(p, "fd") PROVE FALSE
          BY DEF Truncates
        <5>1. Holds(q, "put") /\ Holds(p, "fd")
          BY <2>4 DEF Holds, Copies, Frees
        <5>2. q \in lock[At(p, "fd")] /\ p \in lock[At(p, "fd")]
          BY <1>1, <5>1, RegsAre DEF LockInv, HoldsFit
        <5> QED BY <1>1, <2>3, <2>4, <5>2 DEF LockInv, OneHolder
      <4> QED BY <2>3, <4>1 DEF CacheDoes, CacheInv, CopyFits
    <3>2. /\ Kept /\ pc'[p] = "bmap" /\ off'[p] = off[p] /\ off[p] <= Size(p)
          /\ op[p] # "write" => end'[p] <= Size(p)
      BY <1>4, <2>1, <2>4 DEF LoopStep
    <3>3. Size(p) \in Nat
      BY <2>3 DEF Size, File, Fields
    <3>4. \A k \in Nat : k < off[p] => Mapped(copy[At(p, "fd")], k)
      BY <2>3, <3>1, <3>2, <3>3 DEF NoHoles, Size, File
    <3> QED BY <2>2, <3>2, <3>4 DEF LoopFits, File, Size, Kept
  <2>5. CASE pc[p] = "bmap" /\ pc'[p] = "bzero"
    <3>1. /\ Kept /\ off'[p] = off[p] /\ end'[p] = end[p] /\ off[p] < end[p]
          /\ BMapped(p, off[p]) = 0 /\ blk'[p] # 0
      BY <2>1, <2>5 DEF LoopStep
    <3>2. off[p] < NDIRECT => copy[File(p)].addrs[off[p]] = 0
      BY <3>1 DEF BMapped
    <3> QED BY <1>1, <2>2, <2>5, <3>1, <3>2 DEF LoopFits, File, Size, Kept
  <2>6. CASE pc[p] = "bmap" /\ pc'[p] = "bmap"
    <3>1. Kept /\ off'[p] = off[p] + 1 /\ end'[p] = end[p] /\ BMapped(p, off[p]) # 0
      BY <2>1, <2>6 DEF LoopStep
    <3>2. Mapped(copy[File(p)], off[p])
      BY <3>1 DEF BMapped, Mapped, Indirect
    <3>3. \A k \in Nat : k < off[p] + 1 => k < off[p] \/ k = off[p]
      BY <2>3
    <3> QED BY <1>1, <2>2, <2>6, <3>1, <3>2, <3>3 DEF LoopFits, File, Size, Kept
  <2>7. CASE pc[p] = "bzero"
    BY <1>1, <2>2, <2>7, BZeroed DEF LoopFits, File, Size
  <2> QED BY <1>4, <2>4, <2>5, <2>6, <2>7 DEF Copies
<1> QED BY <1>3, <1>4 DEF LoopFits

(* Two holders of an inode's lock are one.                                 *)
LEMMA HoldersAgree ==
  ASSUME LockInv, NEW p \in Procs, NEW q \in Procs, NEW r \in Regs, NEW x \in Regs,
         Holds(p, r), Holds(q, x), At(p, r) = At(q, x)
  PROVE  p = q
<1>1. At(p, r) \in Slots /\ p \in lock[At(p, r)] /\ q \in lock[At(p, r)]
  BY DEF LockInv, HoldsFit
<1> QED BY <1>1 DEF LockInv, OneHolder

(* The steps that change an inode, by their place. *)
LEMMA SavesAre ==
  ASSUME RootInv, NEW p \in Procs, Does(p), ~Stops
  PROVE  \/ UNCHANGED <<copy, dinode>> /\ pc[p] \notin {"ilock", "itrunc", "bzero"}
         \/ Reads(p) /\ pc[p] = "ilock"
         \/ Patches(p, "put") /\ pc[p] = "itrunc" /\ pc'[p] = "itrunc"
         \/ Patches(p, "fd") /\ pc[p] = "bzero" /\ pc'[p] = "bmap"
         \/ /\ pc[p] \in {"itrunc", "bmap", "iput_free", "create_init", "drop_link", "link_locked"}
            /\ \E r \in Regs : \E t, n :
                 /\ Holds(p, r) /\ Saves(p, r, t, n)
                 /\ t = TypeAt(p, r) \/ (t = Free /\ r = "put" /\ pc'[p] = "iput_invalid")
                 /\ pc[p] = "itrunc" => r = "put" /\ pc'[p] = "iput_free"
                 /\ pc[p] = "bmap" => r = "fd" /\ pc'[p] = "return"
         \/ Allocates(p) /\ off[p] \in Inodes /\ pc[p] = "ialloc"
<1>1. FilesFit(p) /\ DataTypes /\ DataStep(p)
  BY DEF RootInv, Does
<1>2. /\ pc[p] = "itrunc" \/ pc[p] = "iput_free" => Holds(p, "put")
      /\ pc[p] \in {"bmap", "bzero"} => Holds(p, "fd")
      /\ pc[p] \in {"create_init", "drop_link", "link_locked"} => Holds(p, "ip")
  BY DEF Holds, Frees, Copies, LocksIp, Where, Inner, Putting
<1>3. pc[p] = "iput_free" => pc'[p] = "iput_invalid"
  BY DEF Does, Steps, StepOf, InnerStep, FileStep, PathStep, DirectoryStep, InodeStep, CallStep,
    ReturnStep, Go
<1>4. pc[p] = "ialloc" /\ off[p] <= NINODES => off[p] \in Inodes
  BY <1>1, Sizes DEF FilesFit, Inodes, DataTypes
<1> QED BY <1>1, <1>2, <1>3, <1>4, RegsAre DEF DataStep, Kept, Allocates

(* A copy that is about to be forgotten, or is being truncated or extended *)
(* by another process, is so after the step.                               *)
LEMMA OthersGoOn ==
  ASSUME NEW p \in Procs, CacheDoes(p), NEW s \in Slots
  PROVE  /\ Used(s)' /\ Invalidates(s) => Invalidates(s)'
         /\ Truncates(s) => Truncates(s)' \/ (pc[p] = "itrunc" /\ At(p, "put") = s)
         /\ Extends(s) /\ copy'[s].size = copy[s].size =>
               Extends(s)' \/ (pc[p] \in {"bmap", "bzero"} /\ At(p, "fd") = s)
<1>1. \A q \in Procs \ {p} :
        /\ pc'[q] = pc[q] /\ op'[q] = op[q] /\ At(q, "put")' = At(q, "put") /\ At(q, "fd")' = At(q, "fd")
        /\ end'[q] = end[q]
  BY RegsAre DEF CacheDoes, Does, Steps, Only, DataFrame
<1>2. pc[p] = "iput_invalid" /\ At(p, "put") = s => ~valid'[s]
  BY DEF CacheDoes, Does, DataFrame, DataTypes
<1> QED BY <1>1, <1>2 DEF Invalidates, Truncates, Extends, Used

(* itrunc: the inode is its own until it is saved.                         *)
LEMMA TruncatedFits ==
  ASSUME NEW p \in Procs, CacheDoes(p), pc[p] = "itrunc", NEW s, s = At(p, "put")
  PROVE  CopyFits(s)'
<1>1. /\ s \in Slots /\ inum'[s] = inum[s] /\ Used(s) /\ CopyFits(s) /\ copy[s] \in Fields
      /\ inum[s] \in Inodes
  BY HeldIsUsed, SlotsStep, RegsAre DEF CacheDoes, CacheInv, Holds, Frees, Used, Does, DataTypes
<1>2. At(p, "put")' = s
  BY RegsAre DEF CacheDoes, Does, Steps, StepOf, InnerStep, FileStep, PathStep, DirectoryStep,
    InodeStep, CallStep, ReturnStep, Still, KeepsAllBut
<1>3. ~Invalidates(s)
  <2> SUFFICES ASSUME NEW q \in Procs, pc[q] = "iput_invalid", At(q, "put") = s PROVE FALSE
    BY DEF Invalidates
  <2>1. Holds(q, "put") /\ Holds(p, "put")
    BY DEF Holds, Frees
  <2> QED BY <2>1, HoldersAgree, RegsAre DEF CacheDoes, Does
<1>4. \/ Patches(p, "put") /\ pc'[p] = "itrunc"
      \/ \E t, n : /\ Saves(p, "put", t, n) /\ t = TypeAt(p, "put")
  BY SavesAre DEF CacheDoes
<1>5. CASE Patches(p, "put") /\ pc'[p] = "itrunc"
  <2>1. Truncates(s)'
    BY <1>2, <1>5 DEF Truncates
  <2>2. copy'[s].type = copy[s].type /\ copy'[s].nlink = copy[s].nlink /\ dinode' = dinode
    BY <1>1, <1>5 DEF Patches
  <2> QED BY <1>1, <1>3, <2>1, <2>2 DEF CopyFits, CacheDoes, Does
<1>6. ASSUME NEW t, NEW n, Saves(p, "put", t, n), t = TypeAt(p, "put") PROVE CopyFits(s)'
  <2>1. PICK d \in Fields : d.type = t /\ d.size = 0 /\ IUpdate(s, d)
    BY <1>6 DEF Saves, SavedSize
  <2>2. copy'[s] = d /\ dinode'[inum[s]] = d
    BY <1>1, <2>1 DEF IUpdate, CacheDoes, Does, DataTypes
  <2>3. Clean(s)' /\ NoHoles(copy'[s])
    BY <1>1, <2>1, <2>2 DEF Clean, NoHoles
  <2>4. copy[s].type # Free
    BY <1>1, <1>3 DEF CopyFits, CacheDoes, Does
  <2> QED BY <1>1, <1>6, <2>1, <2>2, <2>3, <2>4 DEF CopyFits, Clean, TypeAt
<1> QED BY <1>1, <1>4, <1>5, <1>6

(* readi and writei: the inode is saved when it has grown.                 *)
LEMMA CopiedFits ==
  ASSUME NEW p \in Procs, CacheDoes(p), pc[p] \in {"bmap", "bzero"}, NEW s, s = At(p, "fd")
  PROVE  CopyFits(s)'
<1>1. /\ s \in Slots /\ inum'[s] = inum[s] /\ Used(s) /\ CopyFits(s) /\ copy[s] \in Fields
      /\ inum[s] \in Inodes /\ LoopFits(p) /\ LoopStep(p)
  BY HeldIsUsed, SlotsStep, RegsAre DEF CacheDoes, CacheInv, Holds, Copies, Used, Does, DataTypes
<1>2. At(p, "fd")' = s /\ op'[p] = op[p]
  BY RegsAre DEF CacheDoes, Does, Steps, StepOf, InnerStep, FileStep, PathStep, DirectoryStep,
    InodeStep, CallStep, ReturnStep, Still, KeepsAllBut
<1>3. ~Invalidates(s) /\ ~Truncates(s) /\ \A q \in Procs : pc[q] \in {"bmap", "bzero"} /\ At(q, "fd") = s => q = p
  <2>1. \A q \in Procs : /\ pc[q] \in {"iput_invalid", "itrunc"} => Holds(q, "put")
                         /\ pc[q] \in {"bmap", "bzero"} => Holds(q, "fd")
    BY DEF Holds, Frees, Copies
  <2>2. \A q \in Procs, x \in Regs : Holds(q, x) /\ At(q, x) = s => q = p
    BY <2>1, HoldersAgree, RegsAre DEF CacheDoes, Does
  <2> QED BY <2>1, <2>2, RegsAre DEF Invalidates, Truncates
<1>4. NoHoles(copy[s]) /\ copy[s].type # Free
      /\ copy[s].type = dinode[inum[s]].type /\ copy[s].nlink = dinode[inum[s]].nlink
  BY <1>1, <1>3 DEF CopyFits, CacheDoes, Does
<1>5. (op[p] = "write" /\ end[p] > copy[s].size) \/ Clean(s)
  BY <1>1, <1>3 DEF CopyFits, Extends
<1>6. off[p] \in Nat /\ end[p] \in Nat /\ copy[s].size \in Nat
  BY <1>1 DEF CacheDoes, Does, DataTypes, Fields
<1>7. CASE Kept /\ pc'[p] \in {"bmap", "bzero"} /\ end'[p] = end[p]
  <2>1. Extends(s)' \/ Clean(s)'
    BY <1>1, <1>2, <1>5, <1>7 DEF Extends, Clean, Kept
  <2> QED BY <1>1, <1>4, <1>7, <2>1 DEF CopyFits, Kept
<1>8. CASE Kept /\ pc[p] = "bmap" /\ off[p] = end[p] /\ ~(op[p] = "write" /\ off[p] > Size(p))
  <2>1. Clean(s)
    BY <1>5, <1>8 DEF Size, File
  <2> QED BY <1>1, <1>4, <1>8, <2>1 DEF CopyFits, Kept, Clean
<1>9. CASE pc[p] = "bmap" /\ Saves(p, "fd", TypeAt(p, "fd"), NlinkAt(p, "fd"))
  <2>1. PICK d \in Fields : d.type = TypeAt(p, "fd") /\ d.size = off[p] /\ d.addrs = copy[s].addrs /\ IUpdate(s, d)
    BY <1>9 DEF Saves, SavedSize
  <2>2. copy'[s] = d /\ dinode'[inum[s]] = d
    BY <1>1, <2>1 DEF IUpdate, CacheDoes, Does, DataTypes
  <2>3. NoHoles(d)
    BY <1>1, <1>9, <2>1 DEF NoHoles, LoopFits, Mapped, File
  <2> QED BY <1>1, <1>4, <2>1, <2>2, <2>3 DEF CopyFits, Clean, TypeAt
<1>10. CASE pc[p] = "bzero"
  <2>1. /\ pc'[p] = "bmap" /\ end'[p] = end[p] /\ dinode' = dinode /\ copy'[s].size = copy[s].size
        /\ copy'[s].type = copy[s].type /\ copy'[s].nlink = copy[s].nlink
        /\ \A k \in Nat : Mapped(copy[s], k) => Mapped(copy'[s], k)
        /\ copy' = copy \/ ~Mapped(copy[s], off[p])
    BY <1>10, BZeroed DEF File
  <2>2. NoHoles(copy'[s])
    BY <1>4, <2>1 DEF NoHoles
  <2>3. off[p] < end[p] /\ (op[p] # "write" => end[p] <= copy[s].size)
    BY <1>1, <1>10 DEF LoopFits, Size, File
  <2>4. ~Mapped(copy[s], off[p]) => op[p] = "write" /\ end[p] > copy[s].size
    BY <1>4, <1>6, <2>3 DEF NoHoles
  <2>5. Extends(s)' \/ Clean(s)'
    BY <1>1, <1>2, <1>5, <2>1, <2>4 DEF Extends, Clean
  <2> QED BY <1>1, <1>4, <2>1, <2>2, <2>5 DEF CopyFits
<1> QED BY <1>1, <1>7, <1>8, <1>9, <1>10 DEF LoopStep

(* Every other step of a call, and every other inode.                      *)
LEMMA OthersCopies ==
  ASSUME NEW p \in Procs, CacheDoes(p), NEW s \in Slots, Used(s)',
         ~(pc[p] = "itrunc" /\ At(p, "put") = s),
         ~(pc[p] \in {"bmap", "bzero"} /\ At(p, "fd") = s)
  PROVE  CopyFits(s)'
<1>1. /\ inum'[s] = inum[s] /\ inum[s] \in Inodes /\ ref[s] > 0
      /\ valid[s] \/ (pc[p] = "ilock" /\ s = At(p, which[p]))
      /\ copy \in [Slots -> Fields] /\ dinode \in [Inodes -> Fields] /\ copy[s] \in Fields
      /\ panic = "none"
  BY SlotsStep DEF CacheDoes, Does, Used, DataTypes
<1>2. \A i \in Inodes : NoHoles(dinode[i])
  BY DEF CacheDoes, CacheInv
<1>3. Invalidates(s) => Invalidates(s)'
  BY OthersGoOn
<1>4. Truncates(s) => Truncates(s)'
  BY OthersGoOn
<1>5. Extends(s) /\ copy'[s].size = copy[s].size => Extends(s)'
  BY OthersGoOn
<1>6. Used(s) => CopyFits(s)
  BY DEF CacheDoes, CacheInv
<1>7. ASSUME Used(s), copy'[s] = copy[s], dinode'[inum[s]] = dinode[inum[s]] PROVE CopyFits(s)'
  <2>1. CopyFits(s)
    BY <1>6, <1>7
  <2> QED BY <1>1, <1>3, <1>4, <1>5, <1>7, <2>1 DEF CopyFits, Clean
<1>8. CASE UNCHANGED <<copy, dinode>> /\ pc[p] # "ilock"
  BY <1>1, <1>7, <1>8 DEF Used
<1>9. CASE Reads(p) /\ pc[p] = "ilock"
  <2> DEFINE t == At(p, which[p])
  <2>1. /\ dinode' = dinode /\ t \in Slots
        /\ copy' = IF valid[t] THEN copy ELSE [copy EXCEPT ![t] = dinode[inum[t]]]
        /\ ~valid[t] /\ dinode[inum[t]].type = Free => panic' = "ilock: no type"
    BY <1>9 DEF Reads
  <2>2. CASE Used(s) /\ copy'[s] = copy[s]
    BY <1>7, <2>1, <2>2
  <2>3. CASE s = t /\ ~valid[t]
    <3>1. copy'[s] = dinode[inum[s]]
      BY <1>1, <2>1, <2>3
    <3> QED BY <1>1, <1>2, <2>1, <2>3, <3>1 DEF CopyFits, Clean
  <2>4. Used(s) \/ (s = t /\ ~valid[t])
    BY <1>1 DEF Used, CacheDoes, Does, DataTypes
  <2>5. s # t \/ valid[t] => copy'[s] = copy[s]
    BY <1>1, <2>1
  <2> HIDE DEF t
  <2> QED BY <2>2, <2>3, <2>4, <2>5
<1>10. ASSUME NEW r \in Regs, Patches(p, r), At(p, r) # s, pc[p] # "ilock" PROVE CopyFits(s)'
  BY <1>1, <1>7, <1>10 DEF Patches, Used
<1>11. ASSUME NEW r \in Regs, NEW t, NEW n, Holds(p, r), Saves(p, r, t, n), pc[p] # "ilock",
              t = TypeAt(p, r) \/ (t = Free /\ r = "put" /\ pc'[p] = "iput_invalid"),
              At(p, r) = s => pc[p] \notin {"itrunc", "bmap", "iput_invalid"}, pc[p] # "iput_drop"
       PROVE  CopyFits(s)'
  <2> DEFINE u == At(p, r)
  <2>1. PICK d \in Fields : /\ d.type = t /\ d.size = SavedSize(p, r) /\ d.addrs = copy[u].addrs
                            /\ copy' = [copy EXCEPT ![u] = d] /\ dinode' = [dinode EXCEPT ![inum[u]] = d]
    BY <1>11 DEF Saves, IUpdate
  <2>2. Used(s) /\ u \in Slots /\ Used(u)
    BY <1>1, <1>11, HeldIsUsed DEF Used, CacheDoes
  <2>3. CASE u # s
    <3>1. inum[u] # inum[s]
      BY <2>2, <2>3 DEF Used, CacheDoes, Does, RefInv, OneEntryPerInode
    <3> HIDE DEF u
    <3> QED BY <1>1, <1>7, <2>1, <2>2, <2>3, <3>1
  <2>4. CASE u = s
    <3>1. copy'[s] = d /\ dinode'[inum[s]] = d
      BY <1>1, <2>1, <2>4
    <3>2. d.size = copy[s].size
      BY <1>11, <2>1, <2>4 DEF SavedSize
    <3>3. NoHoles(copy[s]) => NoHoles(d)
      BY <2>1, <2>4, <3>2 DEF NoHoles, Mapped
    <3>4. ~Invalidates(s)
      <4> SUFFICES ASSUME NEW q \in Procs, pc[q] = "iput_invalid", At(q, "put") = s PROVE FALSE
        BY DEF Invalidates
      <4>1. Holds(q, "put")
        BY DEF Holds, Frees
      <4>2. p = q
        BY <1>11, <2>4, <4>1, HoldersAgree, RegsAre DEF CacheDoes, Does
      <4> QED BY <1>11, <2>4, <4>2
    <3>5. copy[s].type # Free
      BY <1>1, <1>6, <2>2, <3>4 DEF CopyFits
    <3>6. t = Free => Invalidates(s)'
      <4>1. t = Free => r = "put" /\ pc'[p] = "iput_invalid"
        BY <1>11, <2>4, <3>5 DEF TypeAt
      <4>2. t = Free => At(p, "put")' = At(p, "put")
        BY <4>1, RegsAre, <1>11 DEF CacheDoes, Does, Steps, StepOf, InnerStep, FileStep, PathStep, DirectoryStep,
          InodeStep, CallStep, ReturnStep, Still, KeepsAllBut, Go, GoILock, GoIPut, GivesPut, AfterNamex, NoInode,
          Dropped, RefInv, LockInv, OpsFit, PlacesFit, WhichFits, LocksIp, Where, Inner, Putting
      <4> QED BY <2>4, <4>1, <4>2 DEF Invalidates
    <3>7. ~Truncates(s)' => NoHoles(copy[s])
      BY <1>4, <1>6, <2>2 DEF CopyFits
    <3> QED BY <1>1, <2>1, <3>1, <3>3, <3>6, <3>7 DEF CopyFits, Clean
  <2> QED BY <2>3, <2>4
<1>12. CASE Allocates(p) /\ pc[p] = "ialloc"
  <2>1. copy' = copy /\ \A i \in Inodes : i # off[p] => dinode'[i] = dinode[i]
    BY <1>1, <1>12 DEF Allocates
  <2>2. dinode[off[p]].type = Free
    BY <1>12 DEF Allocates
  <2>3. CASE inum[s] # off[p]
    BY <1>1, <1>7, <1>12, <2>1, <2>3 DEF Used
  <2>4. CASE inum[s] = off[p]
    <3>1. CopyFits(s)
      BY <1>1, <1>6, <1>12 DEF Used
    <3>2. Invalidates(s)
      BY <1>1, <2>2, <2>4, <3>1 DEF CopyFits
    <3> QED BY <1>1, <1>3, <1>4, <2>1, <3>1, <3>2 DEF CopyFits
  <2> QED BY <2>3, <2>4
<1>13. "put" \in Regs /\ "fd" \in Regs
  BY RegsAre
<1>14. CASE Patches(p, "put") /\ pc[p] = "itrunc"
  BY <1>10, <1>13, <1>14
<1>15. CASE Patches(p, "fd") /\ pc[p] = "bzero"
  BY <1>10, <1>13, <1>15
<1>16. CASE /\ pc[p] \in {"itrunc", "bmap", "iput_free", "create_init", "drop_link", "link_locked"}
            /\ \E r \in Regs : \E t, n :
                 /\ Holds(p, r) /\ Saves(p, r, t, n)
                 /\ t = TypeAt(p, r) \/ (t = Free /\ r = "put" /\ pc'[p] = "iput_invalid")
                 /\ pc[p] = "itrunc" => r = "put" /\ pc'[p] = "iput_free"
                 /\ pc[p] = "bmap" => r = "fd" /\ pc'[p] = "return"
  <2>1. PICK r \in Regs : \E t, n :
                 /\ Holds(p, r) /\ Saves(p, r, t, n)
                 /\ t = TypeAt(p, r) \/ (t = Free /\ r = "put" /\ pc'[p] = "iput_invalid")
                 /\ pc[p] = "itrunc" => r = "put" /\ pc'[p] = "iput_free"
                 /\ pc[p] = "bmap" => r = "fd" /\ pc'[p] = "return"
    BY <1>16
  <2>2. At(p, r) = s => pc[p] \notin {"itrunc", "bmap", "iput_invalid"}
    BY <1>16, <2>1
  <2> QED BY <1>11, <1>16, <2>1, <2>2
<1> QED BY <1>8, <1>9, <1>12, <1>14, <1>15, <1>16, SavesAre DEF CacheDoes

(* What is saved has no holes either.                                      *)
LEMMA DisksFit ==
  ASSUME NEW p \in Procs, CacheDoes(p), NEW i \in Inodes
  PROVE  NoHoles(dinode[i])'
<1>1. /\ NoHoles(dinode[i]) /\ copy \in [Slots -> Fields] /\ dinode \in [Inodes -> Fields]
      /\ inum \in [Slots -> Inodes]
  BY DEF CacheDoes, CacheInv, Does, DataTypes
<1>2. CASE dinode' = dinode
  BY <1>1, <1>2 DEF NoHoles
<1>3. ASSUME NEW r \in Regs, NEW t, NEW n, Holds(p, r), Saves(p, r, t, n),
             pc[p] = "bmap" => r = "fd", pc[p] # "itrunc" => r # "put" \/ pc[p] = "iput_free"
      PROVE  NoHoles(dinode[i])'
  <2> DEFINE u == At(p, r)
  <2>1. u \in Slots /\ Used(u) /\ CopyFits(u)
    BY <1>3, HeldIsUsed DEF CacheDoes, CacheInv
  <2>2. PICK d \in Fields : /\ d.size = SavedSize(p, r) /\ d.addrs = copy[u].addrs
                            /\ dinode' = [dinode EXCEPT ![inum[u]] = d]
    BY <1>3 DEF Saves, IUpdate
  <2>3. NoHoles(d)
    <3>1. CASE pc[p] = "itrunc"
      BY <2>2, <3>1 DEF SavedSize, NoHoles
    <3>2. CASE pc[p] = "bmap"
      BY <1>3, <2>2, <3>2 DEF SavedSize, NoHoles, CacheDoes, CacheInv, LoopFits, File, Mapped
    <3>3. CASE pc[p] # "itrunc" /\ pc[p] # "bmap"
      <4>1. ~Truncates(u)
        <5> SUFFICES ASSUME NEW q \in Procs, pc[q] = "itrunc", At(q, "put") = u PROVE FALSE
          BY DEF Truncates
        <5>1. Holds(q, "put")
          BY DEF Holds, Frees
        <5> QED BY <1>3, <3>3, <5>1, HoldersAgree, RegsAre DEF CacheDoes, Does
      <4> QED BY <2>1, <2>2, <3>3, <4>1 DEF CopyFits, SavedSize, NoHoles, Mapped
    <3> QED BY <3>1, <3>2, <3>3
  <2> HIDE DEF u
  <2> QED BY <1>1, <2>1, <2>2, <2>3 DEF NoHoles
<1>4. CASE Allocates(p)
  <2>1. ZeroInode("file").size = 0
    BY ZeroFields
  <2> QED BY <1>1, <1>4, <2>1 DEF Allocates, NoHoles
<1>5. \/ dinode' = dinode
      \/ /\ pc[p] \in {"itrunc", "bmap", "iput_free", "create_init", "drop_link", "link_locked"}
         /\ \E r \in Regs : \E t, n : /\ Holds(p, r) /\ Saves(p, r, t, n)
                                      /\ pc[p] = "bmap" => r = "fd"
      \/ Allocates(p)
  BY SavesAre DEF CacheDoes, Reads, Patches
<1>6. \A r \in Regs : Holds(p, r) /\ r = "put" => pc[p] \in Frees
  BY DEF Holds
<1> QED BY <1>2, <1>3, <1>4, <1>5, <1>6 DEF Frees

(* A step of a process keeps the cache as the disk says. *)
LEMMA StepCache ==
  ASSUME NEW p \in Procs, CacheDoes(p)
  PROVE  CacheInv'
<1>1. ASSUME NEW s \in Slots, Used(s)' PROVE CopyFits(s)'
  BY <1>1, TruncatedFits, CopiedFits, OthersCopies
<1>2. \A q \in Procs : LoopFits(q)'
  BY OthersLoops, OwnLoops
<1> QED BY <1>1, <1>2, DisksFit DEF CacheInv

(* Nothing but pointers, or nothing at all, is changed.                    *)
LEMMA SameCache ==
  ASSUME CacheInv, UNCHANGED <<inum, valid, copy, disk, place, args, loop>>,
         \A s \in Slots : ref'[s] > 0 => ref[s] > 0,
         \A u \in Procs, x \in Regs : pc[u] # "user" => At(u, x)' = At(u, x),
         panic' = "none" => panic = "none"
  PROVE  CacheInv'
<1>1. \A s \in Slots : /\ Truncates(s)' <=> Truncates(s)
                       /\ Invalidates(s)' <=> Invalidates(s)
                       /\ Extends(s)' <=> Extends(s)
  BY RegsAre DEF Truncates, Invalidates, Extends, place, args, loop
<1>2. ASSUME NEW s \in Slots, Used(s)' PROVE CopyFits(s)'
  <2>1. CopyFits(s)
    BY <1>2 DEF CacheInv, Used
  <2> QED BY <1>1, <2>1 DEF CopyFits, Clean, disk
<1>3. ASSUME NEW u \in Procs PROVE LoopFits(u)'
  <2>1. LoopFits(u)
    BY DEF CacheInv
  <2>2. CASE pc[u] = "user"
    BY <2>2 DEF LoopFits, place
  <2>3. CASE pc[u] # "user"
    <3>1. At(u, "fd")' = At(u, "fd")
      BY <2>3, RegsAre
    <3> QED BY <2>1, <3>1 DEF LoopFits, place, args, loop, File, Size
  <2> QED BY <2>2, <2>3
<1>4. \A i \in Inodes : NoHoles(dinode[i])'
  BY DEF CacheInv, NoHoles, disk
<1> QED BY <1>2, <1>3, <1>4 DEF CacheInv

(* A fork changes no inode. *)
LEMMA ForkCache ==
  ASSUME RefInv, CacheInv, NEW p \in Procs, Fork(p), panic = "none"
  PROVE  CacheInv'
<1>1. PICK q \in Procs : pc[q] = "user" /\ At(q, "cwd") = 0 /\ IDup(q, "cwd", At(p, "cwd"))
  BY DEF Fork, Idle, Alive
<1>2. UNCHANGED <<inum, valid, copy, disk, place, args, loop>>
  BY <1>1 DEF Fork, IDup
<1>3. \A u \in Procs, x \in Regs : pc[u] # "user" => At(u, x)' = At(u, x)
  BY <1>1 DEF IDup, At, RefInv, Types, Pointers
<1>4. \A s \in Slots : ref'[s] > 0 => ref[s] > 0
  <2>1. At(p, "cwd") # 0 /\ ref' = [ref EXCEPT ![At(p, "cwd")] = @ + 1]
    BY <1>1 DEF Fork, Alive, IDup
  <2>2. ref[At(p, "cwd")] > 0
    BY <2>1, RegsAre, PointerTypes
  <2> QED BY <2>1, <2>2 DEF RefInv, Types
<1> QED BY <1>2, <1>3, <1>4, SameCache

(* After a start no inode is cached. *)
LEMMA BootCacheInv ==
  ASSUME \A p \in Procs : pc[p] = "user", valid = [s \in Slots |-> FALSE],
         \A i \in Inodes : NoHoles(dinode[i])
  PROVE  CacheInv
  BY DEF CacheInv, Used, LoopFits

(* So it is after a crash. *)
LEMMA CrashCache ==
  ASSUME CacheInv, Crash
  PROVE  CacheInv'
<1>1. /\ \A p \in Procs : pc'[p] = "user"
      /\ valid' = [s \in Slots |-> FALSE] /\ dinode' = dinode
  BY DEF Crash, Idle, place, disk
<1>2. \A i \in Inodes : NoHoles(dinode[i])'
  BY <1>1 DEF CacheInv, NoHoles
<1> QED BY <1>1, <1>2 DEF CacheInv, Used, LoopFits

(* At first no inode is cached, and none has a size. *)
LEMMA InitCache == Init => CacheInv
<1> SUFFICES ASSUME Init PROVE CacheInv
  OBVIOUS
<1>1. /\ BootCache /\ pc = [p \in Procs |-> "user"]
      /\ dinode = [i \in Inodes |-> IF i = ROOTINO THEN RootDinode ELSE ZeroInode(Free)]
  BY Zenon DEF Init
<1>2. NoHoles(ZeroInode(Free)) /\ NoHoles(RootDinode)
  <2>1. NoHoles(ZeroInode(Free))
    BY ZeroFields DEF NoHoles
  <2>2. RootDinode.size = 1 /\ RootDinode.addrs[0] = 1 /\ ~(NDIRECT < 1)
    BY RootFields, Sizes
  <2> DEFINE d == RootDinode
  <2> HIDE DEF d
  <2>3. NoHoles(d)
    BY <2>2, Sizes DEF NoHoles, Mapped, d
  <2> QED BY <2>1, <2>3 DEF d
<1>4. \A i \in Inodes : NoHoles(dinode[i])
  BY <1>1, <1>2
<1> QED BY <1>1, <1>4, BootCacheInv DEF BootCache

(* Nobody else works on the directory that grows. *)
LEMMA GrowAlone ==
  ASSUME RefInv, LockInv, RootInv, NEW p \in Procs, GrowStep(p), NEW q \in Procs
  PROVE  /\ pc[q] \in Copies => At(q, "fd") # At(p, "dp")
         /\ pc[q] \in Frees => At(q, "put") # At(p, "dp")
<1>1. Holds(p, "dp") /\ pc[p] = "dirlink"
  BY GrowKnown DEF GrowStep
<1>2. pc[p] \notin Copies \cup Frees
  BY <1>1 DEF Copies, Frees
<1>3. ASSUME pc[q] \in Copies PROVE At(q, "fd") # At(p, "dp")
  BY <1>1, <1>2, <1>3, HoldersAgree, RegsAre DEF Holds
<1>4. ASSUME pc[q] \in Frees PROVE At(q, "put") # At(p, "dp")
  BY <1>1, <1>2, <1>4, HoldersAgree, RegsAre DEF Holds
<1> QED BY <1>3, <1>4

(* The directory that has grown is still what the disk says. *)
LEMMA GrowCache ==
  ASSUME RefInv, LockInv, RootInv, CacheInv, NEW p \in Procs, panic = "none", DirGrow(p)
  PROVE  CacheInv'
<1> DEFINE s == At(p, "dp")  c == copy[s]  n == c.size
<1>1. GrowStep(p) /\ DataTypes
  BY GrowSteps DEF RootInv
<1>2. /\ s \in Slots /\ UNCHANGED <<inum, ref, valid, dirent, ptr, pc, place, op, args, end, off, blk>>
      /\ \A u \in Procs, x \in Regs : At(u, x)' = At(u, x)
  BY <1>1 DEF GrowStep, At, place, args, loop
<1>3. inum[s] = ROOTINO /\ Used(s)
  BY <1>1, GrowKnown
<1>4. CASE panic' # panic /\ UNCHANGED <<copy, dinode>>
  <2>1. \A t \in Slots : Used(t)' => CopyFits(t)
    BY <1>2 DEF CacheInv, Used
  <2>2. panic' # "none"
    BY <1>4
  <2>3. ASSUME NEW t \in Slots, Used(t)' PROVE CopyFits(t)'
    <3>1. /\ Truncates(t)' <=> Truncates(t)
          /\ Invalidates(t)' <=> Invalidates(t)
          /\ Extends(t)' <=> Extends(t)
      BY <1>2, <1>4, RegsAre DEF Truncates, Invalidates, Extends
    <3> QED BY <1>2, <1>4, <2>1, <2>2, <2>3, <3>1 DEF CopyFits, Clean
  <2>4. \A u \in Procs : LoopFits(u)'
    BY <1>2, <1>4, RegsAre DEF CacheInv, LoopFits, File, Size
  <2>5. \A i \in Inodes : NoHoles(dinode[i])'
    BY <1>4 DEF CacheInv, NoHoles
  <2> QED BY <2>3, <2>4, <2>5 DEF CacheInv
<1>5. ASSUME panic' = panic, NEW b \in Blocks, NEW a \in 0 .. NBLOCK, Grows(p, b, a) PROVE CacheInv'
  <2>1. PICK d \in Fields :
          /\ d.type = c.type /\ d.nlink = c.nlink /\ d.size = n + 1
          /\ d.addrs = IF n >= NDIRECT THEN [c.addrs EXCEPT ![NDIRECT] = a] ELSE [c.addrs EXCEPT ![n] = b]
          /\ IUpdate(s, d)
    BY <1>5 DEF Grows
  <2>2. copy' = [copy EXCEPT ![s] = d] /\ dinode' = [dinode EXCEPT ![ROOTINO] = d]
    BY <1>3, <2>1 DEF IUpdate
  <2>3. /\ copy'[s] = d /\ dinode'[ROOTINO] = d /\ \A t \in Slots \ {s} : copy'[t] = copy[t]
        /\ \A i \in Inodes \ {ROOTINO} : dinode'[i] = dinode[i]
    BY <1>1, <1>2, <2>2, Sizes DEF DataTypes, Inodes
  <2>4. \A q \in Procs : (pc[q] \in Copies => At(q, "fd") # s) /\ (pc[q] \in Frees => At(q, "put") # s)
    BY <1>1, GrowAlone
  <2>5. ~Truncates(s) /\ ~Invalidates(s) /\ CopyFits(s)
    BY <1>2, <1>3, <2>4 DEF Truncates, Invalidates, Frees, CacheInv
  <2>6. n \in Nat /\ c.addrs \in [0 .. NDIRECT -> 0 .. NBLOCK] /\ b # 0 /\ (n >= NDIRECT => a # 0)
    <3>1. c \in Fields /\ b # 0
      BY <1>1, <1>2 DEF DataTypes, Blocks
    <3>2. n >= NDIRECT => a # 0
      BY <1>5 DEF Grows, Unused, Blocks
    <3> QED BY <3>1, <3>2 DEF Fields
  <2>7. NoHoles(d)
    <3> SUFFICES ASSUME NEW k \in Nat, k < d.size PROVE Mapped(d, k)
      BY DEF NoHoles
    <3>1. k < n => Mapped(c, k)
      BY <2>5, <2>6 DEF CopyFits, NoHoles
    <3>2. k < n \/ k = n
      BY <2>1, <2>6
    <3> HIDE DEF c, n
    <3>3. CASE n >= NDIRECT
      BY <2>1, <2>6, <3>1, <3>2, <3>3, Sizes DEF Mapped
    <3>4. CASE ~(n >= NDIRECT)
      BY <2>1, <2>6, <3>1, <3>2, <3>4, Sizes DEF Mapped
    <3> QED BY <3>3, <3>4
  <2>8. ASSUME NEW t \in Slots, Used(t)' PROVE CopyFits(t)'
    <3>1. Truncates(t)' <=> Truncates(t)
      BY <1>2, RegsAre DEF Truncates
    <3>2. Invalidates(t)' <=> Invalidates(t)
      BY <1>2, RegsAre DEF Invalidates
    <3>3. CASE t = s
      BY <1>2, <1>3, <1>5, <2>1, <2>3, <2>5, <2>7, <3>1, <3>2, <3>3 DEF CopyFits, Clean
    <3>4. CASE t # s
      <4>1. inum[t] # ROOTINO /\ CopyFits(t)
        BY <1>2, <1>3, <2>8, <3>4 DEF RefInv, OneEntryPerInode, Used, CacheInv
      <4>2. inum[t] \in Inodes
        BY <1>1 DEF DataTypes
      <4>3. copy'[t] = copy[t] /\ dinode'[inum[t]] = dinode[inum[t]]
        BY <2>3, <3>4, <4>1, <4>2
      <4>4. Extends(t)' <=> Extends(t)
        BY <1>2, <4>3, RegsAre DEF Extends
      <4> QED BY <1>2, <1>5, <3>1, <3>2, <4>1, <4>3, <4>4 DEF CopyFits, Clean
    <3> QED BY <3>3, <3>4
  <2>9. ASSUME NEW u \in Procs PROVE LoopFits(u)'
    <3>1. LoopFits(u)
      BY DEF CacheInv
    <3>2. pc[u] \in Copies => At(u, "fd") \in Slots \ {s}
      <4>1. pc[u] \in Copies => Holds(u, "fd")
        BY DEF Holds
      <4> QED BY <2>4, <4>1, RegsAre DEF LockInv, HoldsFit
    <3>3. pc[u] \in Copies => copy'[At(u, "fd")] = copy[At(u, "fd")]
      BY <2>3, <3>2
    <3> QED BY <1>2, <3>1, <3>3, RegsAre DEF LoopFits, File, Size, Copies
  <2>10. \A i \in Inodes : NoHoles(dinode'[i])
    BY <2>3, <2>7 DEF CacheInv
  <2> QED BY <2>8, <2>9, <2>10 DEF CacheInv, NoHoles
<1> QED BY <1>1, <1>4, <1>5 DEF GrowStep

(* Every step keeps the cache as the disk says. *)
LEMMA NextCache == RefInv /\ LockInv /\ RootInv /\ CacheInv /\ RootInv' /\ [Next]_vars => CacheInv'
<1> SUFFICES ASSUME RefInv, LockInv, RootInv, CacheInv, RootInv', [Next]_vars PROVE CacheInv'
  OBVIOUS
<1>1. ASSUME NEW p \in Procs, panic = "none", Inside(p) \/ Call(p) PROVE CacheInv'
  <2>1. CASE Stops
    <3>1. \A s \in Slots : ref'[s] > 0 => ref[s] > 0
      BY <2>1 DEF Stops, cache
    <3>2. \A u \in Procs, x \in Regs : At(u, x)' = At(u, x)
      BY <2>1 DEF Stops, At
    <3> QED BY <2>1, <3>1, <3>2, SameCache DEF Stops, cache
  <2>2. CASE ~Stops
    BY <1>1, <2>2, CallsDoCache, StepCache DEF RootInv
  <2> QED BY <2>1, <2>2
<1>2. CASE UNCHANGED vars
  <2>1. \A s \in Slots : ref'[s] > 0 => ref[s] > 0
    BY <1>2 DEF vars, cache
  <2>2. \A u \in Procs, x \in Regs : At(u, x)' = At(u, x)
    BY <1>2 DEF vars, At
  <2> QED BY <1>2, <2>1, <2>2, SameCache DEF vars, cache
<1> QED BY <1>1, <1>2, GrowCache, ForkCache, CrashCache DEF Next, Halted

(* Whoever truncates, extends or frees an inode has its lock. *)
LEMMA CleanIsCurrent ==
  ASSUME RefInv, LockInv, CacheInv
  PROVE  CacheIsCurrent
<1> SUFFICES ASSUME NEW s \in Slots, ref[s] > 0, valid[s], lock[s] = {} PROVE Clean(s)
  BY DEF CacheIsCurrent, Clean
<1>1. \A q \in Procs, r \in Regs : Holds(q, r) => At(q, r) # s
  BY DEF LockInv, HoldsFit
<1>2. ~Truncates(s) /\ ~Invalidates(s) /\ ~Extends(s)
  BY <1>1, RegsAre DEF Truncates, Invalidates, Extends, Holds, Frees, Copies
<1> QED BY <1>2 DEF CacheInv, Used, CopyFits

(* Whoever finds an inode in the cache valid and unlocked finds what the   *)
(* disk says (FS.C:218: "i-node cache is write-through"), also after its   *)
(* number was freed and given to another file.                             *)
THEOREM CacheCurrent == Spec => []CacheIsCurrent
<1> QED BY InitRefInv, NextRefInv, InitLockInv, NextLockInv, InitRoot, NextRoot, InitCache, NextCache,
      CleanIsCurrent, PTL DEF Spec

------------------------------------------------------------------------------
(* Names and links: the link count of a file is the number of its names,   *)
(* and of the calls that have counted a name they have still to write, or  *)
(* to count down after they have cleared it.                               *)

------------------------------------------------------------------------------
(* What a step does to the pointers of its process. *)
LEMMA PointersStep ==
  ASSUME NEW p \in Procs, CacheDoes(p), panic' = "none"
  PROVE  \/ Rearranged(p)
         \/ Gets(p, "at", ROOTINO) /\ Kept
         \/ GetsNamed(p)
         \/ pc[p] = "ialloc_get" /\ Gets(p, "ip", off[p]) /\ Kept
<1>1. StepOf(p) /\ ~Stops /\ DataStep(p)
  BY DEF CacheDoes, Does, Steps
<1>2. ASSUME NEW r \in Regs \ {"put"}, NEW i, Got(p, r, i)
      PROVE  Gets(p, r, i)
  BY <1>2 DEF Got, Gets
<1>3. Still(p) => Rearranged(p)
  BY DEF Still, KeepsAllBut, Rearranged
<1>4. ASSUME NEW from \in Regs \ {"put"}, NEW to \in Regs, Moved(p, from, to)
      PROVE  Rearranged(p)
  BY <1>4 DEF Moved, KeepsAllBut, Rearranged
<1>5. ASSUME NEW from \in {"at", "dp"}, NEW to \in {"at", "ip"}, Shifted(p, from, to)
      PROVE  Rearranged(p)
  <2>1. \A x \in Regs : x \notin {"put", "next", from, to} => At(p, x)' = At(p, x)
    BY <1>5 DEF Shifted, KeepsAllBut
  <2> QED BY <1>5, <2>1, RegsAre DEF Shifted, Rearranged
<1>6. Doubled(p, "at", "cwd") => Rearranged(p)
  BY RegsAre DEF Doubled, KeepsAllBut, Rearranged
<1>7. Dropped(p) => Rearranged(p)
  BY RegsAre DEF Dropped, KeepsAllBut, Rearranged
<1>8. pc[p] \in {"namex_start", "namex_locked", "create_parent", "ialloc_get", "dirlink", "unlink_parent"} =>
         Kept \/ (pc[p] = "dirlink" /\ pc'[p] = "linked")
  BY <1>1 DEF DataStep
<1>9. \/ Rearranged(p)
      \/ pc[p] = "namex_start" /\ Got(p, "at", ROOTINO)
      \/ pc[p] \in {"namex_locked", "create_parent", "dirlink"} /\ Found(p, "next") /\ pc'[p] # "linked"
      \/ pc[p] = "unlink_parent" /\ Found(p, "ip")
      \/ pc[p] = "ialloc_get" /\ Got(p, "ip", off[p])
  BY <1>1, <1>3, <1>4, <1>5, <1>6, <1>7, RegsAre DEF StepOf, InnerStep, FileStep, PathStep, DirectoryStep,
    InodeStep, CallStep, ReturnStep, GivesPut, Go, GoILock, GoIPut
<1> QED BY <1>2, <1>8, <1>9, RegsAre DEF Found, GetsNamed

(* A count that is changed is of an entry that is pointed to.              *)
LEMMA RefStep ==
  ASSUME NEW p \in Procs, CacheDoes(p), panic' = "none", NEW s \in Slots
  PROVE  \/ ref'[s] = ref[s]
         \/ \E r \in Regs : At(p, r)' = s
         \/ At(p, "put") = s
<1>1. StepOf(p) /\ ~Stops
  BY DEF CacheDoes, Does, Steps
<1>2. \/ ref' = ref
      \/ \E t : /\ \/ ref' = [ref EXCEPT ![t] = @ + 1]
                   \/ ref' = [ref EXCEPT ![t] = @ - 1]
                /\ (\E r \in Regs : At(p, r)' = t) \/ At(p, "put") = t
  BY <1>1, RegsAre DEF StepOf, InnerStep, FileStep, PathStep, DirectoryStep, InodeStep, CallStep, ReturnStep,
    GivesPut, Still, Moved, Got, Found, Doubled, Shifted, Dropped
<1>3. ref \in [Slots -> Nat]
  BY DEF CacheDoes, Does, RefInv, Types
<1> QED BY <1>2, <1>3

(* At those steps only a call begins or ends to count a name. *)
LEMMA PendStep ==
  ASSUME NEW p \in Procs, CacheDoes(p), panic' = "none"
  PROVE  /\ Begins(p) => ~Pends(p) /\ Pends(p)'
         /\ Ends(p) => Pends(p) /\ ~Pends(p)'
         /\ ~Begins(p) /\ ~Ends(p) => (Pends(p)' <=> Pends(p))
         /\ Pends(p) \/ Pends(p)' => At(p, "ip") # 0
         /\ Pends(p)' => At(p, "ip")' = At(p, "ip")
<1>1. StepOf(p) /\ ~Stops
  BY DEF CacheDoes, Does, Steps
<1>2. OpsFit(p) /\ NullsFit(p) /\ PlacesFit(p) /\ WhichFits(p) /\ NonNull(p)
  BY DEF CacheDoes, Does, RefInv, LockInv
<1>3. pc[p] \in {"namex", "namex_locked"} =>
      \/ AfterNamex(p) \in {"create_parent", "unlink_parent"} /\ WantsParent(p) /\ op[p] # "link"
      \/ AfterNamex(p) = "dirlink" /\ op[p] = "link" /\ WantsParent(p) /\ At(p, "ip") # 0
      \/ AfterNamex(p) \in {"link_locked", "open_locked"} /\ ~WantsParent(p) /\ At(p, "ip") = 0
  BY <1>2 DEF OpsFit, NullsFit, NamexSteps, Where, Inner, Putting, AfterNamex, WantsParent
<1>4. pc[p] \in {"namex", "namex_locked"} =>
      \/ NoInode(p) = "return" /\ At(p, "ip") = 0
      \/ NoInode(p) = "link_bad" /\ op[p] = "link" /\ At(p, "ip") # 0
  BY <1>2 DEF NoInode, NullsFit, NamexSteps, Where, Inner, Putting
<1> HIDE DEF AfterNamex, WantsParent, NoInode
<1>5. Pends(p) => At(p, "ip") # 0
  BY <1>2 DEF Pends, NonNull, LocksIp, LinksIp
<1>6. /\ Begins(p) => ~Pends(p) /\ Pends(p)'
      /\ Ends(p) => Pends(p) /\ ~Pends(p)'
      /\ ~Begins(p) /\ ~Ends(p) => (Pends(p)' <=> Pends(p))
      /\ Pends(p)' => At(p, "ip")' = At(p, "ip") /\ At(p, "ip") # 0
  BY <1>1, <1>2, <1>3, <1>4, <1>5, RegsAre DEF StepOf, InnerStep, FileStep, PathStep, DirectoryStep, InodeStep,
      CallStep, ReturnStep, Go, GoILock, GoIPut, GivesPut, Got, Found, Doubled, Dropped, Moved,
      Shifted, Still, KeepsAllBut, OpsFit, PlacesFit, WhichFits, NullsFit, NonNull, Where, Inner, Putting,
      NamexSteps, LocksIp, LinksIp, BeforeIp, UsesDp, UsesAt, UsesNext, Creates, Pends, Begins, Ends
<1> QED BY <1>5, <1>6

(* What a call has locked is what the disk says, as to type and links.     *)
LEMMA HeldCopy ==
  ASSUME NEW p \in Procs, CacheDoes(p), NEW r \in Regs, Holds(p, r), pc[p] # "iput_invalid"
  PROVE  /\ At(p, r) \in Slots /\ Ino(p, r) \in Inodes
         /\ TypeAt(p, r) = dinode[Ino(p, r)].type /\ TypeAt(p, r) # Free
         /\ NlinkAt(p, r) = dinode[Ino(p, r)].nlink
<1>1. RootInv /\ CacheInv /\ Does(p) /\ LockInv /\ panic = "none"
  BY DEF CacheDoes, Does
<1>2. At(p, r) \in Slots /\ Used(At(p, r)) /\ Ino(p, r) \in Inodes
  BY <1>1, HeldIsUsed DEF Ino
<1>3. ~Invalidates(At(p, r))
  <2> SUFFICES ASSUME NEW u \in Procs, pc[u] = "iput_invalid", At(u, "put") = At(p, r) PROVE FALSE
    BY DEF Invalidates
  <2>1. Holds(u, "put") /\ "put" \in Regs
    BY RegsAre DEF Holds, Frees
  <2> QED BY <1>1, <2>1, HoldersAgree
<1> QED BY <1>1, <1>2, <1>3 DEF CacheInv, CopyFits, TypeAt, NlinkAt, Ino

(* What a step does to the type and the link count of an inode on disk. *)
LEMMA LinksStep ==
  ASSUME NEW p \in Procs, CacheDoes(p), NEW i \in Inodes
  PROVE  LinkStep(p, i)
<1>1. DataStep(p) /\ Does(p) /\ DOMAIN dinode = Inodes
  BY DEF CacheDoes, Does, DataTypes
<1>2. 0 \notin Slots
  BY DEF Slots
<1>3. /\ pc[p] \in {"iput_free", "itrunc"} => Holds(p, "put")
      /\ pc[p] = "bmap" => Holds(p, "fd")
      /\ pc[p] \in {"create_init", "drop_link", "link_locked"} => Holds(p, "ip")
  BY DEF Holds, Frees, Copies, LocksIp, Where, Inner, Putting
<1>4. ASSUME NEW r \in Regs, NEW t, NEW n, Saves(p, r, t, n), Holds(p, r), pc[p] # "iput_invalid"
      PROVE  /\ At(p, r) # 0 /\ dinode[Ino(p, r)].type # Free
             /\ IF i = Ino(p, r) THEN dinode'[i].type = t /\ dinode'[i].nlink = n
                ELSE dinode'[i] = dinode[i]
             /\ TypeAt(p, r) = dinode[Ino(p, r)].type /\ NlinkAt(p, r) = dinode[Ino(p, r)].nlink
  <2>1. PICK d \in Fields : d.type = t /\ d.nlink = n /\ dinode' = [dinode EXCEPT ![Ino(p, r)] = d]
    BY <1>4 DEF Saves, IUpdate, Ino
  <2> QED BY <1>1, <1>2, <1>4, <2>1, HeldCopy
<1>5. CASE UNCHANGED <<copy, dinode>> /\ ~Recounts(p)
  BY <1>5 DEF LinkStep
<1>6. CASE \/ Reads(p) /\ pc[p] = "ilock"
           \/ Patches(p, "put") /\ pc[p] = "itrunc"
           \/ Patches(p, "fd") /\ pc[p] = "bzero"
  BY <1>6 DEF LinkStep, Reads, Patches, Recounts
<1>7. CASE pc[p] = "itrunc" /\ Saves(p, "put", TypeAt(p, "put"), NlinkAt(p, "put"))
  BY <1>3, <1>4, <1>7, RegsAre DEF LinkStep, Recounts
<1>8. CASE pc[p] = "bmap" /\ Saves(p, "fd", TypeAt(p, "fd"), NlinkAt(p, "fd"))
  BY <1>3, <1>4, <1>8, RegsAre DEF LinkStep, Recounts
<1>9. CASE pc[p] = "iput_free" /\ Saves(p, "put", Free, NlinkAt(p, "put"))
  BY <1>3, <1>4, <1>9, RegsAre DEF LinkStep, Recounts
<1>10. CASE pc[p] = "create_init" /\ Saves(p, "ip", TypeAt(p, "ip"), 1)
  BY <1>3, <1>4, <1>10, RegsAre DEF LinkStep, Recounts, Recounted
<1>11. CASE pc[p] = "drop_link" /\ Saves(p, "ip", TypeAt(p, "ip"), NlinkAt(p, "ip") - 1)
  BY <1>3, <1>4, <1>11, RegsAre DEF LinkStep, Recounts, Recounted
<1>12. CASE pc[p] = "link_locked" /\ pc'[p] = "namex_start" /\ Saves(p, "ip", TypeAt(p, "ip"), NlinkAt(p, "ip") + 1)
  BY <1>3, <1>4, <1>12, RegsAre DEF LinkStep, Recounts, Recounted
<1>13. CASE pc[p] = "ialloc" /\ pc'[p] = "ialloc_get" /\ Allocates(p)
  <2>1. ZeroInode("file").type = "file" /\ ZeroInode("file").nlink = 0
    BY ZeroFields
  <2> QED BY <1>1, <1>13, <2>1 DEF LinkStep, Recounts, Allocates
<1>14. \/ UNCHANGED <<copy, dinode>> /\ ~Recounts(p)
       \/ Reads(p) /\ pc[p] = "ilock"
       \/ Patches(p, "put") /\ pc[p] = "itrunc"
       \/ Patches(p, "fd") /\ pc[p] = "bzero"
       \/ pc[p] = "itrunc" /\ Saves(p, "put", TypeAt(p, "put"), NlinkAt(p, "put"))
       \/ pc[p] = "bmap" /\ Saves(p, "fd", TypeAt(p, "fd"), NlinkAt(p, "fd"))
       \/ pc[p] = "iput_free" /\ Saves(p, "put", Free, NlinkAt(p, "put"))
       \/ pc[p] = "create_init" /\ Saves(p, "ip", TypeAt(p, "ip"), 1)
       \/ pc[p] = "drop_link" /\ Saves(p, "ip", TypeAt(p, "ip"), NlinkAt(p, "ip") - 1)
       \/ pc[p] = "link_locked" /\ pc'[p] = "namex_start" /\ Saves(p, "ip", TypeAt(p, "ip"), NlinkAt(p, "ip") + 1)
       \/ pc[p] = "ialloc" /\ pc'[p] = "ialloc_get" /\ Allocates(p)
  BY <1>1 DEF DataStep, Kept, Recounts
<1> QED BY <1>5, <1>6, <1>7, <1>8, <1>9, <1>10, <1>11, <1>12, <1>13, <1>14

(* Only dirlink and unlink change the directory. *)
LEMMA DirsStep ==
  ASSUME NEW p \in Procs, CacheDoes(p)
  PROVE  DirStep(p)
<1>1. DataStep(p)
  BY DEF CacheDoes, Does
<1> QED BY <1>1 DEF DataStep, DirStep, Kept, Reads, Patches, Saves, Allocates, Ino

------------------------------------------------------------------------------
(* The one pointer to an entry, the one entry of an inode, the one holder  *)
(* of the directory.                                                       *)
LEMMA LonePointer ==
  ASSUME RefInv, NEW s \in Slots, ref[s] = 1,
         NEW q \in Procs, NEW r \in Regs, At(q, r) = s,
         NEW u \in Procs, NEW x \in Regs, At(u, x) = s
  PROVE  q = u /\ r = x
<1> DEFINE S == {y \in Pointers : ptr[y] = s}
<1>1. IsFiniteSet(S) /\ Cardinality(S) = 1
  BY PointersFinite DEF RefInv, RefsAreCounted
<1>2. \E y : S = {y}
  <2> HIDE DEF S
  <2> QED BY <1>1, FS_Singleton
<1>3. <<q, r>> \in S /\ <<u, x>> \in S
  BY DEF At, Pointers
<1>4. <<q, r>> = <<u, x>>
  <2> HIDE DEF S
  <2> QED BY <1>2, <1>3
<1> QED BY <1>4

(* Two pointers to an inode are pointers to one entry of the cache. *)
LEMMA SameEntry ==
  ASSUME RefInv, NEW q \in Procs, NEW r \in Regs, NEW u \in Procs, NEW x \in Regs,
         At(q, r) # 0, At(u, x) # 0, Ino(q, r) = Ino(u, x)
  PROVE  At(q, r) = At(u, x)
<1>1. /\ At(q, r) \in Slots /\ ref[At(q, r)] > 0
      /\ At(u, x) \in Slots /\ ref[At(u, x)] > 0
  BY PointerTypes
<1> QED BY <1>1 DEF RefInv, OneEntryPerInode, Ino

(* Only one call has the directory locked. *)
LEMMA DirectoryAlone ==
  ASSUME RefInv, LockInv, RootInv, NEW p \in Procs, NEW q \in Procs, Holds(p, "dp"), Holds(q, "dp")
  PROVE  p = q
<1>1. "dp" \in Regs
  BY RegsAre
<1>2. At(p, "dp") \in Slots /\ At(q, "dp") \in Slots /\ 0 \notin Slots
  BY <1>1 DEF LockInv, HoldsFit, Slots
<1>3. Ino(p, "dp") = ROOTINO /\ Ino(q, "dp") = ROOTINO
  BY <1>2 DEF RootInv, FilesFit, Holds, Ino
<1>4. At(p, "dp") = At(q, "dp")
  BY <1>1, <1>2, <1>3, SameEntry
<1> QED BY <1>1, <1>4, HoldersAgree

(* An inode that has a name, or soon will have, has a link.                *)
LEMMA LinksAre ==
  ASSUME DataTypes, NEW i
  PROVE  /\ IsFiniteSet(NamesOf(i)) /\ IsFiniteSet(PendsOn(i)) /\ Links(i) \in Nat
         /\ NamesOf(i) # {} \/ PendsOn(i) # {} => Links(i) >= 1
<1>1. IsFiniteSet(0 .. Room) /\ IsFiniteSet(Procs)
  BY EntriesBound, FS_Interval, Constants
<1>2. NamesOf(i) \subseteq 0 .. Room /\ PendsOn(i) \subseteq Procs
  BY EntriesBound DEF NamesOf, PendsOn
<1>3. IsFiniteSet(NamesOf(i)) /\ IsFiniteSet(PendsOn(i))
  <2> DEFINE N == 0 .. Room
  <2> HIDE DEF N
  <2> QED BY <1>1, <1>2, FS_Subset DEF N
<1>4. /\ Cardinality(NamesOf(i)) \in Nat /\ Cardinality(PendsOn(i)) \in Nat
      /\ NamesOf(i) # {} => Cardinality(NamesOf(i)) # 0
      /\ PendsOn(i) # {} => Cardinality(PendsOn(i)) # 0
  BY <1>3, FS_CardinalityType, FS_EmptySet
<1> QED BY <1>3, <1>4 DEF Links

(* An inode with a name, or with a call that counts one, has links. *)
LEMMA LinkedHas ==
  ASSUME DataTypes, LinksCounted, NEW i \in Inodes \ {ROOTINO},
         (\E k \in Entries : dirent[k].inum = i) \/ \E q \in Procs : Pends(q) /\ Ino(q, "ip") = i
  PROVE  dinode[i].nlink >= 1
<1>1. NamesOf(i) # {} \/ PendsOn(i) # {}
  BY DEF NamesOf, PendsOn
<1> QED BY <1>1, LinksAre DEF LinksCounted

(* A pointer after a step was there before, or is new from iget. *)
LEMMA Comes ==
  ASSUME NEW p \in Procs, CacheDoes(p), panic' = "none", NEW q \in Procs, NEW r \in Regs, At(q, r)' # 0
  PROVE  Came(p, q, r, inum'[At(q, r)'])
<1>1. Does(p) /\ StepOf(p) /\ ~Stops /\ DataTypes /\ LockInv /\ RefInv
  BY DEF CacheDoes, Does, Steps
<1> DEFINE i == inum'[At(q, r)']
<1>2. CASE q # p
  <2>1. At(q, r)' = At(q, r) /\ pc'[q] = pc[q]
    BY <1>1, <1>2 DEF Does, Steps, Only
  <2>2. inum'[At(q, r)] = inum[At(q, r)]
    BY <1>1, <2>1, PointersStay
  <2> QED BY <1>2, <2>1, <2>2 DEF Came, Points, Ino, Dying, Dies
<1>3. ASSUME q = p, NEW y \in Regs, At(p, y) = At(p, r)', y = "put" => r = "put", pc[p] \in Stays => y = r
      PROVE  Came(p, q, r, i)
  <2>1. inum'[At(p, y)] = inum[At(p, y)]
    BY <1>1, <1>3, PointersStay
  <2>2. ASSUME Dying(p, y) PROVE Dying(p, r)'
    <3>1. y = "put" /\ r = "put" /\ pc[p] \in {"iput_invalid", "iput_drop"}
      BY <1>3, <2>2 DEF Dying, Dies
    <3>2. pc[p] = "iput_drop" => At(p, "put")' = 0
      BY <1>1 DEF StepOf, InnerStep, FileStep, PathStep, DirectoryStep, InodeStep, CallStep, ReturnStep, Dropped
    <3>3. pc[p] = "iput_invalid" => pc'[p] = "iput_drop"
      BY <1>1 DEF StepOf, InnerStep, FileStep, PathStep, DirectoryStep, InodeStep, CallStep, ReturnStep, Go
    <3> QED BY <1>3, <3>1, <3>2, <3>3 DEF Dying, Dies
  <2> QED BY <1>3, <2>1, <2>2 DEF Came, Points, Ino
<1>4. ASSUME q = p, NEW x \in Regs, KeepsAllBut(p, {x}), x # r
      PROVE  Came(p, q, r, i)
  BY <1>3, <1>4 DEF KeepsAllBut
<1>5. pc[p] \in Stays \ {"ialloc_get"} => KeepsAllBut(p, {})
  BY <1>1 DEF StepOf, InnerStep, FileStep, PathStep, DirectoryStep, InodeStep, CallStep, ReturnStep, Still, Stays
<1>6. pc[p] = "ialloc_get" => Gets(p, "ip", off[p]) /\ Kept
  <2> SUFFICES ASSUME pc[p] = "ialloc_get" PROVE Gets(p, "ip", off[p]) /\ Kept
    OBVIOUS
  <2>1. Got(p, "ip", off[p]) /\ DataStep(p)
    BY <1>1 DEF Does, StepOf, InnerStep, FileStep, PathStep, DirectoryStep, InodeStep, CallStep, ReturnStep
  <2> QED BY <2>1, RegsAre DEF Got, Gets, DataStep
<1>7. CASE q = p /\ pc[p] \in Stays \ {"ialloc_get"}
  BY <1>3, <1>5, <1>7 DEF KeepsAllBut
<1>8. CASE q = p /\ pc[p] = "ialloc_get"
  <2>1. CASE r = "ip"
    BY <1>6, <1>8, <2>1 DEF Gets, Came
  <2>2. CASE r # "ip"
    BY <1>4, <1>6, <1>8, <2>2 DEF Gets
  <2> QED BY <2>1, <2>2
<1>9. CASE q = p /\ pc[p] \notin Stays
  <2>1. ASSUME Rearranged(p) PROVE Came(p, q, r, i)
    BY <1>3, <1>9, <2>1 DEF Rearranged
  <2>2. ASSUME NEW x \in Regs, NEW j, Gets(p, x, j), Kept,
               j = ROOTINO \/ (j \in Inodes /\ \E k \in Entries : dirent[k].inum = j)
        PROVE  Came(p, q, r, i)
    BY <1>4, <1>9, <2>2 DEF Gets, Came
  <2>3. GetsNamed(p) => Came(p, q, r, i)
    BY <1>1, <2>2, LookupIsIn DEF GetsNamed
  <2> QED BY <1>9, <2>1, <2>2, <2>3, PointersStep, RegsAre DEF Stays
<1> QED BY <1>2, <1>7, <1>8, <1>9 DEF Stays

------------------------------------------------------------------------------
(* An empty entry has no name. *)
LEMMA EmptyName == NoEntry.name \notin Names \cup {"."}
<1>1. NoEntry.name = ""
  BY Zenon DEF NoEntry
<1>2. "" \notin Names \cup {"."}
  BY FSAssumption, Zenon
<1> QED BY <1>1, <1>2

(* Where an entry is written it was empty, and where one is cleared it was *)
(* the call's own.                                                         *)
LEMMA EntryStep ==
  ASSUME NEW p \in Procs, NamesDo(p)
  PROVE  \/ dirent' = dirent /\ pc[p] # "unlink_locked" /\ ~(pc[p] = "dirlink" /\ pc'[p] = "linked")
         \/ /\ pc[p] = "dirlink" /\ pc'[p] = "linked" /\ Lookup(name[p]) = {}
            /\ name[p] \in Names \cup {"."} /\ Ino(p, "ip") \in Inodes /\ At(p, "ip") # 0
            /\ \E k \in Entries : /\ dirent[k].inum = 0
                                  /\ dirent' = [dirent EXCEPT ![k] = [name |-> name[p], inum |-> Ino(p, "ip")]]
         \/ /\ pc[p] = "unlink_locked" /\ At(p, "ip") # 0 /\ Ino(p, "ip") \in Inodes
            /\ \E k \in Entries : /\ dirent[k].inum = Ino(p, "ip")
                                  /\ dirent' = [dirent EXCEPT ![k] = NoEntry]
<1>1. DirStep(p) /\ DataTypes /\ DirFits /\ LookupFits(p) /\ NameFits(p) /\ RefInv /\ NonNull(p)
  BY DirsStep DEF NamesDo, NamesInv, CacheDoes, Does, LockInv
<1>2. pc[p] \in {"dirlink", "unlink_locked"} => At(p, "ip") # 0 /\ Ino(p, "ip") \in Inodes
  <2>1. pc[p] \in {"dirlink", "unlink_locked"} => At(p, "ip") # 0
    BY <1>1 DEF NonNull, LinksIp, LocksIp, Where, Inner, Putting
  <2> QED BY <1>1, <2>1, PointerTypes, RegsAre DEF DataTypes, Ino
<1>3. pc[p] = "dirlink" => name[p] \in Names \cup {"."}
  BY <1>1 DEF NameFits, Where, Inner, Putting, UsesDp
<1>4. pc[p] = "unlink_locked" =>
        LET k == Least(Lookup(name[p])) IN k \in Entries /\ dirent[k].inum = Ino(p, "ip")
  BY <1>1, LookupIsIn DEF LookupFits, Where, Inner, Putting
<1> QED BY <1>1, <1>2, <1>3, <1>4 DEF DirStep

(* A step keeps the names of the directory different. *)
LEMMA DirKept ==
  ASSUME NEW p \in Procs, NamesDo(p)
  PROVE  DirFits'
<1>1. DirFits /\ DOMAIN dirent = Entries /\ 0 \notin Inodes
  BY DEF NamesDo, NamesInv, CacheDoes, Does, DataTypes, Inodes
<1> HIDE DEF NoEntry
<1>2. CASE dirent' = dirent
  BY <1>1, <1>2 DEF DirFits
<1>3. ASSUME Lookup(name[p]) = {}, name[p] \in Names \cup {"."}, NEW i \in Inodes, NEW k \in Entries,
             dirent[k].inum = 0, dirent' = [dirent EXCEPT ![k] = [name |-> name[p], inum |-> i]]
      PROVE  DirFits'
  <2>1. \A l \in Entries : IF l = k THEN dirent'[l].inum = i /\ dirent'[l].name = name[p]
                           ELSE dirent'[l] = dirent[l]
    BY <1>1, <1>3
  <2>2. \A l \in Entries : dirent[l].name # name[p]
    BY <1>1, <1>3, EmptyName DEF Lookup, DirFits
  <2> QED BY <1>1, <1>3, <2>1, <2>2 DEF DirFits
<1>4. ASSUME NEW k \in Entries, dirent' = [dirent EXCEPT ![k] = NoEntry]
      PROVE  DirFits'
  <2>1. \A l \in Entries : IF l = k THEN dirent'[l] = NoEntry ELSE dirent'[l] = dirent[l]
    BY <1>1, <1>4
  <2> QED BY <1>1, <2>1, EmptyEntry, EmptyName DEF DirFits
<1> QED BY <1>2, <1>3, <1>4, EntryStep

(* What another call has looked up is not changed: it has the directory.   *)
LEMMA OthersLookup ==
  ASSUME NEW p \in Procs, NamesDo(p), NEW q \in Procs, q # p
  PROVE  LookupFits(q)' /\ NameFits(q)'
<1>1. /\ pc'[q] = pc[q] /\ ret'[q] = ret[q] /\ op'[q] = op[q] /\ name'[q] = name[q]
      /\ At(q, "ip")' = At(q, "ip")
  BY RegsAre DEF NamesDo, CacheDoes, Does, Steps, Only, DataFrame
<1>2. LookupFits(q) /\ NameFits(q) /\ WhichFits(q) /\ NonNull(q) /\ Does(p) /\ RootInv /\ LockInv /\ RefInv
  BY DEF NamesDo, NamesInv, CacheDoes, Does, LockInv
<1>3. CASE Where(q) = "unlink_locked" \/ Where(q) \in {"ialloc", "ialloc_get", "create_init"}
             \/ (Where(q) = "dirlink" /\ op[q] = "create")
  <2>1. Holds(q, "dp")
    BY <1>2, <1>3 DEF Holds, UsesDp, WhichFits, Where, Inner, Putting, LocksIp
  <2>2. pc[p] \in {"dirlink", "unlink_locked"} => Holds(p, "dp")
    BY DEF Holds, UsesDp, Where, Inner, Putting
  <2>3. dirent' = dirent
    BY <1>2, <2>1, <2>2, DirectoryAlone, EntryStep
  <2>4. Where(q) = "unlink_locked" => inum'[At(q, "ip")] = inum[At(q, "ip")]
    BY <1>2, PointersStay, RegsAre DEF NonNull, LocksIp
  <2> QED BY <1>1, <1>2, <2>3, <2>4 DEF LookupFits, NameFits, Where, Lookup, Ino
<1>4. CASE ~(Where(q) = "unlink_locked" \/ Where(q) \in {"ialloc", "ialloc_get", "create_init"}
              \/ (Where(q) = "dirlink" /\ op[q] = "create"))
  BY <1>1, <1>2, <1>4 DEF LookupFits, NameFits, Where
<1> QED BY <1>3, <1>4

(* What a call has looked up fits the place it goes to. *)
LEMMA OwnLookup ==
  ASSUME NEW p \in Procs, NamesDo(p)
  PROVE  LookupFits(p)' /\ NameFits(p)'
<1>1. StepOf(p) /\ DataFrame(p) /\ ~Stops /\ Does(p)
  BY DEF NamesDo, CacheDoes, Does, Steps
<1>2. OpsFit(p) /\ NullsFit(p) /\ PlacesFit(p) /\ WhichFits(p) /\ NonNull(p) /\ LookupFits(p) /\ NameFits(p)
  BY DEF NamesDo, NamesInv, CacheDoes, Does, RefInv, LockInv
<1>3. pc[p] \in {"namex", "namex_locked"} =>
      \/ AfterNamex(p) \in {"create_parent", "unlink_parent"} /\ WantsParent(p)
      \/ AfterNamex(p) = "dirlink" /\ op[p] = "link" /\ WantsParent(p)
      \/ AfterNamex(p) \in {"link_locked", "open_locked"} /\ ~WantsParent(p)
  BY <1>2 DEF OpsFit, NamexSteps, Where, Inner, Putting, AfterNamex, WantsParent
<1>4. NoInode(p) \in {"return", "link_bad"}
  BY DEF NoInode
<1> HIDE DEF AfterNamex, WantsParent, NoInode
<1>5. Where(p)' \in UsesDp \cup {"namex_locked"} =>
        \/ pc[p] = "namex" /\ pc'[p] = "ilock" /\ which'[p] = "at"
        \/ pc[p] \notin {"namex", "return"} /\ Where(p) \in UsesDp \cup {"namex_locked"}
  BY <1>1, <1>2, <1>3, <1>4, RegsAre DEF StepOf, InnerStep, FileStep, PathStep, DirectoryStep, InodeStep,
      CallStep, ReturnStep, Go, GoILock, GoIPut, GivesPut, OpsFit, PlacesFit, WhichFits, Where, Inner, Putting,
      UsesDp, LocksIp
<1>6. NameFits(p)'
  BY <1>1, <1>2, <1>5 DEF NameFits, DataFrame
<1>7. Where(p)' \in {"ialloc", "ialloc_get", "create_init"} \/ (Where(p)' = "dirlink" /\ op'[p] = "create") =>
        /\ pc[p] \notin {"namex", "return", "unlink_locked", "dirlink"}
        /\ \/ Lookup(name[p]) = {} 
           \/ Where(p) \in {"ialloc", "ialloc_get", "create_init"}
  BY <1>1, <1>2, <1>3, <1>4, RegsAre DEF StepOf, InnerStep, FileStep, PathStep, DirectoryStep, InodeStep,
      CallStep, ReturnStep, Go, GoILock, GoIPut, GivesPut, OpsFit, PlacesFit, WhichFits, Where, Inner, Putting,
      LocksIp
<1>8. Where(p)' = "unlink_locked" =>
        /\ pc[p] \in {"unlink_parent", "ilock"}
        /\ \/ pc[p] = "unlink_parent" /\ name[p] # "." /\ Found(p, "ip")
           \/ pc[p] = "ilock" /\ Where(p) = "unlink_locked" /\ At(p, "ip")' = At(p, "ip")
  BY <1>1, <1>2, <1>3, <1>4, RegsAre DEF StepOf, InnerStep, FileStep, PathStep, DirectoryStep, InodeStep,
      CallStep, ReturnStep, Go, GoILock, GoIPut, GivesPut, OpsFit, PlacesFit, WhichFits, Where, Inner, Putting,
      LocksIp, Still, KeepsAllBut
<1>10. ASSUME Where(p)' \in {"ialloc", "ialloc_get", "create_init"} \/ (Where(p)' = "dirlink" /\ op'[p] = "create")
       PROVE  Lookup(name[p])' = {}
  <2>1. name'[p] = name[p] /\ dirent' = dirent
    BY <1>1, <1>7, <1>10, EntryStep DEF DataFrame
  <2>2. Lookup(name[p]) = {}
    BY <1>2, <1>7, <1>10 DEF LookupFits
  <2> QED BY <2>1, <2>2 DEF Lookup
<1>11. ASSUME Where(p)' = "unlink_locked"
       PROVE  /\ name'[p] # "." /\ Lookup(name[p])' # {}
              /\ dirent'[Least(Lookup(name[p])')].inum = Ino(p, "ip")'
  <2>1. name'[p] = name[p] /\ dirent' = dirent
    BY <1>1, <1>8, <1>11, EntryStep DEF DataFrame
  <2>2. Lookup(name[p])' = Lookup(name[p])
    BY <2>1 DEF Lookup
  <2>3. CASE pc[p] = "ilock" /\ Where(p) = "unlink_locked" /\ At(p, "ip")' = At(p, "ip")
    <3>1. inum'[At(p, "ip")] = inum[At(p, "ip")]
      BY <1>1, <1>2, <2>3, PointersStay, RegsAre DEF NonNull, LocksIp
    <3> QED BY <1>2, <2>1, <2>2, <2>3, <3>1 DEF LookupFits, Ino
  <2>4. CASE pc[p] = "unlink_parent" /\ name[p] # "." /\ Found(p, "ip")
    <3>1. Lookup(name[p]) # {} /\ inum'[At(p, "ip")'] = dirent[Least(Lookup(name[p]))].inum
      BY <2>4 DEF Found, Got, NamesDo
    <3> QED BY <2>1, <2>2, <2>4, <3>1 DEF Ino
  <2> QED BY <1>8, <1>11, <2>3, <2>4
<1> QED BY <1>6, <1>10, <1>11 DEF LookupFits

(* Of the calls that count a name, a step adds its own or takes it away.   *)
LEMMA PendsOnStep ==
  ASSUME NEW p \in Procs, NamesDo(p), NEW i
  PROVE  /\ Begins(p) => ~Pends(p) /\ At(p, "ip") # 0
         /\ Ends(p) => Pends(p) /\ At(p, "ip") # 0
         /\ PendsOn(i)' = IF Begins(p) /\ Ino(p, "ip") = i THEN PendsOn(i) \cup {p}
                          ELSE IF Ends(p) /\ Ino(p, "ip") = i THEN PendsOn(i) \ {p}
                          ELSE PendsOn(i)
<1>1. CacheDoes(p) /\ Does(p) /\ panic' = "none"
  BY DEF NamesDo, CacheDoes
<1>2. /\ Begins(p) => ~Pends(p) /\ Pends(p)'
      /\ Ends(p) => Pends(p) /\ ~Pends(p)'
      /\ ~Begins(p) /\ ~Ends(p) => (Pends(p)' <=> Pends(p))
      /\ Pends(p) \/ Pends(p)' => At(p, "ip") # 0
      /\ Pends(p)' => At(p, "ip")' = At(p, "ip")
  BY <1>1, PendStep
<1>3. \A q \in Procs \ {p} : /\ Pends(q)' <=> Pends(q)
                             /\ Pends(q) => Ino(q, "ip")' = Ino(q, "ip")
  <2> TAKE q \in Procs \ {p}
  <2>1. pc'[q] = pc[q] /\ ret'[q] = ret[q] /\ At(q, "ip")' = At(q, "ip")
    BY <1>1, RegsAre DEF Does, Steps, Only
  <2>2. NonNull(q)
    BY <1>1 DEF Does, LockInv
  <2>3. Pends(q) => At(q, "ip") # 0
    BY <2>2 DEF Pends, NonNull, LocksIp, LinksIp
  <2>4. At(q, "ip") # 0 => inum'[At(q, "ip")] = inum[At(q, "ip")]
    BY <1>1, PointersStay, RegsAre
  <2> QED BY <2>1, <2>3, <2>4 DEF Pends, Where, Ino
<1>4. Pends(p)' => Ino(p, "ip")' = Ino(p, "ip")
  BY <1>1, <1>2, PointersStay, RegsAre DEF Ino
<1> QED BY <1>2, <1>3, <1>4 DEF PendsOn

(* Of the names of an inode, a step adds one or takes one away. *)
LEMMA NamesOfStep ==
  ASSUME NEW p \in Procs, NamesDo(p), NEW i \in Inodes
  PROVE  \/ NamesOf(i)' = NamesOf(i) /\ Ino(p, "ip") # i
         \/ NamesOf(i)' = NamesOf(i) /\ pc[p] # "unlink_locked" /\ ~(pc[p] = "dirlink" /\ pc'[p] = "linked")
         \/ /\ pc[p] = "dirlink" /\ pc'[p] = "linked" /\ Ino(p, "ip") = i
            /\ \E k \in Entries : k \notin NamesOf(i) /\ NamesOf(i)' = NamesOf(i) \cup {k}
         \/ /\ pc[p] = "unlink_locked" /\ Ino(p, "ip") = i
            /\ \E k \in Entries : k \in NamesOf(i) /\ NamesOf(i)' = NamesOf(i) \ {k}
<1> HIDE DEF NoEntry
<1>1. DOMAIN dirent = Entries /\ i # 0
  BY DEF NamesDo, CacheDoes, Does, DataTypes, Inodes
<1>2. CASE dirent' = dirent /\ pc[p] # "unlink_locked" /\ ~(pc[p] = "dirlink" /\ pc'[p] = "linked")
  BY <1>2 DEF NamesOf
<1>3. ASSUME NEW k \in Entries, dirent[k].inum = 0, pc[p] = "dirlink", pc'[p] = "linked",
             dirent' = [dirent EXCEPT ![k] = [name |-> name[p], inum |-> Ino(p, "ip")]]
      PROVE  IF Ino(p, "ip") = i THEN k \notin NamesOf(i) /\ NamesOf(i)' = NamesOf(i) \cup {k}
             ELSE NamesOf(i)' = NamesOf(i)
  <2>1. \A l \in Entries : IF l = k THEN dirent'[l].inum = Ino(p, "ip") ELSE dirent'[l] = dirent[l]
    BY <1>1, <1>3
  <2> QED BY <1>1, <1>3, <2>1 DEF NamesOf
<1>4. ASSUME NEW k \in Entries, dirent[k].inum = Ino(p, "ip"), pc[p] = "unlink_locked",
             dirent' = [dirent EXCEPT ![k] = NoEntry]
      PROVE  IF Ino(p, "ip") = i THEN k \in NamesOf(i) /\ NamesOf(i)' = NamesOf(i) \ {k}
             ELSE NamesOf(i)' = NamesOf(i)
  <2>1. \A l \in Entries : IF l = k THEN dirent'[l] = NoEntry ELSE dirent'[l] = dirent[l]
    BY <1>1, <1>4
  <2> QED BY <1>1, <1>4, <2>1, EmptyEntry DEF NamesOf
<1> QED BY <1>2, <1>3, <1>4, EntryStep

(* The count of a file's links is kept with its names.                     *)
LEMMA LinksKept ==
  ASSUME NEW p \in Procs, NamesDo(p), NEW i \in Inodes \ {ROOTINO}
  PROVE  dinode'[i].nlink = Links(i)'
<1>1. /\ DataTypes /\ FreeIsZero /\ Fresh(p) /\ CacheDoes(p)
      /\ dinode[i].nlink = Links(i) /\ DataTypes'
  BY DEF NamesDo, NamesInv, CacheDoes, Does, LinksCounted
<1> DEFINE N == NamesOf(i) M == PendsOn(i)
<1>2. IsFiniteSet(N) /\ IsFiniteSet(M) /\ Cardinality(N) \in Nat /\ Cardinality(M) \in Nat
  BY <1>1, LinksAre, FS_CardinalityType
<1>3. Links(i) = Cardinality(N) + Cardinality(M) /\ Links(i)' = Cardinality(N') + Cardinality(M')
  BY DEF Links
<1>4. /\ Begins(p) => p \notin M
      /\ Ends(p) /\ Ino(p, "ip") = i => p \in M
      /\ M' = IF Begins(p) /\ Ino(p, "ip") = i THEN M \cup {p}
              ELSE IF Ends(p) /\ Ino(p, "ip") = i THEN M \ {p} ELSE M
  BY PendsOnStep DEF PendsOn
<1>5. Cardinality(M') = IF Begins(p) /\ Ino(p, "ip") = i THEN Cardinality(M) + 1
                        ELSE IF Ends(p) /\ Ino(p, "ip") = i THEN Cardinality(M) - 1 ELSE Cardinality(M)
  <2>1. Cardinality(M \cup {p}) = IF p \in M THEN Cardinality(M) ELSE Cardinality(M) + 1
    BY <1>2, FS_AddElement
  <2>2. Cardinality(M \ {p}) = IF p \in M THEN Cardinality(M) - 1 ELSE Cardinality(M)
    BY <1>2, FS_RemoveElement
  <2>3. Begins(p) => ~Ends(p)
    BY DEF Begins, Ends
  <2> HIDE DEF M
  <2> QED BY <1>4, <2>1, <2>2, <2>3
<1>6. Cardinality(N') = IF pc[p] = "dirlink" /\ pc'[p] = "linked" /\ Ino(p, "ip") = i THEN Cardinality(N) + 1
                        ELSE IF pc[p] = "unlink_locked" /\ Ino(p, "ip") = i THEN Cardinality(N) - 1
                        ELSE Cardinality(N)
  <2>1. \A k : Cardinality(N \cup {k}) = IF k \in N THEN Cardinality(N) ELSE Cardinality(N) + 1
    BY <1>2, FS_AddElement
  <2>2. \A k : Cardinality(N \ {k}) = IF k \in N THEN Cardinality(N) - 1 ELSE Cardinality(N)
    BY <1>2, FS_RemoveElement
  <2>3. \/ N' = N /\ Ino(p, "ip") # i
        \/ N' = N /\ pc[p] # "unlink_locked" /\ ~(pc[p] = "dirlink" /\ pc'[p] = "linked")
        \/ /\ pc[p] = "dirlink" /\ pc'[p] = "linked" /\ Ino(p, "ip") = i
           /\ \E k \in Entries : k \notin N /\ N' = N \cup {k}
        \/ /\ pc[p] = "unlink_locked" /\ Ino(p, "ip") = i
           /\ \E k \in Entries : k \in N /\ N' = N \ {k}
    BY NamesOfStep
  <2> HIDE DEF N
  <2> QED BY <2>1, <2>2, <2>3
<1>7. LinkStep(p, i)
  BY <1>1, LinksStep
<1>8. pc[p] = "create_init" /\ Ino(p, "ip") = i => dinode[i].nlink = 0
  BY <1>1 DEF Fresh, Makes, FreshIno, Where, Inner, Putting
<1> HIDE DEF N, M
<1> QED BY <1>1, <1>2, <1>3, <1>5, <1>6, <1>7, <1>8 DEF LinkStep, Recounts, Recounted, Begins, Ends, FreeIsZero

(* iput frees an inode without links, and nobody has a link of it yet.     *)
LEMMA FreeKept ==
  ASSUME NEW p \in Procs, NamesDo(p)
  PROVE  FreeIsZero'
<1> SUFFICES ASSUME NEW i \in Inodes, dinode'[i].type = Free PROVE dinode'[i].nlink = 0
  BY DEF FreeIsZero
<1>1. LinkStep(p, i) /\ FreeIsZero /\ Alone(p)
  BY LinksStep DEF NamesDo, NamesInv
<1>2. Free # "file"
  BY DEF Free
<1> QED BY <1>1, <1>2 DEF LinkStep, FreeIsZero, Alone

(* The inode that iput frees is not pointed to by anyone else, and has no  *)
(* link that a call could count.                                           *)
LEMMA FreesOwn ==
  ASSUME NEW p \in Procs, NamesDo(p), pc[p] = "iput_free",
         NEW q \in Procs, NEW r \in Regs, Points(q, r, Ino(p, "put"))
  PROVE  q = p /\ r = "put"
<1>1. RefInv /\ Alone(p) /\ NonNull(p)
  BY DEF NamesDo, NamesInv, CacheDoes, Does, LockInv
<1>2. At(p, "put") # 0 /\ ref[At(p, "put")] = 1
  BY <1>1 DEF Alone, NonNull, Putting
<1>3. At(q, r) = At(p, "put") /\ At(p, "put") \in Slots
  BY <1>1, <1>2, SameEntry, PointerTypes, RegsAre DEF Points
<1> QED BY <1>1, <1>2, <1>3, LonePointer, RegsAre

(* Nobody but iput's own pointer is left to an inode that is free.         *)
LEMMA LiveKept ==
  ASSUME NEW p \in Procs, NamesDo(p), NEW q \in Procs
  PROVE  Live(q)'
<1> SUFFICES ASSUME NEW r \in Regs, At(q, r)' # 0, ~Dying(q, r)',
                    dinode'[inum'[At(q, r)']].type = Free
             PROVE  FALSE
  BY DEF Live, Ino
<1> DEFINE i == inum'[At(q, r)']
<1>1. /\ CacheDoes(p) /\ Does(p) /\ DataTypes /\ FreeIsZero /\ LinksCounted /\ Live(q) /\ Fresh(p)
      /\ panic' = "none" /\ RootInv /\ RootInv' /\ RefInv' /\ DataTypes' /\ StepOf(p) /\ ~Stops /\ Alone(p)
  BY DEF NamesDo, NamesInv, CacheDoes, Does, RootInv, Steps
<1>2. i \in Inodes
  <2>1. <<q, r>> \in Pointers /\ At(q, r)' \in Slots
    <3>1. <<q, r>> \in Pointers /\ ptr'[<<q, r>>] \in 0 .. NINODE /\ ptr'[<<q, r>>] # 0
      BY <1>1 DEF RefInv, Types, Pointers, At
    <3> QED BY <3>1, Constants DEF Slots, At
  <2> QED BY <1>1, <2>1 DEF DataTypes
<1>3. i # ROOTINO
  <2>1. RootInode' /\ dinode'[i].type # "dir"
    BY <1>1 DEF RootInv, Free
  <2> HIDE DEF i
  <2> QED BY <1>2, <2>1 DEF RootInode
<1>4. Came(p, q, r, i) /\ LinkStep(p, i)
  BY <1>1, <1>2, Comes, LinksStep
<1>5. Free # "file"
  BY DEF Free
<1> HIDE DEF i
<1>6. dinode[i].type = Free \/ (pc[p] = "iput_free" /\ i = Ino(p, "put"))
  BY <1>4, <1>5 DEF LinkStep, i
<1>7. CASE q = p /\ r # "put" /\ i \in Inodes /\ Kept /\ \E k \in Entries : dirent[k].inum = i
  <2>1. dinode[i].nlink >= 1 /\ dinode[i].type = Free
    BY <1>1, <1>2, <1>3, <1>7, LinkedHas DEF Kept, i
  <2> QED BY <1>1, <1>2, <2>1 DEF FreeIsZero
<1>8. CASE q = p /\ r = "ip" /\ pc[p] = "ialloc_get" /\ i = off[p] /\ Kept
  BY <1>1, <1>5, <1>6, <1>8 DEF Fresh, Makes, FreshIno
<1>9. ASSUME NEW y \in Regs, Points(q, y, i), Dying(q, y) => Dying(q, r)', q # p \/ pc[p] \in Stays => y = r
      PROVE  FALSE
  <2>1. dinode[i].type # Free
    BY <1>1, <1>9 DEF Live, Points, Ino
  <2>2. pc[p] = "iput_free" /\ q = p /\ y = "put"
    BY <1>6, <1>9, <2>1, FreesOwn
  <2>3. r = "put" /\ pc'[p] = "iput_invalid"
    BY <1>1, <1>9, <2>2 DEF Stays, StepOf, InnerStep, FileStep, PathStep, DirectoryStep, InodeStep, CallStep,
      ReturnStep, Go
  <2> QED BY <2>2, <2>3 DEF Dying, Dies
<1> QED BY <1>3, <1>4, <1>7, <1>8, <1>9 DEF Came

(* iput, until it has freed the inode, has the last pointer to it.         *)
LEMMA OthersAlone ==
  ASSUME NEW p \in Procs, NamesDo(p), NEW q \in Procs, q # p
  PROVE  Alone(q)'
<1>1. /\ CacheDoes(p) /\ Does(p) /\ DataTypes /\ LinksCounted /\ Alone(q) /\ Fresh(p) /\ RefInv
      /\ panic' = "none" /\ FilesFit(q) /\ NonNull(q)
  BY DEF NamesDo, NamesInv, CacheDoes, Does, RootInv, LockInv
<1>2. pc'[q] = pc[q] /\ At(q, "put")' = At(q, "put")
  BY <1>1, RegsAre DEF Does, Steps, Only
<1> SUFFICES ASSUME pc[q] \in {"itrunc", "iput_free"}
             PROVE  ref'[At(q, "put")'] = 1 /\ dinode'[inum'[At(q, "put")']].nlink = 0
  BY <1>2 DEF Alone, Ino
<1> DEFINE s == At(q, "put") i == inum[s]
<1>3. s # 0 /\ s \in Slots /\ i \in Inodes \ {ROOTINO} /\ inum'[s] = i
  <2>1. s # 0 /\ s \in Slots
    BY <1>1, PointerTypes, RegsAre DEF NonNull, Putting
  <2> QED BY <1>1, <2>1, PointersStay, RegsAre DEF FilesFit, Frees, IsFile, DataTypes
<1>4. ref[s] = 1 /\ dinode[i].nlink = 0
  BY <1>1 DEF Alone, Ino
<1>5. \A y \in Regs : At(p, y) # s
  BY <1>1, <1>3, <1>4, LonePointer, RegsAre
<1>6. ASSUME NEW r \in Regs, At(p, r)' = s PROVE FALSE
  <2>1. Came(p, p, r, i)
    BY <1>1, <1>3, <1>6, Comes
  <2>2. ~\E k \in Entries : dirent[k].inum = i
    BY <1>1, <1>3, <1>4, LinkedHas
  <2>3. ~(pc[p] = "ialloc_get" /\ i = off[p])
    <3> SUFFICES ASSUME pc[p] = "ialloc_get", i = off[p] PROVE FALSE
      OBVIOUS
    <3>1. OnlyOf(p, i)
      BY <1>1 DEF Fresh, Makes, FreshIno
    <3> QED BY <1>3, <3>1, RegsAre DEF OnlyOf, Points, Ino, Dying, Dies
  <2> QED BY <1>3, <1>5, <1>6, <2>1, <2>2, <2>3 DEF Came
<1>7. ref'[s] = 1
  BY <1>1, <1>3, <1>4, <1>5, <1>6, RefStep, RegsAre
<1>8. At(p, "ip") # 0 => Ino(p, "ip") # i
  BY <1>1, <1>3, <1>5, SameEntry, RegsAre DEF Ino
<1>9. LinkStep(p, i)
  BY <1>1, <1>3, LinksStep
<1>10. dinode'[i].nlink = 0
  BY <1>4, <1>8, <1>9 DEF LinkStep
<1> QED BY <1>2, <1>3, <1>7, <1>10

(* iput frees when it has seen one reference and no links. *)
LEMMA OwnAlone ==
  ASSUME NEW p \in Procs, NamesDo(p)
  PROVE  Alone(p)'
<1>1. /\ CacheDoes(p) /\ Does(p) /\ DataTypes /\ Alone(p) /\ RefInv /\ StepOf(p) /\ ~Stops
      /\ CacheInv /\ LockInv /\ panic = "none" /\ NonNull(p) /\ DataStep(p) /\ PlacesFit(p) /\ OpsFit(p)
      /\ WhichFits(p)
  BY DEF NamesDo, NamesInv, CacheDoes, Does, RefInv, LockInv, Steps
<1> DEFINE s == At(p, "put") i == inum[s]
<1> SUFFICES ASSUME pc'[p] \in {"itrunc", "iput_free"}
             PROVE  ref'[At(p, "put")'] = 1 /\ dinode'[inum'[At(p, "put")']].nlink = 0
  BY DEF Alone, Ino
<1>2. AfterNamex(p) \notin {"itrunc", "iput_free"} /\ NoInode(p) \notin {"itrunc", "iput_free"}
  BY DEF AfterNamex, NoInode
<1> HIDE DEF AfterNamex, NoInode
<1>3. \/ pc[p] = "iput" /\ Still(p) /\ LastPut(s) /\ lock[s] = {}
      \/ pc[p] = "itrunc" /\ Still(p)
  BY <1>1, <1>2 DEF StepOf, InnerStep, FileStep, PathStep, DirectoryStep, InodeStep,
      CallStep, ReturnStep, Go, GoILock, GoIPut, GivesPut, OpsFit, PlacesFit, WhichFits, Where, Inner, Putting,
      LocksIp, Takes
<1>4. s # 0 /\ s \in Slots /\ i \in Inodes /\ ref[s] > 0
  <2>1. s # 0 /\ s \in Slots /\ ref[s] > 0
    BY <1>1, <1>3, PointerTypes, RegsAre DEF NonNull, Putting
  <2> QED BY <1>1, <2>1 DEF DataTypes
<1>5. At(p, "put")' = s /\ ref' = ref /\ inum' = inum
  BY <1>3, RegsAre DEF Still, KeepsAllBut
<1>6. ref[s] = 1 /\ dinode[i].nlink = 0
  <2>1. CASE pc[p] = "iput" /\ LastPut(s) /\ lock[s] = {}
    <3>1. Used(s) /\ copy[s].nlink = 0 /\ ref[s] = 1
      BY <1>4, <2>1 DEF LastPut, Used
    <3>2. ~Invalidates(s)
      <4> SUFFICES ASSUME NEW u \in Procs, pc[u] = "iput_invalid", At(u, "put") = s PROVE FALSE
        BY DEF Invalidates
      <4>1. Holds(u, "put")
        BY DEF Holds, Frees
      <4> QED BY <1>1, <2>1, <4>1, RegsAre DEF LockInv, HoldsFit
    <3> QED BY <1>1, <1>4, <3>1, <3>2 DEF CacheInv, CopyFits
  <2>2. CASE pc[p] = "itrunc"
    BY <1>1, <2>2 DEF Alone, Ino
  <2> QED BY <1>3, <2>1, <2>2
<1>7. LinkStep(p, i)
  BY <1>1, <1>4, LinksStep
<1>8. dinode'[i].nlink = 0
  BY <1>3, <1>6, <1>7 DEF LinkStep, Recounts
<1> QED BY <1>5, <1>6, <1>8

(* A new inode is still its maker's own.                                   *)
LEMMA OnlyKept ==
  ASSUME NEW p \in Procs, NamesDo(p), NEW q \in Procs, NEW i \in Inodes \ {ROOTINO}, dinode[i].nlink = 0,
         OnlyOf(q, i), q # p \/ pc[p] \in Stays, pc[p] = "ialloc_get" /\ i = off[p] => q = p
  PROVE  OnlyOf(q, i)'
<1> SUFFICES ASSUME NEW u \in Procs, NEW r \in Regs, Points(u, r, i)'
             PROVE  (u = q /\ r = "ip") \/ Dying(u, r)'
  BY DEF OnlyOf
<1>1. CacheDoes(p) /\ panic' = "none" /\ DataTypes /\ LinksCounted
  BY DEF NamesDo, NamesInv, CacheDoes, Does
<1>2. Came(p, u, r, i)
  BY <1>1, Comes DEF Points, Ino
<1>3. ~\E k \in Entries : dirent[k].inum = i
  BY <1>1, LinkedHas
<1>4. ASSUME NEW y \in Regs, Points(u, y, i), u # p \/ pc[p] \in Stays => y = r, Dying(u, y) => Dying(u, r)'
      PROVE  (u = q /\ r = "ip") \/ Dying(u, r)'
  BY <1>4 DEF OnlyOf
<1> QED BY <1>2, <1>3, <1>4 DEF Came

(* The inode another call is making is left alone. *)
LEMMA OthersFresh ==
  ASSUME NEW p \in Procs, NamesDo(p), NEW q \in Procs, q # p
  PROVE  Fresh(q)'
<1>1. /\ CacheDoes(p) /\ Does(p) /\ DataTypes /\ Fresh(q) /\ RefInv /\ LockInv /\ RootInv
      /\ panic' = "none" /\ FilesFit(q) /\ NonNull(q) /\ WhichFits(q)
  BY DEF NamesDo, NamesInv, CacheDoes, Does, RootInv, LockInv
<1>2. pc'[q] = pc[q] /\ ret'[q] = ret[q] /\ At(q, "ip")' = At(q, "ip") /\ off'[q] = off[q]
  BY <1>1, RegsAre DEF Does, Steps, Only, DataFrame
<1> SUFFICES ASSUME Makes(q) PROVE Fresh(q)'
  BY <1>2 DEF Fresh, Makes, Where
<1> DEFINE i == FreshIno(q)
<1>3. i \in Inodes \ {ROOTINO} /\ i' = i
  <2>1. CASE pc[q] = "ialloc_get"
    BY <1>1, <1>2, <2>1 DEF FilesFit, FreshIno
  <2>2. CASE pc[q] # "ialloc_get"
    <3>1. Where(q) = "create_init" /\ At(q, "ip") # 0
      BY <1>1, <2>2 DEF Makes, NonNull, LocksIp
    <3>2. At(q, "ip") \in Slots /\ inum'[At(q, "ip")] = inum[At(q, "ip")]
      BY <1>1, <3>1, PointersStay, PointerTypes, RegsAre
    <3> QED BY <1>1, <1>2, <2>2, <3>1, <3>2 DEF FilesFit, FileIp, IsFile, FreshIno, Ino, DataTypes
  <2> QED BY <2>1, <2>2
<1>4. dinode[i].nlink = 0 /\ dinode[i].type = "file" /\ OnlyOf(q, i)
  BY <1>1 DEF Fresh
<1> HIDE DEF i
<1>5. ~(pc[p] = "ialloc_get" /\ i = off[p])
  <2>1. Holds(q, "dp")
    BY <1>1 DEF Makes, Holds, UsesDp, WhichFits, Where, Inner, Putting, LocksIp
  <2>2. pc[p] = "ialloc_get" => Holds(p, "dp")
    BY DEF Holds, UsesDp, Where, Inner, Putting
  <2> QED BY <1>1, <2>1, <2>2, DirectoryAlone
<1>6. OnlyOf(q, i)'
  BY <1>3, <1>4, <1>5, OnlyKept
<1>7. /\ At(p, "ip") # 0 => Ino(p, "ip") # i
      /\ pc[p] = "iput_free" /\ At(p, "put") # 0 => Ino(p, "put") # i
  BY <1>4, RegsAre DEF OnlyOf, Points, Dying, Dies
<1>8. LinkStep(p, i)
  BY <1>1, <1>3, LinksStep
<1>9. dinode'[i].nlink = 0 /\ dinode'[i].type = "file"
  BY <1>4, <1>7, <1>8 DEF LinkStep, Free
<1> QED BY <1>3, <1>6, <1>9 DEF Fresh, i

(* ialloc finds an inode that no call points to. *)
LEMMA OwnFresh ==
  ASSUME NEW p \in Procs, NamesDo(p)
  PROVE  Fresh(p)'
<1>1. /\ CacheDoes(p) /\ Does(p) /\ DataTypes /\ Fresh(p) /\ RefInv /\ LockInv /\ RootInv /\ FreeIsZero
      /\ panic' = "none" /\ FilesFit(p) /\ NonNull(p) /\ WhichFits(p) /\ PlacesFit(p) /\ OpsFit(p)
      /\ StepOf(p) /\ ~Stops /\ DataStep(p) /\ \A q \in Procs : Live(q)
  BY DEF NamesDo, NamesInv, CacheDoes, Does, RootInv, LockInv, RefInv, Steps
<1>2. AfterNamex(p) \notin {"ialloc_get", "create_init"} /\ NoInode(p) \notin {"ialloc_get", "create_init"}
  BY DEF AfterNamex, NoInode
<1> HIDE DEF AfterNamex, NoInode
<1>3. Makes(p)' =>
        \/ pc[p] = "ialloc" /\ pc'[p] = "ialloc_get"
        \/ pc[p] = "ialloc_get" /\ pc'[p] = "ilock" /\ Got(p, "ip", off[p])
        \/ pc[p] = "ilock" /\ pc'[p] = "create_init" /\ Where(p) = "create_init" /\ Still(p)
  BY <1>1, <1>2, RegsAre DEF Makes, StepOf, InnerStep, FileStep, PathStep, DirectoryStep, InodeStep,
      CallStep, ReturnStep, Go, GoILock, GoIPut, GivesPut, OpsFit, PlacesFit, WhichFits, Where, Inner, Putting,
      LocksIp
<1>4. ASSUME NEW i \in Inodes \ {ROOTINO}, dinode[i].nlink = 0, OnlyOf(p, i), FreshIno(p)' = i,
             pc[p] \in Stays, dinode'[i].nlink = 0, dinode'[i].type = "file"
      PROVE  Fresh(p)'
  <2>1. OnlyOf(p, i)'
    BY <1>4, OnlyKept
  <2> QED BY <1>4, <2>1 DEF Fresh
<1>5. CASE pc[p] = "ialloc" /\ pc'[p] = "ialloc_get"
  <2> DEFINE i == off[p]
  <2>1. Allocates(p) /\ off'[p] = i
    BY <1>1, <1>5 DEF DataStep, Allocates
  <2>2. i \in Inodes
    BY <1>1, <1>5, <2>1, Sizes DEF Allocates, FilesFit, Inodes, DataTypes
  <2>3. i # ROOTINO /\ dinode[i].type = Free /\ dinode[i].nlink = 0
    BY <1>1, <2>1, <2>2 DEF Allocates, RootInv, RootInode, Free, FreeIsZero
  <2>4. OnlyOf(p, i)
    BY <1>1, <2>3 DEF OnlyOf, Live, Points, Ino
  <2>5. dinode'[i].nlink = 0 /\ dinode'[i].type = "file"
    BY <1>1, <2>1, <2>2, ZeroFields DEF Allocates, DataTypes
  <2> QED BY <1>4, <1>5, <2>1, <2>2, <2>3, <2>4, <2>5 DEF FreshIno, Stays
<1>6. CASE pc[p] = "ialloc_get" /\ pc'[p] = "ilock" /\ Got(p, "ip", off[p])
  <2> DEFINE i == off[p]
  <2>1. FreshIno(p)' = i
    BY <1>1, <1>6 DEF FreshIno, Got, Ino
  <2>2. i \in Inodes \ {ROOTINO}
    BY <1>1, <1>6 DEF FilesFit
  <2>3. dinode' = dinode
    BY <1>1, <1>6 DEF DataStep, Kept
  <2>4. dinode[i].nlink = 0 /\ dinode[i].type = "file" /\ OnlyOf(p, i)
    BY <1>1, <1>6 DEF Fresh, Makes, FreshIno
  <2> QED BY <1>4, <1>6, <2>1, <2>2, <2>3, <2>4 DEF Stays
<1>7. CASE pc[p] = "ilock" /\ pc'[p] = "create_init" /\ Where(p) = "create_init" /\ Still(p)
  <2> DEFINE i == Ino(p, "ip")
  <2>1. FreshIno(p)' = i
    BY <1>7, RegsAre DEF FreshIno, Still, KeepsAllBut, Ino
  <2>2. At(p, "ip") # 0
    BY <1>1, <1>7 DEF NonNull, LocksIp
  <2>3. i \in Inodes \ {ROOTINO}
    BY <1>1, <1>7, <2>2, PointerTypes, RegsAre DEF FilesFit, FileIp, IsFile, DataTypes, Ino
  <2>4. dinode' = dinode
    BY <1>1, <1>7 DEF DataStep, Kept, Reads
  <2>5. dinode[i].nlink = 0 /\ dinode[i].type = "file" /\ OnlyOf(p, i)
    BY <1>1, <1>7 DEF Fresh, Makes, FreshIno
  <2> QED BY <1>4, <1>7, <2>1, <2>3, <2>4, <2>5 DEF Stays
<1>8. CASE ~Makes(p)'
  BY <1>8 DEF Fresh
<1> QED BY <1>3, <1>5, <1>6, <1>7, <1>8

(* A step of a process keeps names and links. *)
LEMMA StepNames ==
  ASSUME NEW p \in Procs, NamesDo(p)
  PROVE  NamesInv'
<1>1. DirFits' /\ FreeIsZero'
  BY DirKept, FreeKept
<1>2. \A i \in Inodes \ {ROOTINO} : dinode'[i].nlink = Links(i)'
  BY LinksKept
<1>3. ASSUME NEW q \in Procs
      PROVE  Live(q)' /\ Fresh(q)' /\ Alone(q)' /\ LookupFits(q)' /\ NameFits(q)'
  <2>1. CASE q = p
    BY <2>1, LiveKept, OwnFresh, OwnAlone, OwnLookup
  <2>2. CASE q # p
    BY <2>2, LiveKept, OthersFresh, OthersAlone, OthersLookup
  <2> QED BY <2>1, <2>2
<1> QED BY <1>1, <1>2, <1>3 DEF NamesInv, LinksCounted

(* The current directories apart, nothing is pointed to that was not.      *)
LEMMA SameNames ==
  ASSUME RefInv, LockInv, RootInv, panic = "none", NamesInv,
         UNCHANGED <<inum, dirent, place, args, loop>>,
         \A i \in Inodes : dinode'[i].type = dinode[i].type /\ dinode'[i].nlink = dinode[i].nlink,
         \A u \in Procs, x \in Regs \ {"cwd"} : At(u, x)' = At(u, x),
         \A u \in Procs : At(u, "cwd")' # 0 => \E v \in Procs : At(v, "cwd") = At(u, "cwd")',
         \A u \in Procs : pc[u] \in {"itrunc", "iput_free"} => ref'[At(u, "put")] = ref[At(u, "put")]
  PROVE  NamesInv'
<1>1. /\ dirent' = dirent /\ pc' = pc /\ ret' = ret /\ op' = op /\ name' = name
      /\ off' = off /\ inum' = inum
  BY DEF place, args, loop
<1>2. \A u \in Procs : At(u, "ip")' = At(u, "ip") /\ At(u, "put")' = At(u, "put")
  BY RegsAre
<1>7. \A u \in Procs, x \in Regs : At(u, x) # 0 => Ino(u, x) \in Inodes
  BY PointerTypes DEF RootInv, DataTypes, Ino
<1>3. DirFits' /\ FreeIsZero'
  BY <1>1 DEF NamesInv, DirFits, FreeIsZero
<1>4. LinksCounted'
  <2>1. ASSUME NEW i PROVE NamesOf(i)' = NamesOf(i) /\ PendsOn(i)' = PendsOn(i)
    <3>1. \A u \in Procs : Pends(u)' <=> Pends(u)
      BY <1>1, <1>2 DEF Pends, Where
    <3>2. \A u \in Procs : Ino(u, "ip")' = Ino(u, "ip")
      BY <1>1, <1>2 DEF Ino
    <3> QED BY <1>1, <3>1, <3>2 DEF NamesOf, PendsOn
  <2> QED BY <1>1, <2>1 DEF NamesInv, LinksCounted, Links
<1>5. \A u \in Procs, x \in Regs, i \in Inodes : Points(u, x, i)' =>
        \E v \in Procs : Points(v, x, i) /\ (v = u \/ x = "cwd")
  BY <1>1 DEF Points, Ino
<1>6. ASSUME NEW q \in Procs
      PROVE  Live(q)' /\ Fresh(q)' /\ Alone(q)' /\ LookupFits(q)' /\ NameFits(q)'
  <2>1. Live(q) /\ Fresh(q) /\ Alone(q) /\ LookupFits(q) /\ NameFits(q) /\ \A v \in Procs : Live(v)
    BY DEF NamesInv
  <2>2. LookupFits(q)' /\ NameFits(q)' /\ Alone(q)'
    <3>1. pc[q] \in {"itrunc", "iput_free"} => At(q, "put") # 0
      BY DEF LockInv, NonNull, Putting
    <3>2. pc[q] \in {"itrunc", "iput_free"} => Ino(q, "put") \in Inodes
      BY <1>7, <3>1, RegsAre
    <3> QED BY <1>1, <1>2, <2>1, <3>2 DEF LookupFits, NameFits, Alone, Where, Lookup, Ino
  <2>3. Live(q)'
    <3> SUFFICES ASSUME NEW r \in Regs, At(q, r)' # 0, ~Dying(q, r)'
                 PROVE  dinode'[inum[At(q, r)']].type # Free
      BY <1>1 DEF Live, Ino
    <3>1. PICK v \in Procs : At(v, r) = At(q, r)' /\ (v = q \/ r = "cwd")
      BY RegsAre
    <3>2. dinode[Ino(v, r)].type # Free /\ Ino(v, r) \in Inodes
      BY <1>1, <1>7, <2>1, <3>1 DEF Live, Dying, Dies
    <3> QED BY <3>1, <3>2 DEF Ino
  <2>4. Fresh(q)'
    <3>1. Makes(q)' <=> Makes(q)
      BY <1>1 DEF Makes, Where
    <3>2. FreshIno(q)' = FreshIno(q)
      BY <1>1, <1>2 DEF FreshIno, Ino
    <3>3. ASSUME NEW i, OnlyOf(q, i) PROVE OnlyOf(q, i)'
      <4> SUFFICES ASSUME NEW u \in Procs, NEW x \in Regs, Points(u, x, i)'
                   PROVE  (u = q /\ x = "ip") \/ Dying(u, x)'
        BY DEF OnlyOf
      <4>1. \E v \in Procs : Points(v, x, i) /\ (v = u \/ x = "cwd")
        BY <1>1, RegsAre DEF Points, Ino
      <4> QED BY <1>1, <3>3, <4>1 DEF OnlyOf, Dying, Dies
    <3>4. ASSUME Makes(q) PROVE FreshIno(q) \in Inodes
      <4>1. pc[q] = "ialloc_get" => off[q] \in Inodes
        BY DEF RootInv, FilesFit
      <4>2. Where(q) = "create_init" => At(q, "ip") # 0
        BY DEF LockInv, NonNull, LocksIp, LinksIp
      <4> QED BY <1>7, <3>4, <4>1, <4>2, RegsAre DEF Makes, FreshIno
    <3> QED BY <1>1, <2>1, <3>1, <3>2, <3>3, <3>4 DEF Fresh
  <2> QED BY <2>2, <2>3, <2>4
<1> QED BY <1>3, <1>4, <1>6 DEF NamesInv

(* A fork makes one more pointer to the parent's current directory. *)
LEMMA ForkNames ==
  ASSUME RefInv, LockInv, RootInv, NamesInv, panic = "none", NEW p \in Procs, Fork(p)
  PROVE  NamesInv'
<1>1. PICK q \in Procs : pc[q] = "user" /\ At(q, "cwd") = 0 /\ IDup(q, "cwd", At(p, "cwd"))
  BY DEF Fork, Idle, Alive
<1>2. /\ UNCHANGED <<inum, dinode, dirent, place, args, loop>>
      /\ ref' = [ref EXCEPT ![At(p, "cwd")] = @ + 1]
  BY <1>1 DEF Fork, IDup, disk
<1>3. \A u \in Procs, x \in Regs : At(u, x)' = IF u = q /\ x = "cwd" THEN At(p, "cwd") ELSE At(u, x)
  BY <1>1 DEF IDup, At, RefInv, Types, Pointers
<1>4. ASSUME NEW u \in Procs, pc[u] \in {"itrunc", "iput_free"}
      PROVE  ref'[At(u, "put")] = ref[At(u, "put")]
  <2>1. Alone(u) /\ NonNull(u)
    BY DEF NamesInv, LockInv
  <2>2. At(u, "put") \in Slots /\ ref[At(u, "put")] = 1
    BY <1>4, <2>1, PointerTypes, RegsAre DEF Alone, NonNull, Putting
  <2>3. At(p, "cwd") # At(u, "put")
    BY <2>2, LonePointer, RegsAre
  <2> QED BY <1>2, <2>3
<1> QED BY <1>2, <1>3, <1>4, RegsAre, SameNames

(* After a start the disk alone counts. *)
LEMMA BootNames ==
  ASSUME RootInv, DirFits, FreeIsZero, \A p \in Procs : pc[p] = "user",
         \A i \in Inodes \ {ROOTINO} : dinode[i].nlink = Cardinality(NamesOf(i)),
         \A p \in Procs, r \in Regs : At(p, r) # 0 => Ino(p, r) = ROOTINO
  PROVE  NamesInv
<1>1. \A i : PendsOn(i) = {}
  BY DEF PendsOn, Pends, Where, Inner, Putting, NamexSteps
<1>2. LinksCounted
  <2>1. \A i \in Inodes : Cardinality(NamesOf(i)) \in Nat
    BY LinksAre, FS_CardinalityType DEF RootInv
  <2>2. Cardinality({}) = 0
    BY FS_EmptySet
  <2>3. \A i \in Inodes : Links(i) = Cardinality(NamesOf(i))
    BY <1>1, <2>1, <2>2 DEF Links
  <2> QED BY <2>3 DEF LinksCounted
<1>3. \A p \in Procs : Live(p)
  BY Sizes DEF Live, RootInv, RootInode, Inodes, Free
<1>4. \A p \in Procs : Fresh(p) /\ Alone(p) /\ LookupFits(p) /\ NameFits(p)
  BY DEF Fresh, Makes, Alone, LookupFits, NameFits, Where, Inner, Putting, UsesDp
<1> QED BY <1>2, <1>3, <1>4 DEF NamesInv

(* The log brings back what the disk says when no call is running. *)
LEMMA CrashNames ==
  ASSUME RefInv, RootInv, RootInv', NamesInv, Crash
  PROVE  NamesInv'
<1>1. /\ \A p \in Procs : pc[p] = "user" /\ pc'[p] = "user"
      /\ inum' = [s \in Slots |-> ROOTINO] /\ dinode' = dinode /\ dirent' = dirent
      /\ ptr' = [x \in Pointers |-> IF x = <<INITPROC, "cwd">> THEN 1 ELSE 0]
  BY DEF Crash, Idle, place, disk
<1>2. DirFits' /\ FreeIsZero'
  BY <1>1 DEF NamesInv, DirFits, FreeIsZero
<1>3. \A i \in Inodes \ {ROOTINO} : dinode'[i].nlink = Cardinality(NamesOf(i))'
  <2>1. \A i : PendsOn(i) = {}
    BY <1>1 DEF PendsOn, Pends, Where, Inner, Putting, NamexSteps
  <2>2. Cardinality({}) = 0
    BY FS_EmptySet
  <2>3. \A i : Cardinality(NamesOf(i)) \in Nat /\ NamesOf(i)' = NamesOf(i)
    BY <1>1, LinksAre, FS_CardinalityType DEF RootInv, NamesOf
  <2>4. \A i : Links(i) = Cardinality(NamesOf(i))
    BY <2>1, <2>2, <2>3 DEF Links
  <2> QED BY <1>1, <2>3, <2>4 DEF NamesInv, LinksCounted
<1>4. \A p \in Procs, r \in Regs : At(p, r)' # 0 => Ino(p, r)' = ROOTINO
  <2>1. 1 \in Slots
    BY Constants DEF Slots
  <2> QED BY <1>1, <2>1 DEF At, Ino, Pointers
<1>6. \A i : PendsOn(i)' = {}
  BY <1>1 DEF PendsOn, Pends, Where, Inner, Putting, NamexSteps
<1>7. LinksCounted'
  <2>1. \A i : Cardinality(NamesOf(i))' \in Nat
    BY <1>1, LinksAre, FS_CardinalityType DEF RootInv, NamesOf
  <2>2. Cardinality({}) = 0
    BY FS_EmptySet
  <2>3. \A i : Links(i)' = Cardinality(NamesOf(i))'
    BY <1>6, <2>1, <2>2 DEF Links
  <2> QED BY <1>3, <2>3 DEF LinksCounted
<1>8. \A p \in Procs : Live(p)'
  BY <1>4, Sizes DEF Live, RootInv, RootInode, Inodes, Free
<1>9. \A p \in Procs : Fresh(p)' /\ Alone(p)' /\ LookupFits(p)' /\ NameFits(p)'
  BY <1>1 DEF Fresh, Makes, Alone, LookupFits, NameFits, Where, Inner, Putting, UsesDp
<1> QED BY <1>2, <1>7, <1>8, <1>9 DEF NamesInv

(* At first the root has the one name, its own. *)
LEMMA InitNames == Init => NamesInv
<1> SUFFICES ASSUME Init PROVE NamesInv
  OBVIOUS
<1>1. /\ BootCache /\ pc = [p \in Procs |-> "user"]
      /\ dinode = [i \in Inodes |-> IF i = ROOTINO THEN RootDinode ELSE ZeroInode(Free)]
      /\ dirent = [k \in Entries |-> IF k = 1 THEN [name |-> ".", inum |-> ROOTINO] ELSE NoEntry]
  BY Zenon DEF Init
<1>2. RootInv
  BY InitRoot
<1>3. ROOTINO # 0 /\ ROOTINO \in Inodes
  BY Sizes DEF Inodes
<1>4. \A k \in Entries : IF k = 1 THEN dirent[k].name = "." /\ dirent[k].inum = ROOTINO
                         ELSE dirent[k] = NoEntry
  <2>1. \A k \in Entries : dirent[k] = IF k = 1 THEN [name |-> ".", inum |-> ROOTINO] ELSE NoEntry
    BY <1>1
  <2> HIDE DEF NoEntry
  <2> QED BY <2>1
<1> HIDE DEF NoEntry
<1>5. DirFits
  BY <1>3, <1>4, EmptyEntry, EmptyName DEF DirFits
<1>6. \A i \in Inodes \ {ROOTINO} : dinode[i].nlink = 0
  <2>1. \A i \in Inodes \ {ROOTINO} : dinode[i] = ZeroInode(Free)
    BY <1>1
  <2> QED BY <2>1, ZeroFields
<1>7. FreeIsZero
  BY <1>2, <1>6 DEF FreeIsZero, RootInv, RootInode, Free
<1>8. \A i \in Inodes \ {ROOTINO} : dinode[i].nlink = Cardinality(NamesOf(i))
  <2>1. \A i \in Inodes \ {ROOTINO} : NamesOf(i) = {}
    BY <1>4, EmptyEntry DEF NamesOf, Inodes
  <2> QED BY <1>6, <2>1, FS_EmptySet
<1>9. \A p \in Procs, r \in Regs : At(p, r) # 0 => Ino(p, r) = ROOTINO
  <2>1. 1 \in Slots
    BY Constants DEF Slots
  <2> QED BY <1>1, <2>1 DEF BootCache, At, Ino, Pointers
<1> QED BY <1>1, <1>2, <1>5, <1>7, <1>8, <1>9, BootNames

(* Only inside a call is there a panic, and the process stays there. *)
LEMMA StepPanics ==
  ASSUME RefInv, LockInv, NEW p \in Procs, panic = "none", Inside(p) \/ Call(p)
  PROVE  PanicInside'
<1>1. Steps(p) /\ PlacesFit(p) /\ WhichFits(p) /\ OpsFit(p)
  BY LockDomains, CallsStep DEF LockInv, RefInv
<1>2. CASE Call(p) \/ Return(p)
  <2>1. panic' = panic
    <3>1. CASE Call(p)
      BY <3>1 DEF Call
    <3>2. CASE Return(p)
      BY <3>2, Zenon DEF Return
    <3> QED BY <1>2, <3>1, <3>2
  <2> QED BY <2>1 DEF PanicInside
<1>3. CASE ~(Call(p) \/ Return(p))
  <2>1. pc[p] \notin {"user", "return"}
    BY <1>3 DEF Inside, Call, Idle, ILock, IPut, IPutFree, IPutInvalid, IPutDrop, ITrunc, ITruncEnd,
      BMap, BZero, CopyUnit, ReadI, WriteI, ReadWriteEnd,
      NamexStart, Namex, NamexLocked, NamexStep, OpenLocked, CreateParent, CreateFound, CreateExists,
      IAlloc, IAllocGet, CreateInit, DirLink, DirLinkFound, DirLinkFailed, Linked, UnlinkParent,
      UnlinkLocked, DropLink, LinkLocked, LinkBad, LinkDone
  <2>2. AfterNamex(p) # "user" /\ NoInode(p) # "user"
    BY DEF AfterNamex, NoInode
  <2> HIDE DEF AfterNamex, NoInode
  <2>3. pc'[p] # "user"
    BY <1>1, <2>1, <2>2 DEF Steps, StepOf, Stops, place, InnerStep, FileStep, PathStep, DirectoryStep, InodeStep,
      CallStep, ReturnStep, Go, GoILock, GoIPut, GivesPut, PlacesFit, WhichFits, Putting, LocksIp
  <2> QED BY <2>3 DEF PanicInside
<1> QED BY <1>2, <1>3

(* Every step keeps names and links until the machine panics. *)
LEMMA NextNames ==
  RefInv /\ LockInv /\ RootInv /\ CacheInv /\ NamesHold /\ RefInv' /\ LockInv' /\ RootInv' /\ [Next]_vars
    => NamesHold'
<1> SUFFICES ASSUME RefInv, LockInv, RootInv, CacheInv, NamesHold, RefInv', LockInv', RootInv', [Next]_vars
             PROVE  NamesHold'
  OBVIOUS
<1>1. ASSUME NEW p \in Procs, panic = "none", Inside(p) \/ Call(p) PROVE NamesHold'
  <2>1. PanicInside'
    BY <1>1, StepPanics
  <2>2. ASSUME panic' = "none" PROVE NamesInv'
    <3>1. NamesDo(p)
      BY <1>1, <2>2, CallsDoCache DEF NamesHold, NamesDo, RootInv, Stops
    <3> QED BY <3>1, StepNames
  <2> QED BY <2>1, <2>2 DEF NamesHold
<1>2. ASSUME NEW p \in Procs, panic = "none", Fork(p) PROVE NamesHold'
  <2>1. NamesInv' /\ panic' = "none"
    BY <1>2, ForkNames DEF NamesHold, Fork
  <2> QED BY <2>1 DEF NamesHold, PanicInside
<1>3. ASSUME panic = "none", Crash PROVE NamesHold'
  <2>1. NamesInv' /\ panic' = "none"
    BY <1>3, CrashNames DEF NamesHold, Crash
  <2> QED BY <2>1 DEF NamesHold, PanicInside
<1>4. CASE UNCHANGED vars
  <2>1. /\ UNCHANGED <<inum, ref, dinode, dirent, place, args, loop, panic, pc>>
        /\ \A u \in Procs, x \in Regs : At(u, x)' = At(u, x)
    BY <1>4 DEF vars, cache, disk, place, At
  <2>2. NamesInv /\ panic = "none" => NamesInv'
    BY <2>1, RegsAre, SameNames
  <2> QED BY <2>1, <2>2 DEF NamesHold, PanicInside
<1>5. ASSUME NEW p \in Procs, panic = "none", DirGrow(p) PROVE NamesHold'
  <2>1. GrowStep(p)
    BY <1>5, GrowSteps DEF RootInv
  <2>2. PanicInside'
    BY <2>1 DEF GrowStep, PanicInside, place
  <2>3. ASSUME panic' = "none" PROVE NamesInv'
    <3>1. /\ UNCHANGED <<inum, ref, dirent, place, args, loop>>
          /\ \A u \in Procs, x \in Regs : At(u, x)' = At(u, x)
      BY <2>1 DEF GrowStep, At
    <3>2. PICK b \in Blocks : \E a \in 0 .. NBLOCK : Grows(p, b, a)
      BY <2>1, <2>3 DEF GrowStep
    <3>3. PICK d \in Fields : /\ d.type = copy[At(p, "dp")].type /\ d.nlink = copy[At(p, "dp")].nlink
                              /\ IUpdate(At(p, "dp"), d)
      BY <3>2 DEF Grows
    <3>4. inum[At(p, "dp")] = ROOTINO /\ CopyFits(At(p, "dp")) /\ ~Invalidates(At(p, "dp"))
      <4>1. Used(At(p, "dp")) /\ inum[At(p, "dp")] = ROOTINO /\ At(p, "dp") \in Slots
        BY <2>1, GrowKnown DEF GrowStep
      <4>2. \A q \in Procs : pc[q] \in Frees => At(q, "put") # At(p, "dp")
        BY <2>1, GrowAlone
      <4> QED BY <4>1, <4>2 DEF CacheInv, Invalidates, Frees
    <3>5. \A i \in Inodes : dinode'[i].type = dinode[i].type /\ dinode'[i].nlink = dinode[i].nlink
      BY <3>3, <3>4 DEF IUpdate, RootInv, DataTypes, CopyFits
    <3> QED BY <1>5, <3>1, <3>5, RegsAre, SameNames DEF NamesHold
  <2> QED BY <2>2, <2>3 DEF NamesHold
<1> QED BY <1>1, <1>2, <1>3, <1>4, <1>5 DEF Next, Halted

(* When no call is running, no name is counted that is not there. *)
LEMMA NamesFit ==
  ASSUME RootInv, NamesHold
  PROVE  NamesAreLinks
<1> SUFFICES ASSUME Quiet
             PROVE  /\ \A i \in Inodes \ {ROOTINO} : dinode[i].nlink = Cardinality(NamesOf(i))
                    /\ \A k, l \in Entries : dirent[k].inum # 0 /\ dirent[k].name = dirent[l].name => k = l
                    /\ \A k \in Entries : dirent[k].inum # 0 => dirent[k].inum \in Allocated
  BY DEF NamesAreLinks, NamesOf
<1>1. \A p \in Procs : pc[p] = "user"
  BY DEF Quiet, Idle
<1>2. NamesInv /\ DataTypes /\ RootInode
  BY <1>1 DEF NamesHold, PanicInside, RootInv
<1>3. \A i \in Inodes \ {ROOTINO} : dinode[i].nlink = Cardinality(NamesOf(i))
  <2>1. \A i : PendsOn(i) = {}
    BY <1>1 DEF PendsOn, Pends, Where, Inner, Putting, NamexSteps
  <2>2. Cardinality({}) = 0
    BY FS_EmptySet
  <2>3. \A i : Cardinality(NamesOf(i)) \in Nat
    BY <1>2, LinksAre, FS_CardinalityType
  <2>4. \A i : Links(i) = Cardinality(NamesOf(i))
    BY <2>1, <2>2, <2>3 DEF Links
  <2> QED BY <1>2, <2>4 DEF NamesInv, LinksCounted
<1>4. ASSUME NEW k \in Entries, dirent[k].inum # 0 PROVE dirent[k].inum \in Allocated
  <2> DEFINE i == dirent[k].inum
  <2>1. i \in Inodes
    BY <1>2, <1>4, Sizes DEF DataTypes, Inodes
  <2>2. CASE i = ROOTINO
    BY <1>2, <2>1, <2>2 DEF RootInode, Allocated, Free
  <2>3. CASE i # ROOTINO
    <3>1. dinode[i].nlink >= 1
      BY <1>2, <2>1, <2>3, LinkedHas DEF NamesInv
    <3> QED BY <1>2, <2>1, <3>1 DEF NamesInv, FreeIsZero, Allocated
  <2> QED BY <2>2, <2>3
<1> QED BY <1>2, <1>3, <1>4 DEF NamesInv, DirFits

(* When no call is running, a file's link count is the number of its       *)
(* names, no two names are the same, and each is of an allocated inode:    *)
(* create, link and unlink count a name that dirlink writes or unlink      *)
(* clears, however they interleave, and iput frees no inode with a name.   *)
THEOREM LinksCorrect == Spec => []NamesAreLinks
<1>1. Init => NamesHold
  BY InitNames DEF NamesHold, PanicInside, Init
<1> QED BY <1>1, InitRefInv, NextRefInv, InitLockInv, NextLockInv, InitRoot, NextRoot, InitCache, NextCache,
      NextNames, NamesFit, PTL DEF Spec

------------------------------------------------------------------------------
(* Blocks: which block an inode has at which position, where the calls     *)
(* that truncate or extend it have got to.                                 *)

(* An inode is changed by one call, which has it locked. *)
LEMMA AlterHolds ==
  ASSUME NEW p, pc[p] \in Changing
  PROVE  Reg(p) \in Regs /\ Holds(p, Reg(p))
  BY RegsAre DEF Changing, Reg, Holds, Copies, Frees

(* Nobody else truncates or extends an inode that a call has locked. *)
LEMMA AlterAlone ==
  ASSUME RefInv, LockInv, NEW i, NEW p \in Procs, NEW r \in Regs, Holds(p, r), Points(p, r, i),
         NEW q \in Procs, Alters(q, i)
  PROVE  p = q /\ At(p, r) = At(q, Reg(q))
<1>1. Reg(q) \in Regs /\ Holds(q, Reg(q)) /\ Points(q, Reg(q), i)
  BY AlterHolds DEF Alters
<1>2. At(p, r) = At(q, Reg(q))
  BY <1>1, SameEntry DEF Points
<1> QED BY <1>1, <1>2, HoldersAgree

(* At most one call alters an inode. *)
LEMMA RecsAre == RefInv /\ LockInv => RecsFit
<1> SUFFICES ASSUME RefInv, LockInv, NEW i
             PROVE  /\ \A p \in Procs : Alters(p, i) =>
                         /\ Rec(i) = copy[At(p, Reg(p))]
                         /\ \A k : Cut(i, k) <=> pc[p] = "itrunc" /\ k < off[p]
                    /\ (\A p \in Procs : ~Alters(p, i)) => Rec(i) = dinode[i] /\ \A k : ~Cut(i, k)
  BY DEF RecsFit
<1>1. ASSUME NEW p \in Procs, Alters(p, i)
      PROVE  /\ Rec(i) = copy[At(p, Reg(p))]
             /\ \A k : Cut(i, k) <=> pc[p] = "itrunc" /\ k < off[p]
  <2>1. \A q \in Procs : Alters(q, i) => q = p
    BY <1>1, AlterHolds, AlterAlone DEF Alters
  <2>2. (CHOOSE q \in Procs : Alters(q, i)) = p
    BY <1>1, <2>1
  <2>3. Rec(i) = copy[At(p, Reg(p))]
    BY <1>1, <2>2 DEF Rec
  <2>4. \A k : Cut(i, k) <=> pc[p] = "itrunc" /\ k < off[p]
    BY <1>1, <2>1 DEF Cut
  <2> QED BY <2>3, <2>4
<1>2. (\A p \in Procs : ~Alters(p, i)) => Rec(i) = dinode[i] /\ \A k : ~Cut(i, k)
  BY DEF Rec, Cut
<1> QED BY <1>1, <1>2

------------------------------------------------------------------------------
(* What a step does to blocks, and to the loops over them.                 *)

(* The places where an inode is changed are reached from the ones before. *)
LEMMA ChangingPlaces ==
  ASSUME NEW p \in Procs, CacheDoes(p)
  PROVE  /\ pc[p] \notin Changing /\ pc'[p] \in Changing =>
              (pc[p] = "iput" /\ pc'[p] = "itrunc") \/ (pc[p] = "rw_locked" /\ pc'[p] = "bmap")
         /\ Where(p)' = "rw_locked" => (pc[p] = "ilock" /\ ret[p] = "rw_locked") \/ pc[p] = "user"
         /\ pc[p] = "itrunc" => pc'[p] \in {"itrunc", "iput_free"}
         /\ pc[p] = "bmap" => pc'[p] \in {"bmap", "bzero", "return"}
         /\ pc[p] = "bzero" => pc'[p] = "bmap"
<1>1. OpsFit(p) /\ PlacesFit(p) /\ WhichFits(p) /\ StepOf(p) /\ ~Stops
  BY DEF CacheDoes, Does, RefInv, LockInv, Steps
<1> QED
  BY <1>1 DEF StepOf, InnerStep, FileStep, PathStep, DirectoryStep, InodeStep, CallStep, ReturnStep,
    Go, GoILock, GoIPut, GivesPut, AfterNamex, NoInode, OpsFit, PlacesFit, WhichFits,
    Where, Inner, Putting, Copies, LocksIp, LinksIp, Changing

(* What itrunc does. *)
LEMMA TruncBlocks ==
  ASSUME DataTypes, RefInv, LockInv, NEW p \in Procs, CacheDoes(p), ITrunc(p) \/ ITruncEnd(p)
  PROVE  BlockStep(p)
<1>1. off[p] \in Nat /\ MAXFILE \in Nat /\ p \in DOMAIN pc /\ p \in DOMAIN off /\ ~Stops
  BY Sizes DEF DataTypes, MAXFILE, RefInv, Types, CacheDoes
<1>2. CASE ITrunc(p)
  <2>1. pc[p] = "itrunc" /\ off[p] <= MAXFILE /\ pc' = pc
    BY <1>1, <1>2 DEF ITrunc, Panic, place
  <2>2. Turn(p)
    BY <1>1, <1>2 DEF ITrunc, Turn, Panic, Stops, BlockAt, BFree
  <2> QED BY <2>1, <2>2 DEF BlockStep
<1>3. CASE ITruncEnd(p)
  BY <1>1, <1>3 DEF ITruncEnd, Step, Goto, BlockStep
<1> QED BY <1>2, <1>3

(* What readi, writei and bmap do. *)
LEMMA FileBlocks ==
  ASSUME DataTypes, RefInv, LockInv, NEW p \in Procs, CacheDoes(p),
         BMap(p) \/ BZero(p) \/ CopyUnit(p) \/ ReadI(p) \/ WriteI(p) \/ ReadWriteEnd(p)
  PROVE  BlockStep(p)
<1>1. /\ off \in [Procs -> Nat] /\ end \in [Procs -> Nat] /\ blk \in [Procs -> 0 .. NBLOCK]
      /\ p \in DOMAIN pc /\ ~Stops /\ NBLOCK \in Nat /\ panic = "none"
  BY Sizes DEF DataTypes, RefInv, Types, CacheDoes, Does
<1>2. CASE BMap(p)
  <2>1. /\ pc[p] = "bmap" /\ off[p] < end[p] /\ BMapped(p, off[p]) = 0 /\ BAlloc(p)
        /\ Unused # {}
    BY <1>1, <1>2 DEF BMap, BAlloc, Panic, Stops
  <2>2. Least(Unused) \in Unused
    BY <1>1, <2>1, LeastOf DEF Unused, Blocks
  <2>3. pc'[p] = "bzero" /\ UNCHANGED <<content, copy, dinode, off, end>> /\ AllocatesBlock(p)
    BY <1>1, <2>1, <2>2 DEF BAlloc, Step, Goto, cache, AllocatesBlock
  <2> QED BY <2>1, <2>3 DEF BlockStep
<1>3. CASE BZero(p)
  <2>1. pc[p] = "bzero" /\ pc'[p] = "bmap"
    BY <1>1, <1>3 DEF BZero, Step, Goto
  <2>2. Stores(p)
    BY <1>3 DEF BZero, Stores
  <2> QED BY <2>1, <2>2 DEF BlockStep
<1>4. CASE CopyUnit(p)
  <2>1. /\ pc[p] = "bmap" /\ pc'[p] = "bmap" /\ UNCHANGED <<used, content, blk, copy, dinode, end>>
        /\ off'[p] = off[p] + 1 /\ off[p] < end[p] /\ BMapped(p, off[p]) # 0
    BY <1>1, <1>4 DEF CopyUnit, cache, disk, place
  <2> QED BY <2>1 DEF BlockStep
<1>5. CASE ReadI(p) \/ WriteI(p)
  <2>1. CASE Refused(p)
    <3>1. pc[p] = "rw_locked" /\ pc'[p] = "return" /\ UNCHANGED <<used, content, blk>>
      BY <1>1, <1>5, <2>1 DEF Refused, ReadI, WriteI, disk, loop, Step, Goto
    <3> QED BY <3>1 DEF BlockStep, Changing, Where, Inner, Putting
  <2>2. ASSUME NEW e, Transfer(p, e), off[p] <= Size(p),
               (e = end[p] /\ end[p] <= MAXFILE) \/ e = Least({end[p], Size(p)})
        PROVE  BlockStep(p)
    <3>1. /\ pc[p] = "rw_locked" /\ pc'[p] = "bmap" /\ UNCHANGED <<used, content, blk, copy, dinode, off>>
          /\ end'[p] = e
      BY <1>1, <1>5, <2>2 DEF Transfer, ReadI, WriteI, cache, disk, Step, Goto
    <3> QED BY <2>2, <3>1 DEF BlockStep
  <2>3. Size(p) \in Nat
    <3>1. pc[p] = "rw_locked"
      BY <1>5 DEF ReadI, WriteI
    <3> QED BY <3>1, HeldIsUsed, RegsAre DEF CacheDoes, Does, Holds, Copies, DataTypes, Size, File, Fields
  <2>4. MAXFILE \in Nat
    BY Sizes DEF MAXFILE
  <2>5. off[p] > Size(p) \/ off[p] <= Size(p)
    BY <1>1, <2>3
  <2>6. end[p] > MAXFILE \/ end[p] <= MAXFILE
    BY <1>1, <2>4
  <2>7. \/ Refused(p)
        \/ Transfer(p, end[p]) /\ off[p] <= Size(p) /\ end[p] <= MAXFILE
        \/ Transfer(p, Least({end[p], Size(p)})) /\ off[p] <= Size(p)
    BY <1>5, <2>5, <2>6 DEF ReadI, WriteI
  <2> HIDE DEF MAXFILE
  <2> QED BY <2>1, <2>2, <2>7
<1>7. CASE ReadWriteEnd(p)
  <2>1. /\ pc[p] = "bmap" /\ pc'[p] = "return" /\ UNCHANGED <<used, content, blk>>
        /\ off[p] = end[p]
    <3>1. pc[p] = "bmap" /\ off[p] = end[p] /\ UNCHANGED <<used, content, loop>>
      BY <1>7 DEF ReadWriteEnd
    <3>2. pc' = [pc EXCEPT ![p] = "return"]
      BY <1>7 DEF ReadWriteEnd, Step, Goto
    <3> QED BY <1>1, <3>1, <3>2 DEF loop
  <2> QED BY <2>1 DEF BlockStep
<1> QED BY <1>2, <1>3, <1>4, <1>5, <1>7

(* Nothing else changes a block. *)
LEMMA OtherBlocks ==
  ASSUME NEW p \in Procs, Inside(p) \/ Call(p), pc[p] \notin Changing
  PROVE  UNCHANGED <<used, content, blk>>
<1>1. CASE ILock(p) \/ IPut(p) \/ IPutFree(p) \/ IPutInvalid(p) \/ IPutDrop(p)
  BY <1>1 DEF ILock, Panic, IPut, IPutFree, IPutInvalid, IPutDrop, disk, loop
<1>2. CASE ITrunc(p) \/ ITruncEnd(p) \/ BMap(p) \/ BZero(p) \/ CopyUnit(p) \/ ReadWriteEnd(p)
  BY <1>2 DEF ITrunc, ITruncEnd, BMap, BZero, CopyUnit, ReadWriteEnd, Changing
<1>3. CASE ReadI(p) \/ WriteI(p)
  BY <1>3 DEF ReadI, WriteI, Refused, Transfer, disk, loop
<1>4. CASE NamexStart(p) \/ Namex(p) \/ NamexLocked(p) \/ NamexStep(p)
  BY <1>4 DEF NamexStart, Namex, NamexLocked, NamexStep, disk, loop
<1>5. CASE OpenLocked(p) \/ CreateParent(p) \/ CreateFound(p) \/ CreateExists(p)
  BY <1>5 DEF OpenLocked, CreateParent, CreateFound, CreateExists, Panic, disk, loop
<1>6. CASE IAlloc(p) \/ IAllocGet(p) \/ CreateInit(p)
  BY <1>6 DEF IAlloc, IAllocGet, CreateInit, Panic, disk, loop
<1>7. CASE DirLink(p) \/ DirLinkFound(p) \/ DirLinkFailed(p) \/ Linked(p)
  BY <1>7 DEF DirLink, DirLinkFound, DirLinkFailed, Linked, Panic, disk, loop
<1>8. CASE UnlinkParent(p) \/ UnlinkLocked(p) \/ DropLink(p)
  BY <1>8 DEF UnlinkParent, UnlinkLocked, DropLink, Panic, disk, loop
<1>9. CASE LinkLocked(p) \/ LinkBad(p) \/ LinkDone(p) \/ Return(p) \/ Call(p)
  BY <1>9 DEF LinkLocked, LinkBad, LinkDone, Return, Call, disk, loop
<1> QED BY <1>1, <1>2, <1>3, <1>4, <1>5, <1>6, <1>7, <1>8, <1>9 DEF Inside

(* Whatever a process does, it does to blocks as these steps say. *)
LEMMA BlockSteps ==
  ASSUME NEW p \in Procs, CacheDoes(p), Inside(p) \/ Call(p)
  PROVE  BlockStep(p)
<1>1. DataTypes /\ RefInv /\ LockInv /\ ~Stops /\ PlacesFit(p) /\ WhichFits(p)
  BY DEF CacheDoes, Does, LockInv
<1>2. CASE ITrunc(p) \/ ITruncEnd(p)
  BY <1>1, <1>2, TruncBlocks
<1>3. CASE BMap(p) \/ BZero(p) \/ CopyUnit(p) \/ ReadI(p) \/ WriteI(p) \/ ReadWriteEnd(p)
  BY <1>1, <1>3, FileBlocks
<1>4. CASE IPut(p) /\ pc'[p] = "itrunc"
  <2>1. p \in DOMAIN pc /\ p \in DOMAIN off
    BY <1>1 DEF RefInv, Types, DataTypes
  <2>2. /\ pc[p] = "iput" /\ UNCHANGED <<used, content, blk, copy, dinode>>
        /\ lock[At(p, "put")] = {} /\ LastPut(At(p, "put")) /\ off' = [off EXCEPT ![p] = 0]
    BY <1>4, <2>1 DEF IPut, disk, Step, Goto
  <2> QED BY <1>4, <2>1, <2>2 DEF BlockStep, LastPut
<1>5. ASSUME ~(ITrunc(p) \/ ITruncEnd(p)), ~(IPut(p) /\ pc'[p] = "itrunc"),
             ~(BMap(p) \/ BZero(p) \/ CopyUnit(p) \/ ReadI(p) \/ WriteI(p) \/ ReadWriteEnd(p))
      PROVE  BlockStep(p)
  <2>1. pc[p] \notin Changing
    <3>1. pc[p] # "itrunc"
      <4> SUFFICES ASSUME pc[p] = "itrunc" PROVE FALSE
        OBVIOUS
      <4>1. ~Call(p) /\ ~(\E x \in {1} : Return(p))
        BY DEF Call, Idle, Return
      <4> QED BY <1>5, <4>1 DEF Inside, ILock, IPut, IPutFree, IPutInvalid, IPutDrop,
          NamexStart, Namex, NamexLocked, NamexStep, OpenLocked, CreateParent, CreateFound, CreateExists,
          IAlloc, IAllocGet, CreateInit, DirLink, DirLinkFound, DirLinkFailed, Linked, UnlinkParent,
          UnlinkLocked, DropLink, LinkLocked, LinkBad, LinkDone, Return
    <3> QED BY <1>1, <1>5, <3>1, OthersLoop DEF Changing, Copies
  <2>2. UNCHANGED <<used, content, blk>>
    BY <2>1, OtherBlocks
  <2>3. pc'[p] \notin Changing
    <3>1. pc[p] # "rw_locked"
      BY <1>1, <1>5, OthersLoop DEF Copies
    <3>2. pc[p] = "iput" => IPut(p)
      BY DEF Inside, Call, Idle, ILock, IPutFree, IPutInvalid, IPutDrop, ITrunc, ITruncEnd, BMap, BZero,
        CopyUnit, ReadI, WriteI, ReadWriteEnd,
        NamexStart, Namex, NamexLocked, NamexStep, OpenLocked, CreateParent, CreateFound, CreateExists,
        IAlloc, IAllocGet, CreateInit, DirLink, DirLinkFound, DirLinkFailed, Linked, UnlinkParent,
        UnlinkLocked, DropLink, LinkLocked, LinkBad, LinkDone, Return
    <3> QED BY <1>5, <2>1, <3>1, <3>2, ChangingPlaces
  <2>4. ASSUME Where(p)' = "rw_locked"
        PROVE  (Where(p) = "rw_locked" /\ off'[p] = off[p] /\ end'[p] = end[p]) \/ off'[p] <= end'[p]
    <3>1. CASE pc[p] = "ilock" /\ ret[p] = "rw_locked"
      <4>1. ILock(p)
        BY <3>1 DEF Inside, Call, Idle, IPut, IPutFree, IPutInvalid, IPutDrop, ITrunc, ITruncEnd, BMap, BZero,
          CopyUnit, ReadI, WriteI, ReadWriteEnd,
          NamexStart, Namex, NamexLocked, NamexStep, OpenLocked, CreateParent, CreateFound, CreateExists,
          IAlloc, IAllocGet, CreateInit, DirLink, DirLinkFound, DirLinkFailed, Linked, UnlinkParent,
          UnlinkLocked, DropLink, LinkLocked, LinkBad, LinkDone, Return
      <4>2. UNCHANGED loop
        BY <4>1 DEF ILock, Panic
      <4> QED BY <3>1, <4>2 DEF loop, Where, Inner
    <3>2. CASE pc[p] = "user"
      <4>1. Call(p)
        BY <3>2 DEF Inside, ILock, IPut, IPutFree, IPutInvalid, IPutDrop, ITrunc, ITruncEnd, BMap, BZero,
          CopyUnit, ReadI, WriteI, ReadWriteEnd,
          NamexStart, Namex, NamexLocked, NamexStep, OpenLocked, CreateParent, CreateFound, CreateExists,
          IAlloc, IAllocGet, CreateInit, DirLink, DirLinkFound, DirLinkFailed, Linked, UnlinkParent,
          UnlinkLocked, DropLink, LinkLocked, LinkBad, LinkDone, Return
      <4>2. p \in DOMAIN pc /\ p \in DOMAIN ret /\ p \in DOMAIN off /\ p \in DOMAIN end
        BY <1>1 DEF RefInv, Types, DataTypes
      <4>3. ASSUME NEW t \in Transfers, off' = [off EXCEPT ![p] = t[1]],
                   end' = [end EXCEPT ![p] = t[1] + t[2]]
            PROVE  off'[p] <= end'[p]
        BY <4>2, <4>3, Sizes
      <4>4. \/ pc'[p] = "namex_start" \/ (pc'[p] = "iput" /\ ret'[p] = "return")
            \/ \E t \in Transfers : off' = [off EXCEPT ![p] = t[1]] /\ end' = [end EXCEPT ![p] = t[1] + t[2]]
        BY <4>1, <4>2 DEF Call, Step, Goto, CallIPut
      <4> QED BY <2>4, <4>3, <4>4 DEF Where, Inner, Putting
    <3> QED BY <2>4, <3>1, <3>2, ChangingPlaces
  <2> QED BY <2>1, <2>2, <2>3, <2>4 DEF BlockStep
<1> QED BY <1>2, <1>3, <1>4, <1>5

------------------------------------------------------------------------------
(* What a step leaves of the blocks of the inodes it is not about.         *)

(* What the steps below use of these. *)
LEMMA BlocksKnown ==
  ASSUME NEW p \in Procs, BlocksDo(p)
  PROVE  /\ CacheDoes(p) /\ Does(p) /\ ~Stops /\ RootInv /\ RefInv /\ LockInv /\ DataTypes /\ DataTypes'
         /\ CacheInv /\ NamesInv /\ panic' = "none" /\ panic = "none" /\ RootInv' /\ RefInv' /\ LockInv'
         /\ Steps(p) /\ Only(p) /\ DataFrame(p)
  BY DEF BlocksDo, NamesDo, CacheDoes, Does, Steps

(* Other calls go on with the inodes they alter. *)
LEMMA OthersAlter ==
  ASSUME NEW p \in Procs, BlocksDo(p), NEW q \in Procs, q # p, NEW i
  PROVE  /\ Alters(q, i)' <=> Alters(q, i)
         /\ Alters(q, i) => /\ Reg(q)' = Reg(q) /\ pc'[q] = pc[q] /\ off'[q] = off[q]
                            /\ copy'[At(q, Reg(q))'] = copy[At(q, Reg(q))]
<1>1. /\ pc'[q] = pc[q] /\ off'[q] = off[q]
      /\ \A x \in Regs : At(q, x)' = At(q, x)
  BY BlocksKnown DEF Only, DataFrame
<1>2. \A x \in Regs : At(q, x) # 0 => inum'[At(q, x)] = inum[At(q, x)]
  BY BlocksKnown, PointersStay
<1>3. \A x \in Regs : Points(q, x, i)' <=> Points(q, x, i)
  BY <1>1, <1>2 DEF Points, Ino
<1>4. Reg(q)' = Reg(q) /\ Reg(q) \in Regs
  BY <1>1, RegsAre DEF Reg
<1>5. Alters(q, i)' <=> Alters(q, i)
  BY <1>1, <1>3, <1>4 DEF Alters
<1>6. ASSUME Alters(q, i) PROVE copy'[At(q, Reg(q))'] = copy[At(q, Reg(q))]
  <2>1. Holds(q, Reg(q))
    BY <1>6, AlterHolds DEF Alters
  <2>2. copy'[At(q, Reg(q))] = copy[At(q, Reg(q))]
    BY <1>4, <2>1, BlocksKnown, HeldIsKept
  <2>3. At(q, Reg(q))' = At(q, Reg(q))
    BY <1>1, <1>4
  <2> QED BY <2>2, <2>3
<1> QED BY <1>1, <1>4, <1>5, <1>6

(* The copy of an inode that a call has locked is what the disk says,      *)
(* unless the call is one that alters it.                                  *)
LEMMA HeldClean ==
  ASSUME NEW p \in Procs, BlocksDo(p), NEW r \in Regs, Holds(p, r),
         \A q \in Procs : ~Alters(q, Ino(p, r)), pc[p] # "iput_invalid"
  PROVE  /\ At(p, r) \in Slots /\ Ino(p, r) \in Inodes
         /\ copy[At(p, r)].size = dinode[Ino(p, r)].size
         /\ copy[At(p, r)].addrs = dinode[Ino(p, r)].addrs
<1> DEFINE s == At(p, r)
<1>1. s \in Slots /\ Used(s) /\ inum[s] \in Inodes /\ s # 0
  BY BlocksKnown, HeldIsUsed DEF Slots
<1>2. CopyFits(s)
  BY <1>1, BlocksKnown DEF CacheInv
<1>3. ~Truncates(s) /\ ~Extends(s)
  BY <1>1 DEF Truncates, Extends, Alters, Points, Ino, Reg, Changing
<1>4. ~Invalidates(s)
  <2> SUFFICES ASSUME NEW q \in Procs, pc[q] = "iput_invalid", At(q, "put") = s PROVE FALSE
    BY DEF Invalidates
  <2>1. Holds(q, "put")
    BY DEF Holds, Frees
  <2>2. p = q
    BY <2>1, HoldersAgree, RegsAre, BlocksKnown
  <2> QED BY <2>2
<1>5. Clean(s)
  BY <1>2, <1>3, <1>4 DEF CopyFits
<1> QED BY <1>1, <1>5 DEF Clean, Ino

(* An inode that the process does not alter keeps its blocks, unless       *)
(* ialloc clears it.                                                       *)
LEMMA RecOthers ==
  ASSUME NEW p \in Procs, BlocksDo(p), NEW i \in Inodes, ~Alters(p, i), ~Alters(p, i)'
  PROVE  Same(i) \/ (Allocates(p) /\ pc[p] = "ialloc" /\ off[p] = i)
<1>0. RecsFit /\ RecsFit'
  BY DEF BlocksDo
<1>1. ASSUME NEW q \in Procs, Alters(q, i) PROVE Same(i)
  <2>1. q # p /\ Alters(q, i)'
    BY <1>1, OthersAlter
  <2>2. Rec(i) = copy[At(q, Reg(q))] /\ \A k : Cut(i, k) <=> pc[q] = "itrunc" /\ k < off[q]
    BY <1>0, <1>1 DEF RecsFit
  <2>3. Rec(i)' = copy'[At(q, Reg(q))'] /\ \A k : Cut(i, k)' <=> pc'[q] = "itrunc" /\ k < off'[q]
    BY <1>0, <2>1 DEF RecsFit
  <2> QED BY <1>1, <2>1, <2>2, <2>3, OthersAlter DEF Same
<1>2. ASSUME \A q \in Procs : ~Alters(q, i)
      PROVE  Same(i) \/ (Allocates(p) /\ pc[p] = "ialloc" /\ off[p] = i)
  <2>1. \A q \in Procs : ~Alters(q, i)'
    BY <1>2, OthersAlter
  <2>2. Rec(i) = dinode[i] /\ \A k : ~Cut(i, k)
    BY <1>0, <1>2 DEF RecsFit
  <2>3. Rec(i)' = dinode'[i] /\ \A k : ~Cut(i, k)'
    BY <1>0, <2>1 DEF RecsFit
  <2>4. CASE dinode'[i].addrs = dinode[i].addrs /\ dinode'[i].size = dinode[i].size
    BY <2>2, <2>3, <2>4 DEF Same
  <2>5. DOMAIN dinode = Inodes
    BY BlocksKnown DEF DataTypes
  <2>6. ASSUME NEW r \in Regs, NEW t, NEW n, Holds(p, r), Saves(p, r, t, n),
               pc[p] \in {"itrunc", "bmap", "iput_free", "create_init", "drop_link", "link_locked"},
               pc[p] = "itrunc" => r = "put", pc[p] = "bmap" => r = "fd"
        PROVE  dinode'[i].addrs = dinode[i].addrs /\ dinode'[i].size = dinode[i].size
    <3> DEFINE u == At(p, r)
    <3>1. PICK d \in Fields : /\ d.size = SavedSize(p, r) /\ d.addrs = copy[u].addrs
                              /\ dinode' = [dinode EXCEPT ![inum[u]] = d]
      BY <2>6 DEF Saves, IUpdate
    <3>2. CASE inum[u] # i
      BY <2>5, <3>1, <3>2
    <3>3. CASE inum[u] = i
      <4>1. u # 0
        BY <2>6, BlocksKnown, HeldIsUsed DEF Slots
      <4>2. pc[p] # "itrunc" /\ pc[p] # "bmap"
        BY <2>6, <3>3, <4>1 DEF Alters, Points, Ino, Reg, Changing
      <4>3. copy[u].size = dinode[i].size /\ copy[u].addrs = dinode[i].addrs
        BY <1>2, <2>6, <3>3, HeldClean DEF Ino
      <4>4. d.size = dinode[i].size /\ d.addrs = dinode[i].addrs
        BY <3>1, <4>2, <4>3 DEF SavedSize
      <4> QED BY <2>5, <3>1, <3>3, <4>4
    <3> QED BY <3>2, <3>3
  <2>7. CASE UNCHANGED dinode
    BY <2>4, <2>7
  <2>8. CASE Allocates(p) /\ pc[p] = "ialloc"
    BY <2>4, <2>5, <2>8 DEF Allocates
  <2> QED BY <2>4, <2>6, <2>7, <2>8, BlocksKnown, SavesAre DEF Reads, Patches
<1> QED BY <1>1, <1>2

(* Records and blocks have their types. *)
LEMMA RecTypes ==
  ASSUME DataTypes, RefInv, RecsFit, NEW i \in Inodes
  PROVE  /\ Rec(i) \in Fields /\ Rec(i).size \in Nat /\ DOMAIN Rec(i).addrs = 0 .. NDIRECT
         /\ \A k \in 0 .. NDIRECT : Rec(i).addrs[k] \in 0 .. NBLOCK
         /\ \A k \in Positions : Owned(i, k) \in 0 .. NBLOCK
<1>1. Rec(i) \in Fields
  <2>1. CASE \E p \in Procs : Alters(p, i)
    <3>1. PICK p \in Procs : Alters(p, i)
      BY <2>1
    <3>2. At(p, Reg(p)) \in Slots
      BY <3>1, PointerTypes, AlterHolds DEF Alters, Points
    <3>3. Rec(i) = copy[At(p, Reg(p))]
      BY <3>1 DEF RecsFit
    <3> QED BY <3>2, <3>3 DEF DataTypes
  <2>2. CASE \A p \in Procs : ~Alters(p, i)
    <3>1. Rec(i) = dinode[i]
      BY <2>2 DEF RecsFit
    <3> QED BY <3>1 DEF DataTypes
  <2> QED BY <2>1, <2>2
<1> DEFINE addrs == Rec(i).addrs
<1>2. Rec(i).size \in Nat /\ addrs \in [0 .. NDIRECT -> 0 .. NBLOCK]
  BY <1>1 DEF Fields
<1>3. content \in [Blocks -> [0 .. NINDIRECT - 1 -> 0 .. NBLOCK]] /\ 0 \in 0 .. NBLOCK
  BY Sizes DEF DataTypes
<1> HIDE DEF addrs
<1>4. ASSUME NEW k \in Positions PROVE BlockAt(content, addrs, k) \in 0 .. NBLOCK
  <2>1. CASE k < NDIRECT \/ k = MAXFILE \/ addrs[NDIRECT] = 0
    BY <1>2, <2>1, Sizes DEF BlockAt, Positions
  <2>2. CASE ~(k < NDIRECT \/ k = MAXFILE \/ addrs[NDIRECT] = 0)
    <3>1. addrs[NDIRECT] \in Blocks /\ k - NDIRECT \in 0 .. NINDIRECT - 1
      BY <1>2, <2>2, Sizes DEF Positions, MAXFILE, Blocks
    <3> QED BY <1>3, <2>2, <3>1 DEF BlockAt
  <2> QED BY <2>1, <2>2
<1>5. \A k \in Positions : Owned(i, k) \in 0 .. NBLOCK
  BY <1>3, <1>4 DEF Owned, addrs
<1> QED BY <1>1, <1>2, <1>5 DEF addrs

(* Where an indirect block names another, it is the inode's own. *)
LEMMA IndirectOwned ==
  ASSUME DataTypes, NEW i, NEW k \in Positions, ~Cut(i, k)
  PROVE  Owned(i, MAXFILE) = Rec(i).addrs[NDIRECT]
<1>1. \A p \in Procs : MAXFILE < off[p] => k < off[p]
  BY Sizes DEF Positions, MAXFILE, DataTypes
<1>2. ~Cut(i, MAXFILE)
  BY <1>1 DEF Cut
<1>3. ~(MAXFILE < NDIRECT)
  BY Sizes DEF MAXFILE
<1> QED BY <1>2, <1>3 DEF Owned, BlockAt

(* What bmap writes, and to which blocks. *)
LEMMA ContentStep ==
  ASSUME NEW p \in Procs, BlocksDo(p)
  PROVE  \/ content' = content /\ pc[p] # "bzero"
         \/ /\ pc[p] = "bzero" /\ blk[p] \in Blocks /\ Stores(p) /\ Points(p, "fd", Ino(p, "fd"))
            /\ Alters(p, Ino(p, "fd")) /\ Rec(Ino(p, "fd")) = copy[File(p)] /\ Ino(p, "fd") \in Inodes
            /\ \A k : ~Cut(Ino(p, "fd"), k)
            /\ Owned(Ino(p, "fd"), MAXFILE) = Indirect(p) /\ Indirect(p) # blk[p]
            /\ \A x \in Blocks : x # blk[p] /\ x # Indirect(p) => content'[x] = content[x]
            /\ \A j \in 0 .. NINDIRECT - 1 : content'[blk[p]][j] = 0
            /\ \A j \in 0 .. NINDIRECT - 1 : Indirect(p) # 0 => content'[Indirect(p)][j] =
                 IF off[p] >= NDIRECT /\ j = off[p] - NDIRECT THEN blk[p] ELSE content[Indirect(p)][j]
<1> DEFINE i == Ino(p, "fd")
<1>1. CASE pc[p] # "bzero"
  BY <1>1 DEF BlocksDo, BlockStep, Turn
<1>2. CASE pc[p] = "bzero"
  <2>1. Stores(p)
    BY <1>2 DEF BlocksDo, BlockStep, Changing
  <2>2. Holds(p, "fd") /\ Reg(p) = "fd"
    BY <1>2 DEF Holds, Copies, Reg
  <2>3. At(p, "fd") \in Slots /\ At(p, "fd") # 0 /\ i \in Inodes
    BY <2>2, BlocksKnown, HeldIsUsed, RegsAre DEF Ino, Slots
  <2>4. Alters(p, i) /\ Points(p, "fd", i)
    BY <1>2, <2>2, <2>3 DEF Alters, Points, Changing
  <2>5. Rec(i) = copy[File(p)] /\ \A k : ~Cut(i, k)
    BY <1>2, <2>2, <2>4 DEF BlocksDo, RecsFit, File
  <2>6. MAXFILE \in Positions
    BY Sizes DEF Positions, MAXFILE
  <2>7. Owned(i, MAXFILE) = Indirect(p)
    BY <2>5, <2>6, IndirectOwned, BlocksKnown DEF Indirect
  <2>8. blk[p] # 0 /\ Indirect(p) # blk[p]
    BY <1>2, <2>3, <2>6, <2>7 DEF BlocksDo, BlocksInv, NewFits, New
  <2>9. blk[p] \in Blocks /\ (Indirect(p) # 0 => Indirect(p) \in Blocks)
    <3>1. blk[p] \in 0 .. NBLOCK
      BY BlocksKnown DEF DataTypes
    <3>2. Owned(i, MAXFILE) \in 0 .. NBLOCK
      BY <2>3, <2>6, BlocksKnown, RecTypes DEF BlocksDo
    <3> QED BY <2>7, <2>8, <3>1, <3>2, Sizes DEF Blocks
  <2> DEFINE f == Zeroed(blk[p])
             a == Indirect(p)
             b == blk[p]
             j0 == off[p] - NDIRECT
  <2>10. content \in [Blocks -> [0 .. NINDIRECT - 1 -> 0 .. NBLOCK]] /\ off[p] \in Nat
    BY BlocksKnown DEF DataTypes
  <2>11. /\ \A x \in Blocks : x # b => f[x] = content[x]
         /\ \A j \in 0 .. NINDIRECT - 1 : f[b][j] = 0
         /\ DOMAIN f = Blocks
    BY <2>9, <2>10 DEF Zeroed, ZeroBlock
  <2>12. \/ content' = f /\ (off[p] >= NDIRECT => a = 0)
         \/ off[p] >= NDIRECT /\ a # 0 /\ content' = [f EXCEPT ![a][j0] = b]
    BY <2>1, <2>10, Sizes DEF Stores
  <2>13. a # b /\ b \in Blocks /\ (a # 0 => a \in Blocks)
    BY <2>8, <2>9
  <2>14. a # 0 => DOMAIN content[a] = 0 .. NINDIRECT - 1
    BY <2>10, <2>13
  <2> HIDE DEF f, a, b
  <2>15. /\ \A x \in Blocks : x # b /\ x # a => content'[x] = content[x]
         /\ \A j \in 0 .. NINDIRECT - 1 : content'[b][j] = 0
         /\ \A j \in 0 .. NINDIRECT - 1 : a # 0 => content'[a][j] =
                 IF off[p] >= NDIRECT /\ j = j0 THEN b ELSE content[a][j]
    <3>1. CASE content' = f /\ (off[p] >= NDIRECT => a = 0)
      BY <2>11, <2>13, <3>1
    <3>2. CASE off[p] >= NDIRECT /\ a # 0 /\ content' = [f EXCEPT ![a][j0] = b]
      <4>1. /\ \A x \in Blocks : x # a => content'[x] = f[x]
            /\ content'[a] = [f[a] EXCEPT ![j0] = b]
        BY <2>11, <2>13, <3>2
      <4>2. f[a] = content[a]
        BY <2>11, <2>13, <3>2
      <4>3. \A j \in 0 .. NINDIRECT - 1 : content'[a][j] = IF j = j0 THEN b ELSE content[a][j]
        BY <2>14, <3>2, <4>1, <4>2
      <4> QED BY <2>11, <2>13, <3>2, <4>1, <4>3
    <3> QED BY <2>12, <3>1, <3>2
  <2> QED BY <1>2, <2>1, <2>3, <2>4, <2>5, <2>7, <2>13, <2>15 DEF a, b
<1> QED BY <1>1, <1>2

(* An inode whose record is left alone keeps its blocks: what bmap writes  *)
(* is another inode's.                                                     *)
LEMMA OwnedOthers ==
  ASSUME NEW p \in Procs, BlocksDo(p), NEW i \in Inodes, Same(i), pc[p] = "bzero" => ~Alters(p, i),
         NEW k \in Positions
  PROVE  Owned(i, k)' = Owned(i, k)
<1> DEFINE addrs == Rec(i).addrs
           a == addrs[NDIRECT]
<1>1. (Cut(i, k)' <=> Cut(i, k)) /\ Rec(i)'.addrs = addrs
  BY DEF Same
<1>2. CASE Cut(i, k) \/ content' = content \/ k < NDIRECT \/ k = MAXFILE \/ a = 0
  BY <1>1, <1>2 DEF Owned, BlockAt
<1>3. CASE ~(Cut(i, k) \/ content' = content \/ k < NDIRECT \/ k = MAXFILE \/ a = 0)
  <2>1. MAXFILE \in Positions
    BY Sizes DEF Positions, MAXFILE
  <2>2. Owned(i, MAXFILE) = a
    BY <1>3, IndirectOwned, BlocksKnown
  <2>3. a \in Blocks
    <3>1. a \in 0 .. NBLOCK
      BY <2>1, <2>2, BlocksKnown, RecTypes DEF BlocksDo
    <3> QED BY <1>3, <3>1, Sizes DEF Blocks
  <2>4. /\ pc[p] = "bzero" /\ Alters(p, Ino(p, "fd")) /\ Ino(p, "fd") \in Inodes
        /\ Owned(Ino(p, "fd"), MAXFILE) = Indirect(p)
        /\ \A x \in Blocks : x # blk[p] /\ x # Indirect(p) => content'[x] = content[x]
    BY <1>3, ContentStep
  <2>5. a # blk[p]
    BY <2>1, <2>2, <2>4 DEF BlocksDo, BlocksInv, NewFits, New
  <2>6. a # Indirect(p)
    BY <1>3, <2>1, <2>2, <2>4 DEF BlocksDo, BlocksInv, Distinct
  <2>7. content'[a] = content[a]
    BY <2>3, <2>4, <2>5, <2>6
  <2> QED BY <1>1, <1>3, <2>7 DEF Owned, BlockAt
<1> QED BY <1>2, <1>3

(* The inode that a call begins to alter, or goes on to.                   *)
LEMMA RecBegins ==
  ASSUME NEW p \in Procs, BlocksDo(p), NEW i \in Inodes, ~Alters(p, i), Alters(p, i)'
  PROVE  /\ Same(i) /\ pc[p] \in {"iput", "rw_locked"} /\ \A q \in Procs : ~Alters(q, i)
         /\ pc[p] = "rw_locked" => pc'[p] = "bmap" /\ Points(p, "fd", i) /\ At(p, "fd")' = At(p, "fd")
         /\ pc[p] = "iput" => pc'[p] = "itrunc" /\ off'[p] = 0
<1>0. /\ RecsFit /\ RecsFit' /\ DataTypes' /\ MAXFILE \in Nat
      /\ pc'[p] \in Changing
  BY BlocksKnown, Sizes DEF BlocksDo, Alters, MAXFILE
<1>1. /\ (pc[p] = "iput" /\ pc'[p] = "itrunc") \/ pc[p] = "rw_locked" \/ pc[p] \in Changing
      /\ pc[p] \in Changing => Still(p) /\ Reg(p)' = Reg(p)
      /\ pc[p] \in {"iput", "rw_locked"} /\ pc'[p] \in Changing => Still(p)
  <2>1. StepOf(p) /\ OpsFit(p) /\ PlacesFit(p) /\ WhichFits(p) /\ ~Stops
    BY BlocksKnown DEF Steps, RefInv, LockInv
  <2>2. pc[p] \in Changing \cup {"iput", "rw_locked"} /\ pc'[p] \in Changing => Still(p) /\ (pc[p] \in Changing => Reg(p)' = Reg(p))
    BY <2>1 DEF StepOf, InnerStep, FileStep, PathStep, DirectoryStep, InodeStep, CallStep, ReturnStep,
      Go, GoILock, GoIPut, GivesPut, Changing, Reg
  <2> QED BY <1>0, <2>2, BlocksKnown, ChangingPlaces
<1>2. pc[p] \notin Changing
  <2> SUFFICES ASSUME pc[p] \in Changing PROVE FALSE
    OBVIOUS
  <2>1. Still(p) /\ Reg(p)' = Reg(p) /\ Reg(p) \in Regs
    BY <1>1, AlterHolds
  <2>2. Points(p, Reg(p), i)
    <3>1. At(p, Reg(p))' = At(p, Reg(p)) /\ inum' = inum
      BY <2>1 DEF Still, KeepsAllBut
    <3> QED BY <2>1, <3>1 DEF Alters, Points, Ino
  <2> QED BY <2>2 DEF Alters
<1>3. Still(p) /\ pc[p] \in {"iput", "rw_locked"}
  BY <1>0, <1>1, <1>2
<1>r. PICK r \in Regs : r = IF pc[p] = "iput" THEN "put" ELSE "fd"
  BY RegsAre
<1> DEFINE s == At(p, r)
<1>4. r \in Regs /\ Reg(p)' = r /\ (pc[p] = "iput" => pc'[p] = "itrunc") /\ (pc[p] = "rw_locked" => pc'[p] = "bmap")
  BY <1>r, <1>0, <1>1, <1>2, RegsAre, BlocksKnown, ChangingPlaces DEF Reg, Changing
<1>5. Points(p, r, i) /\ At(p, r)' = s
  BY <1>3, <1>4 DEF Alters, Points, Ino, Still, KeepsAllBut
<1>6. s \in Slots /\ ref[s] > 0
  BY <1>4, <1>5, PointerTypes, BlocksKnown DEF Points
<1>7. /\ UNCHANGED <<content, copy, dinode>>
      /\ pc[p] = "iput" => off'[p] = 0 /\ lock[s] = {} /\ valid[s]
  BY <1>r, <1>2, <1>3, <1>4 DEF BlocksDo, BlockStep, Changing
<1>8. \A q \in Procs : ~Alters(q, i)
  <2> SUFFICES ASSUME NEW q \in Procs, Alters(q, i) PROVE FALSE
    OBVIOUS
  <2>1. q # p
    BY <1>2 DEF Alters
  <2>2. Holds(p, r) /\ pc[p] = "rw_locked" => q = p
    BY <1>4, <1>5, AlterAlone, BlocksKnown
  <2>3. CASE pc[p] = "rw_locked"
    BY <1>r, <2>1, <2>2, <2>3 DEF Holds, Copies
  <2>4. CASE pc[p] = "iput"
    <3>1. Reg(q) \in Regs /\ Holds(q, Reg(q)) /\ Points(q, Reg(q), i)
      BY AlterHolds DEF Alters
    <3>2. At(q, Reg(q)) = s
      BY <1>4, <1>5, <3>1, SameEntry, BlocksKnown DEF Points
    <3>3. q \in lock[s]
      BY <3>1, <3>2, BlocksKnown DEF LockInv, HoldsFit
    <3> QED BY <1>7, <2>4, <3>3
  <2> QED BY <1>3, <2>3, <2>4
<1>9. copy[s].size = dinode[i].size /\ copy[s].addrs = dinode[i].addrs
  <2>1. CASE pc[p] = "iput"
    <3>1. CacheIsCurrent
      BY CleanIsCurrent, BlocksKnown
    <3> QED BY <1>5, <1>6, <1>7, <2>1, <3>1 DEF CacheIsCurrent, Points, Ino
  <2>2. CASE pc[p] = "rw_locked"
    <3>1. Holds(p, r)
      BY <1>r, <2>2 DEF Holds, Copies
    <3> QED BY <1>4, <1>5, <1>8, <2>2, <3>1, HeldClean DEF Points
  <2> QED BY <1>3, <2>1, <2>2
<1>10. Rec(i) = dinode[i] /\ \A k : ~Cut(i, k)
  BY <1>0, <1>8 DEF RecsFit
<1>11. Rec(i)' = copy'[s] /\ \A k \in Positions : ~Cut(i, k)'
  <2>1. Alters(p, i)' /\ At(p, Reg(p))' = s
    BY <1>4, <1>5
  <2>2. Rec(i)' = copy'[s] /\ \A k : Cut(i, k)' <=> pc'[p] = "itrunc" /\ k < off'[p]
    BY <1>0, <2>1 DEF RecsFit
  <2>3. pc'[p] = "itrunc" => off'[p] = 0
    BY <1>3, <1>4, <1>7
  <2> QED BY <1>0, <2>2, <2>3 DEF Positions
<1>12. Same(i)
  BY <1>7, <1>9, <1>10, <1>11 DEF Same
<1>13. pc[p] = "rw_locked" => r = "fd"
  BY <1>r
<1> QED BY <1>3, <1>4, <1>5, <1>7, <1>8, <1>12, <1>13

(* The inode that a call alters, as far as its place tells.                *)
LEMMA RecGoesOn ==
  ASSUME NEW p \in Procs, BlocksDo(p), NEW i \in Inodes, Alters(p, i)
  PROVE  LET s == At(p, Reg(p)) IN
         /\ s \in Slots /\ Used(s) /\ inum[s] = i /\ Reg(p) \in Regs /\ Holds(p, Reg(p)) /\ s # 0
         /\ inum'[s] = i /\ pc[p] \in Changing
         /\ At(p, "put")' = At(p, "put") /\ At(p, "fd")' = At(p, "fd")
         /\ Rec(i) = copy[s] /\ \A k : Cut(i, k) <=> pc[p] = "itrunc" /\ k < off[p]
         /\ pc'[p] \in Changing =>
              /\ Alters(p, i)' /\ Rec(i)' = copy'[s] /\ (pc'[p] = "itrunc" <=> pc[p] = "itrunc")
              /\ \A k : Cut(i, k)' <=> pc'[p] = "itrunc" /\ k < off'[p]
         /\ pc'[p] \notin Changing =>
              /\ \A q \in Procs : ~Alters(q, i)'
              /\ Rec(i)' = dinode'[i] /\ \A k : ~Cut(i, k)'
         /\ op'[p] = op[p]
<1> DEFINE r == Reg(p)
<1>1. /\ RecsFit /\ RecsFit' /\ r \in Regs /\ Holds(p, r) /\ Points(p, r, i) /\ pc[p] \in Changing
  BY AlterHolds DEF BlocksDo, Alters
<1>2. At(p, r) \in Slots /\ Used(At(p, r)) /\ inum[At(p, r)] = i /\ At(p, r) # 0
  BY <1>1, BlocksKnown, HeldIsUsed DEF Points, Ino
<1>3. Still(p) /\ op'[p] = op[p] /\ (pc'[p] \in Changing => (pc'[p] = "itrunc" <=> pc[p] = "itrunc"))
  <2>1. StepOf(p) /\ ~Stops
    BY BlocksKnown DEF Steps
  <2> QED
    BY <1>1, <2>1 DEF StepOf, InnerStep, FileStep, PathStep, DirectoryStep, InodeStep, CallStep, ReturnStep,
      Go, GoILock, GoIPut, GivesPut, Changing
<1>4. inum' = inum /\ At(p, "put")' = At(p, "put") /\ At(p, "fd")' = At(p, "fd")
  BY <1>3, RegsAre DEF Still, KeepsAllBut
<1>5. pc'[p] \in Changing => Reg(p)' = r
  BY <1>3 DEF Reg
<1>6. At(p, Reg(p))' = At(p, r) \/ pc'[p] \notin Changing
  BY <1>4, <1>5 DEF Reg
<1>7. pc'[p] \in Changing => Alters(p, i)'
  BY <1>2, <1>4, <1>6 DEF Alters, Points, Ino
<1>8. pc'[p] \in Changing => /\ Rec(i)' = copy'[At(p, r)]
                             /\ \A k : Cut(i, k)' <=> pc'[p] = "itrunc" /\ k < off'[p]
  BY <1>1, <1>6, <1>7 DEF RecsFit
<1>9. ASSUME pc'[p] \notin Changing PROVE \A q \in Procs : ~Alters(q, i)'
  <2> SUFFICES ASSUME NEW q \in Procs, Alters(q, i)' PROVE FALSE
    OBVIOUS
  <2>1. q # p
    BY <1>9 DEF Alters
  <2>2. Alters(q, i)
    BY <2>1, OthersAlter
  <2> QED BY <1>1, <2>1, <2>2, AlterAlone, BlocksKnown
<1>10. pc'[p] \notin Changing => Rec(i)' = dinode'[i] /\ \A k : ~Cut(i, k)'
  BY <1>1, <1>9 DEF RecsFit
<1>11. Rec(i) = copy[At(p, r)] /\ \A k : Cut(i, k) <=> pc[p] = "itrunc" /\ k < off[p]
  BY <1>1 DEF RecsFit
<1> DEFINE s == At(p, r)
<1> QED BY <1>1, <1>2, <1>3, <1>4, <1>7, <1>8, <1>9, <1>10, <1>11

(* A turn of readi or writei changes no record. *)
LEMMA RecCopies ==
  ASSUME NEW p \in Procs, BlocksDo(p), NEW i \in Inodes, Alters(p, i),
         pc[p] = "bmap", pc'[p] \in {"bmap", "bzero"}
  PROVE  Same(i)
<1>1. copy' = copy
  BY DEF BlocksDo, BlockStep, Changing
<1> QED BY <1>1, RecGoesOn DEF Same, Changing

(* The end of writei saves the size the file has grown to. *)
LEMMA RecEnds ==
  ASSUME NEW p \in Procs, BlocksDo(p), NEW i \in Inodes, Alters(p, i),
         pc[p] = "bmap", pc'[p] = "return"
  PROVE  /\ Rec(i)'.addrs = Rec(i).addrs /\ \A k : ~Cut(i, k) /\ ~Cut(i, k)'
         /\ Rec(i)'.size = IF op[p] = "write" /\ off[p] > Rec(i).size THEN off[p] ELSE Rec(i).size
         /\ off[p] = end[p] /\ (op[p] # "write" => end[p] <= Rec(i).size)
<1> DEFINE s == At(p, "fd")
<1>1. /\ s \in Slots /\ Used(s) /\ inum[s] = i /\ Holds(p, "fd")
      /\ Rec(i) = copy[s] /\ Rec(i)' = dinode'[i] /\ \A k : ~Cut(i, k) /\ ~Cut(i, k)'
  BY RecGoesOn DEF Reg, Changing
<1>2. LoopStep(p) /\ LoopFits(p) /\ CopyFits(s) /\ DOMAIN dinode = Inodes
  BY <1>1, BlocksKnown DEF CacheDoes, CacheInv, Copies, DataTypes
<1>3. /\ off[p] = end[p] /\ (op[p] # "write" => end[p] <= Size(p))
      /\ IF op[p] = "write" /\ off[p] > Size(p)
         THEN Saves(p, "fd", TypeAt(p, "fd"), NlinkAt(p, "fd")) ELSE dinode' = dinode
  BY <1>2 DEF LoopStep, LoopFits, Kept
<1>4. Size(p) = Rec(i).size
  BY <1>1 DEF Size, File
<1>5. CASE op[p] = "write" /\ off[p] > Size(p)
  <2>1. PICK d \in Fields : /\ d.size = SavedSize(p, "fd") /\ d.addrs = copy[s].addrs
                            /\ dinode' = [dinode EXCEPT ![inum[s]] = d]
    BY <1>3, <1>5 DEF Saves, IUpdate
  <2>2. dinode'[i] = d /\ d.size = off[p]
    BY <1>1, <1>2, <2>1 DEF SavedSize
  <2> QED BY <1>1, <1>3, <1>4, <1>5, <2>1, <2>2
<1>6. CASE ~(op[p] = "write" /\ off[p] > Size(p))
  <2>1. ~Truncates(s) /\ ~Invalidates(s)
    <3> SUFFICES ASSUME NEW q \in Procs, pc[q] \in {"itrunc", "iput_invalid"}, At(q, "put") = s PROVE FALSE
      BY DEF Truncates, Invalidates
    <3>1. Holds(q, "put")
      BY DEF Holds, Frees
    <3>2. p = q
      BY <1>1, <3>1, HoldersAgree, RegsAre, BlocksKnown
    <3> QED BY <3>2
  <2>2. ~Extends(s)
    <3> SUFFICES ASSUME NEW q \in Procs, pc[q] \in {"bmap", "bzero"}, At(q, "fd") = s,
                        op[q] = "write", end[q] > copy[s].size PROVE FALSE
      BY DEF Extends
    <3>1. Holds(q, "fd")
      BY DEF Holds, Copies
    <3>2. p = q
      BY <1>1, <3>1, HoldersAgree, RegsAre, BlocksKnown
    <3>3. op[p] = "write" /\ end[p] > copy[s].size
      BY <3>2
    <3>4. off[p] = end[p] /\ copy[s].size = Size(p)
      BY <1>1, <1>3, <1>4
    <3>5. off[p] > Size(p)
      BY <3>3, <3>4
    <3> QED BY <1>6, <3>3, <3>5
  <2>3. copy[s] = dinode[i]
    BY <1>1, <1>2, <2>1, <2>2 DEF CopyFits, Clean
  <2> QED BY <1>1, <1>3, <1>4, <1>6, <2>3
<1> QED BY <1>5, <1>6

(* The end of itrunc saves an inode without size. *)
LEMMA RecFrees ==
  ASSUME NEW p \in Procs, BlocksDo(p), NEW i \in Inodes, Alters(p, i),
         pc[p] = "itrunc", pc'[p] = "iput_free"
  PROVE  /\ Rec(i)'.addrs = Rec(i).addrs /\ Rec(i)'.size = 0 /\ \A k : ~Cut(i, k)'
         /\ off[p] = MAXFILE + 1
<1> DEFINE s == At(p, "put")
<1>1. /\ s \in Slots /\ inum[s] = i /\ Rec(i) = copy[s] /\ Rec(i)' = dinode'[i] /\ \A k : ~Cut(i, k)'
  BY RecGoesOn DEF Reg, Changing
<1>2. off[p] = MAXFILE + 1 /\ DOMAIN dinode = Inodes
  BY BlocksKnown DEF BlocksDo, BlockStep, Changing, DataTypes
<1>3. Saves(p, "put", TypeAt(p, "put"), NlinkAt(p, "put"))
  BY BlocksKnown DEF Does, DataStep
<1>4. PICK d \in Fields : /\ d.size = SavedSize(p, "put") /\ d.addrs = copy[s].addrs
                          /\ dinode' = [dinode EXCEPT ![inum[s]] = d]
  BY <1>3 DEF Saves, IUpdate
<1>5. dinode'[i] = d /\ d.size = 0
  BY <1>1, <1>2, <1>4 DEF SavedSize
<1> QED BY <1>1, <1>2, <1>4, <1>5

(* A turn of itrunc gives one block number up. *)
LEMMA RecTurns ==
  ASSUME NEW p \in Procs, BlocksDo(p), NEW i \in Inodes, Alters(p, i),
         pc[p] = "itrunc", pc'[p] = "itrunc"
  PROVE  /\ off[p] \in Positions /\ off'[p] = off[p] + 1 /\ UNCHANGED <<content, blk, dinode>>
         /\ used' = used \ {BlockAt(content, Rec(i).addrs, off[p])} /\ Rec(i)'.size = Rec(i).size
         /\ \A k : (Cut(i, k) <=> k < off[p]) /\ (Cut(i, k)' <=> k < off[p] + 1)
         /\ \A k \in 0 .. NDIRECT : Rec(i)'.addrs[k] =
              IF (off[p] < NDIRECT /\ k = off[p]) \/ (off[p] = MAXFILE /\ k = NDIRECT) THEN 0
              ELSE Rec(i).addrs[k]
<1> DEFINE s == At(p, "put")
           j == IF off[p] = MAXFILE THEN NDIRECT ELSE off[p]
<1>1. /\ s \in Slots /\ Rec(i) = copy[s] /\ Rec(i)' = copy'[s]
      /\ \A k : (Cut(i, k) <=> k < off[p]) /\ (Cut(i, k)' <=> k < off'[p])
  BY RecGoesOn DEF Reg, Changing
<1>2. Turn(p)
  BY DEF BlocksDo, BlockStep, Changing
<1>3. /\ off[p] <= MAXFILE /\ UNCHANGED <<content, blk, dinode>> /\ off'[p] = off[p] + 1
      /\ used' = used \ {BlockAt(content, Rec(i).addrs, off[p])}
      /\ copy' = IF off[p] < NDIRECT \/ off[p] = MAXFILE
                 THEN [copy EXCEPT ![s].addrs[j] = 0] ELSE copy
  BY <1>1, <1>2 DEF Turn
<1>4. /\ copy \in [Slots -> Fields] /\ off[p] \in Nat /\ NDIRECT \in Nat /\ 0 \in 0 .. NBLOCK
      /\ ~(MAXFILE < NDIRECT) /\ off[p] \in Positions
  BY <1>3, BlocksKnown, Sizes DEF DataTypes, MAXFILE, Positions
<1>5. CASE off[p] < NDIRECT \/ off[p] = MAXFILE
  <2> DEFINE e == [copy[s] EXCEPT !.addrs[j] = 0]
  <2>1. j \in 0 .. NDIRECT
    BY <1>4, <1>5
  <2> HIDE DEF j
  <2>2. e.size = copy[s].size /\ e.addrs = [copy[s].addrs EXCEPT ![j] = 0]
    BY <1>1, <1>4, <2>1, AddrsExcept
  <2>3. copy' = [copy EXCEPT ![s] = e]
    BY <1>3, <1>5
  <2> HIDE DEF e, s
  <2>4. copy'[s] = e
    BY <1>1, <1>4, <2>3
  <2>5. DOMAIN copy[s].addrs = 0 .. NDIRECT
    BY <1>1, <1>4 DEF Fields
  <2>6. \A k \in 0 .. NDIRECT : copy'[s].addrs[k] = IF k = j THEN 0 ELSE copy[s].addrs[k]
    BY <2>2, <2>4, <2>5
  <2>7. \A k \in 0 .. NDIRECT : k = j <=> (off[p] < NDIRECT /\ k = off[p]) \/ (off[p] = MAXFILE /\ k = NDIRECT)
    BY <1>4, <1>5 DEF j
  <2>8. copy'[s].size = copy[s].size
    BY <2>2, <2>4
  <2> QED BY <1>1, <1>3, <1>4, <2>6, <2>7, <2>8
<1>6. CASE ~(off[p] < NDIRECT \/ off[p] = MAXFILE)
  BY <1>1, <1>3, <1>4, <1>6
<1> QED BY <1>5, <1>6

(* bmap stores the number of the new block in the inode, or in its         *)
(* indirect block.                                                         *)
LEMMA RecStores ==
  ASSUME NEW p \in Procs, BlocksDo(p), NEW i \in Inodes, Alters(p, i), pc[p] = "bzero"
  PROVE  /\ pc'[p] = "bmap" /\ Rec(i)'.size = Rec(i).size /\ \A k : ~Cut(i, k) /\ ~Cut(i, k)'
         /\ UNCHANGED <<used, off, end, dinode>>
         /\ \A k \in 0 .. NDIRECT : Rec(i)'.addrs[k] =
              IF (off[p] < NDIRECT /\ k = off[p]) \/ (off[p] >= NDIRECT /\ Indirect(p) = 0 /\ k = NDIRECT)
              THEN blk[p] ELSE Rec(i).addrs[k]
<1> DEFINE s == File(p)
<1>1. /\ s \in Slots /\ Rec(i) = copy[s] /\ pc'[p] = "bmap" /\ Rec(i)' = copy'[s]
      /\ \A k : ~Cut(i, k) /\ ~Cut(i, k)'
  <2>1. pc'[p] = "bmap"
    BY BlocksKnown, ChangingPlaces
  <2> QED BY <2>1, RecGoesOn DEF Reg, Changing, File
<1>2. Stores(p)
  BY DEF BlocksDo, BlockStep, Changing
<1>3. /\ copy \in [Slots -> Fields] /\ off[p] \in Nat /\ NDIRECT \in Nat /\ blk[p] \in 0 .. NBLOCK
      /\ DOMAIN copy[s].addrs = 0 .. NDIRECT
  BY <1>1, BlocksKnown, Sizes DEF DataTypes, Fields
<1>4. ASSUME NEW j \in 0 .. NDIRECT, copy' = [copy EXCEPT ![s].addrs[j] = blk[p]]
      PROVE  /\ copy'[s].size = copy[s].size
             /\ \A k \in 0 .. NDIRECT : copy'[s].addrs[k] = IF k = j THEN blk[p] ELSE copy[s].addrs[k]
  <2> DEFINE e == [copy[s] EXCEPT !.addrs[j] = blk[p]]
  <2>1. e.size = copy[s].size /\ e.addrs = [copy[s].addrs EXCEPT ![j] = blk[p]]
    BY <1>1, <1>3, AddrsExcept
  <2>2. copy' = [copy EXCEPT ![s] = e]
    BY <1>4
  <2> HIDE DEF e, s
  <2>3. copy'[s] = e
    BY <1>1, <1>3, <2>2
  <2> QED BY <1>3, <2>1, <2>3
<1>5. UNCHANGED <<used, off, end, dinode>>
  BY <1>2 DEF Stores
<1>6. CASE off[p] < NDIRECT /\ copy' = [copy EXCEPT ![s].addrs[off[p]] = blk[p]]
  <2>1. off[p] \in 0 .. NDIRECT
    BY <1>3, <1>6
  <2>2. off[p] < NDIRECT
    BY <1>6
  <2>3. /\ copy'[s].size = copy[s].size
        /\ \A k \in 0 .. NDIRECT : copy'[s].addrs[k] = IF k = off[p] THEN blk[p] ELSE copy[s].addrs[k]
    BY <1>4, <1>6, <2>1
  <2> HIDE DEF s
  <2> QED BY <1>1, <1>3, <1>5, <2>2, <2>3
<1>7. CASE off[p] >= NDIRECT /\ Indirect(p) = 0 /\ copy' = [copy EXCEPT ![s].addrs[NDIRECT] = blk[p]]
  <2>1. NDIRECT \in 0 .. NDIRECT /\ off[p] >= NDIRECT /\ Indirect(p) = 0
    BY <1>3, <1>7
  <2>3. /\ copy'[s].size = copy[s].size
        /\ \A k \in 0 .. NDIRECT : copy'[s].addrs[k] = IF k = NDIRECT THEN blk[p] ELSE copy[s].addrs[k]
    BY <1>4, <1>7, <2>1
  <2> HIDE DEF s
  <2> QED BY <1>1, <1>3, <1>5, <2>1, <2>3
<1>8. CASE off[p] >= NDIRECT /\ Indirect(p) # 0 /\ copy' = copy
  BY <1>1, <1>3, <1>5, <1>8
<1> QED BY <1>2, <1>6, <1>7, <1>8 DEF Stores

(* The inode gets the new block at the one place.                          *)
LEMMA OwnedStores ==
  ASSUME NEW p \in Procs, BlocksDo(p), NEW i \in Inodes, Alters(p, i), pc[p] = "bzero"
  PROVE  /\ \E j \in Positions :
              /\ j = Place(p) /\ Owned(i, j) = 0 /\ Owned(i, j)' = blk[p]
              /\ \A k \in Positions : k # j => Owned(i, k)' = Owned(i, k)
         /\ off[p] < MAXFILE /\ off[p] \in Positions /\ Indirect(p) = Owned(i, MAXFILE)
<1>1. i = Ino(p, "fd")
  BY DEF Alters, Points, Reg
<1>2. /\ Rec(i) = copy[File(p)] /\ Owned(i, MAXFILE) = Indirect(p)
      /\ blk[p] \in Blocks
      /\ \A j \in 0 .. NINDIRECT - 1 : content'[blk[p]][j] = 0
      /\ \A j \in 0 .. NINDIRECT - 1 : Indirect(p) # 0 => content'[Indirect(p)][j] =
                 IF off[p] >= NDIRECT /\ j = off[p] - NDIRECT THEN blk[p] ELSE content[Indirect(p)][j]
  BY <1>1, ContentStep
<1> DEFINE a == Indirect(p)
           addrs == Rec(i).addrs
           b == blk[p]
           n == off[p]
<1>3. a = addrs[NDIRECT]
  BY <1>2 DEF Indirect
<1>4. /\ n \in Nat /\ NDIRECT \in Nat /\ NINDIRECT \in Nat /\ NINDIRECT # 0 /\ MAXFILE = NDIRECT + NINDIRECT
      /\ b # 0
  BY <1>2, BlocksKnown, Sizes DEF DataTypes, MAXFILE, Blocks
<1>5. n < end[p] /\ end[p] <= MAXFILE /\ Owned(i, n) = 0 /\ end[p] \in Nat
  BY <1>1, BlocksKnown DEF BlocksDo, BlocksInv, WriteFits, DataTypes
<1> DEFINE e == Rec(i)'.addrs
           c == content'
<1>6. /\ \A k : ~Cut(i, k) /\ ~Cut(i, k)'
      /\ \A k \in 0 .. NDIRECT : e[k] =
              IF (n < NDIRECT /\ k = n) \/ (n >= NDIRECT /\ a = 0 /\ k = NDIRECT)
              THEN b ELSE addrs[k]
  BY RecStores
<1>7. \A k : Owned(i, k) = BlockAt(content, addrs, k) /\ Owned(i, k)' = BlockAt(c, e, k)
  BY <1>6 DEF Owned, BlockAt
<1>8. n < MAXFILE /\ n \in Positions
  BY <1>4, <1>5 DEF Positions
<1>12. SUFFICES \E j \in Positions :
              /\ j = Place(p) /\ Owned(i, j) = 0 /\ Owned(i, j)' = b
              /\ \A k \in Positions : k # j => Owned(i, k)' = Owned(i, k)
  BY <1>2, <1>4, <1>8
<1> HIDE DEF e, c, addrs, a, b
<1>9. CASE n < NDIRECT
  <2>1. Place(p) = n
    BY <1>9 DEF Place
  <2>2. BlockAt(c, e, n) = b
    BY <1>4, <1>6, <1>9 DEF BlockAt
  <2>3. ASSUME NEW k \in Positions, k # n PROVE BlockAt(c, e, k) = BlockAt(content, addrs, k)
    <3>1. e[NDIRECT] = a /\ (k < NDIRECT => e[k] = addrs[k])
      BY <1>3, <1>4, <1>6, <1>9, <2>3 DEF Positions
    <3>2. k >= NDIRECT /\ k # MAXFILE => k - NDIRECT \in 0 .. NINDIRECT - 1
      BY <1>4 DEF Positions
    <3>3. k >= NDIRECT /\ k # MAXFILE /\ a # 0 => c[a][k - NDIRECT] = content[a][k - NDIRECT]
      BY <1>2, <1>4, <1>9, <3>2 DEF a, c
    <3> QED BY <1>3, <1>4, <3>1, <3>3 DEF BlockAt, Positions
  <2> QED BY <1>5, <1>7, <1>8, <2>1, <2>2, <2>3
<1>10. CASE n >= NDIRECT /\ a = 0
  <2>1. Place(p) = MAXFILE /\ MAXFILE \in Positions /\ ~(MAXFILE < NDIRECT)
    BY <1>4, <1>10 DEF Place, a, Positions
  <2>2. e[NDIRECT] = b
    BY <1>4, <1>6, <1>10
  <2>3. BlockAt(c, e, MAXFILE) = b /\ BlockAt(content, addrs, MAXFILE) = 0
    BY <1>3, <1>10, <2>1, <2>2 DEF BlockAt
  <2>4. ASSUME NEW k \in Positions, k # MAXFILE PROVE BlockAt(c, e, k) = BlockAt(content, addrs, k)
    <3>1. k < NDIRECT => e[k] = addrs[k]
      BY <1>4, <1>6, <1>10 DEF Positions
    <3>2. k >= NDIRECT => k - NDIRECT \in 0 .. NINDIRECT - 1
      BY <1>4, <2>4 DEF Positions
    <3>3. k >= NDIRECT => c[b][k - NDIRECT] = 0
      BY <1>2, <3>2 DEF b, c
    <3> QED BY <1>3, <1>4, <1>10, <2>2, <2>4, <3>1, <3>3 DEF BlockAt, Positions
  <2> QED BY <1>7, <2>1, <2>3, <2>4
<1>11. CASE n >= NDIRECT /\ a # 0
  <2>1. Place(p) = n
    BY <1>11 DEF Place, a
  <2>2. \A k \in 0 .. NDIRECT : e[k] = addrs[k]
    BY <1>4, <1>6, <1>11
  <2>3. e[NDIRECT] = a
    BY <1>3, <1>4, <2>2
  <2>4. n - NDIRECT \in 0 .. NINDIRECT - 1
    BY <1>4, <1>8, <1>11
  <2>5. c[a][n - NDIRECT] = b
    BY <1>2, <1>11, <2>4 DEF a, b, c
  <2>6. BlockAt(c, e, n) = b
    BY <1>4, <1>8, <1>11, <2>3, <2>5 DEF BlockAt
  <2>7. ASSUME NEW k \in Positions, k # n PROVE BlockAt(c, e, k) = BlockAt(content, addrs, k)
    <3>1. k < NDIRECT => e[k] = addrs[k]
      BY <1>4, <2>2 DEF Positions
    <3>2. k >= NDIRECT /\ k # MAXFILE => k - NDIRECT \in 0 .. NINDIRECT - 1 /\ k - NDIRECT # n - NDIRECT
      BY <1>4, <2>7 DEF Positions
    <3>3. k >= NDIRECT /\ k # MAXFILE => c[a][k - NDIRECT] = content[a][k - NDIRECT]
      BY <1>2, <1>11, <3>2 DEF a, c
    <3> QED BY <1>3, <1>4, <1>11, <2>3, <3>1, <3>3 DEF BlockAt, Positions
  <2> QED BY <1>5, <1>7, <1>8, <2>1, <2>6, <2>7
<1> QED BY <1>4, <1>9, <1>10, <1>11

(* A turn of itrunc gives up one position. *)
LEMMA OwnedTurns ==
  ASSUME NEW p \in Procs, BlocksDo(p), NEW i \in Inodes, Alters(p, i),
         pc[p] = "itrunc", pc'[p] = "itrunc"
  PROVE  \E j \in Positions :
           /\ j = off[p] /\ Owned(i, j)' = 0 /\ used' = used \ {Owned(i, j)}
           /\ \A k \in Positions : k # j => Owned(i, k)' = Owned(i, k)
<1> DEFINE e == Rec(i)'.addrs
           addrs == Rec(i).addrs
           n == off[p]
<1>1. /\ n \in Positions /\ content' = content
      /\ used' = used \ {BlockAt(content, addrs, n)}
      /\ \A k : (Cut(i, k) <=> k < n) /\ (Cut(i, k)' <=> k < n + 1)
      /\ \A k \in 0 .. NDIRECT : e[k] =
              IF (n < NDIRECT /\ k = n) \/ (n = MAXFILE /\ k = NDIRECT) THEN 0 ELSE addrs[k]
  BY RecTurns
<1>2. /\ NDIRECT \in Nat /\ NINDIRECT \in Nat /\ NINDIRECT # 0 /\ MAXFILE = NDIRECT + NINDIRECT
  BY Sizes DEF MAXFILE
<1>3. \A k : /\ Owned(i, k) = IF k < n THEN 0 ELSE BlockAt(content, addrs, k)
             /\ Owned(i, k)' = IF k < n + 1 THEN 0 ELSE BlockAt(content, e, k)
  BY <1>1 DEF Owned, BlockAt
<1> HIDE DEF e, addrs
<1>4. Owned(i, n) = BlockAt(content, addrs, n)
  BY <1>1, <1>2, <1>3 DEF Positions
<1>5. ASSUME NEW k \in Positions, k > n PROVE BlockAt(content, e, k) = BlockAt(content, addrs, k)
  <2>1. n # MAXFILE
    BY <1>1, <1>2, <1>5 DEF Positions
  <2>2. k < NDIRECT => e[k] = addrs[k]
    BY <1>1, <1>2, <1>5, <2>1 DEF Positions
  <2>3. e[NDIRECT] = addrs[NDIRECT]
    BY <1>1, <1>2, <2>1 DEF Positions
  <2> QED BY <2>2, <2>3 DEF BlockAt
<1>6. ASSUME NEW k \in Positions, k # n PROVE Owned(i, k)' = Owned(i, k)
  <2>1. k < n \/ k > n
    BY <1>1, <1>2, <1>6 DEF Positions
  <2>2. k < n => k < n + 1
    BY <1>1, <1>2 DEF Positions
  <2>3. k > n => ~(k < n) /\ ~(k < n + 1)
    BY <1>1, <1>2 DEF Positions
  <2> QED BY <1>3, <1>5, <2>1, <2>2, <2>3
<1>7. \A k : k = n => Owned(i, k)' = 0
  BY <1>1, <1>2, <1>3 DEF Positions
<1> QED BY <1>1, <1>4, <1>6, <1>7

(* itrunc has given up all positions when it ends. *)
LEMMA OwnedFrees ==
  ASSUME NEW p \in Procs, BlocksDo(p), NEW i \in Inodes, Alters(p, i),
         pc[p] = "itrunc", pc'[p] = "iput_free", NEW k \in Positions
  PROVE  Owned(i, k) = 0 /\ Owned(i, k)' = 0
<1> DEFINE e == Rec(i)'.addrs
           addrs == Rec(i).addrs
<1>1. e = addrs /\ ~Cut(i, k)' /\ off[p] = MAXFILE + 1 /\ content' = content
  BY RecFrees DEF BlocksDo, BlockStep, Changing
<1>2. Cut(i, k)
  <2>1. k < off[p]
    BY <1>1, Sizes DEF Positions, MAXFILE
  <2> QED BY <2>1, RecGoesOn
<1>3. i = Ino(p, "put")
  BY DEF Alters, Points, Reg
<1>4. \A l \in 0 .. NDIRECT - 1 : l < off[p] => addrs[l] = 0
  BY <1>3 DEF BlocksDo, BlocksInv, TruncFits
<1>5. addrs[NDIRECT] = 0
  BY <1>1, <1>3 DEF BlocksDo, BlocksInv, TruncFits
<1>6. k < NDIRECT => addrs[k] = 0
  BY <1>1, <1>4, Sizes DEF Positions, MAXFILE
<1>7. BlockAt(content, addrs, k) = 0
  BY <1>5, <1>6 DEF BlockAt
<1> QED BY <1>1, <1>2, <1>7 DEF Owned, BlockAt

(* ialloc clears an inode that has no blocks. *)
LEMMA OwnedClears ==
  ASSUME NEW p \in Procs, BlocksDo(p), NEW i \in Inodes, Allocates(p), pc[p] = "ialloc", off[p] = i
  PROVE  /\ \A q \in Procs : ~Alters(q, i) /\ ~Alters(q, i)'
         /\ Rec(i).size = 0 /\ Rec(i)'.size = 0
         /\ \A k \in Positions : Owned(i, k) = 0 /\ Owned(i, k)' = 0
<1>1. /\ dinode[i].type = Free /\ DOMAIN dinode = Inodes /\ dinode' = [dinode EXCEPT ![i] = ZeroInode("file")]
      /\ pc[p] \notin Changing
  BY BlocksKnown DEF Allocates, DataTypes, Changing
<1>2. \A q \in Procs : ~Alters(q, i)
  <2> SUFFICES ASSUME NEW q \in Procs, Alters(q, i) PROVE FALSE
    OBVIOUS
  <2>1. Reg(q) \in Regs /\ Points(q, Reg(q), i) /\ ~Dying(q, Reg(q))
    BY AlterHolds DEF Alters, Changing, Dying, Dies
  <2> QED BY <1>1, <2>1, BlocksKnown DEF NamesInv, Live, Points
<1>3. pc'[p] \notin Changing
  BY <1>1, BlocksKnown, ChangingPlaces
<1>4. \A q \in Procs : ~Alters(q, i)'
  BY <1>2, <1>3, OthersAlter DEF Alters
<1>5. /\ Rec(i) = dinode[i] /\ \A k : ~Cut(i, k)
      /\ Rec(i)' = dinode'[i] /\ \A k : ~Cut(i, k)'
  BY <1>2, <1>4 DEF BlocksDo, RecsFit
<1>6. Rec(i).size = 0 /\ Exact(i, Rec(i).size)
  BY <1>1, <1>2, <1>5 DEF BlocksDo, BlocksInv, SizesFit, ShapeFits
<1>7. \A k \in Positions : Owned(i, k) = 0
  BY <1>6, Sizes DEF Exact, Positions
<1>8. dinode'[i] = ZeroInode("file")
  BY <1>1
<1>9. Rec(i)'.size = 0 /\ \A k \in 0 .. NDIRECT : Rec(i)'.addrs[k] = 0
  <2>1. ZeroInode("file").size = 0 /\ ZeroInode("file").addrs = [k \in 0 .. NDIRECT |-> 0]
    BY ZeroFields
  <2>2. Rec(i)' = dinode'[i]
    BY <1>5
  <2>3. Rec(i)' = ZeroInode("file")
    BY <1>8, <2>2
  <2>4. \A k \in 0 .. NDIRECT : ZeroInode("file").addrs[k] = 0
    BY <2>1
  <2> QED BY <2>1, <2>3, <2>4
<1>10. ASSUME NEW k \in Positions PROVE Owned(i, k)' = 0
  <2> DEFINE e == Rec(i)'.addrs
  <2>1. e[NDIRECT] = 0 /\ (k < NDIRECT => e[k] = 0)
    BY <1>9, Sizes DEF Positions
  <2>2. Owned(i, k)' = BlockAt(content', e, k)
    BY <1>5 DEF Owned, BlockAt
  <2> QED BY <2>1, <2>2 DEF BlockAt
<1> QED BY <1>2, <1>4, <1>6, <1>7, <1>9, <1>10

(* The inodes that a step is not about keep their blocks. *)
LEMMA OwnersElsewhere ==
  ASSUME NEW p \in Procs, BlocksDo(p), NEW i \in Inodes, ~Alters(p, i), NEW k \in Positions
  PROVE  Owned(i, k)' = Owned(i, k)
<1>1. CASE Alters(p, i)'
  BY <1>1, RecBegins, OwnedOthers
<1>2. CASE ~Alters(p, i)'
  BY <1>2, RecOthers, OwnedOthers, OwnedClears
<1> QED BY <1>1, <1>2

(* A step takes a block, stores it, gives one up, or leaves all.           *)
LEMMA OwnersAre ==
  ASSUME NEW p \in Procs, BlocksDo(p)
  PROVE  OwnersStep(p)
<1>1. BlockStep(p) /\ CacheDoes(p)
  BY BlocksKnown DEF BlocksDo
<1>2. ASSUME pc[p] \in Changing
      PROVE  \E i \in Inodes : Alters(p, i)
  <2>1. Holds(p, Reg(p)) /\ Reg(p) \in Regs
    BY <1>2, AlterHolds
  <2>2. At(p, Reg(p)) \in Slots /\ Ino(p, Reg(p)) \in Inodes
    BY <2>1, HeldIsUsed, BlocksKnown DEF Ino
  <2> QED BY <1>2, <2>2 DEF Alters, Points, Slots
<1>3. CASE pc[p] \notin Changing
  <2>1. SameOwners
    BY <1>3, OwnersElsewhere DEF SameOwners, Alters
  <2>2. used' = used /\ pc[p] # "bzero" /\ pc'[p] # "bzero"
    BY <1>1, <1>3 DEF BlockStep, Changing
  <2> QED BY <2>1, <2>2 DEF OwnersStep
<1>4. CASE pc[p] \in Changing
  <2>1. PICK i \in Inodes : Alters(p, i)
    BY <1>2, <1>4
  <2>2. \A j \in Inodes : j # i => \A k \in Positions : Owned(j, k)' = Owned(j, k)
    BY <2>1, OwnersElsewhere DEF Alters, Points
  <2>3. CASE pc[p] = "bmap" /\ pc'[p] \in {"bmap", "bzero"}
    <3>1. \A k \in Positions : Owned(i, k)' = Owned(i, k)
      BY <2>1, <2>3, RecCopies, OwnedOthers
    <3>2. SameOwners
      BY <2>2, <3>1 DEF SameOwners
    <3>3. (pc'[p] = "bmap" => used' = used) /\ (pc'[p] = "bzero" => AllocatesBlock(p))
      BY <1>1, <2>3 DEF BlockStep, Changing
    <3> QED BY <2>3, <3>2, <3>3 DEF OwnersStep
  <2>4. CASE pc[p] = "bmap" /\ pc'[p] = "return"
    <3>1. Rec(i)'.addrs = Rec(i).addrs /\ (\A k : ~Cut(i, k) /\ ~Cut(i, k)') /\ content' = content /\ used' = used
      BY <1>1, <2>1, <2>4, RecEnds DEF BlockStep, Changing
    <3>2. \A k \in Positions : Owned(i, k)' = Owned(i, k)
      BY <3>1 DEF Owned, BlockAt
    <3>3. SameOwners
      BY <2>2, <3>2 DEF SameOwners
    <3> QED BY <2>4, <3>1, <3>3 DEF OwnersStep
  <2>5. CASE pc[p] = "bzero"
    <3>1. pc'[p] = "bmap" /\ used' = used
      BY <2>1, <2>5, RecStores
    <3>2. PICK j \in Positions : /\ Owned(i, j) = 0 /\ Owned(i, j)' = blk[p]
                                 /\ \A k \in Positions : k # j => Owned(i, k)' = Owned(i, k)
      BY <2>1, <2>5, OwnedStores
    <3>3. AllBut(i, j)
      BY <2>2, <3>2 DEF AllBut
    <3> QED BY <2>5, <3>1, <3>2, <3>3 DEF OwnersStep
  <2>6. CASE pc[p] = "itrunc" /\ pc'[p] = "itrunc"
    <3>1. PICK j \in Positions : /\ Owned(i, j)' = 0 /\ used' = used \ {Owned(i, j)}
                                 /\ \A k \in Positions : k # j => Owned(i, k)' = Owned(i, k)
      BY <2>1, <2>6, OwnedTurns
    <3>2. AllBut(i, j)
      BY <2>2, <3>1 DEF AllBut
    <3> QED BY <2>6, <3>1, <3>2 DEF OwnersStep
  <2>7. CASE pc[p] = "itrunc" /\ pc'[p] = "iput_free"
    <3>1. SameOwners
      BY <2>1, <2>2, <2>7, OwnedFrees DEF SameOwners
    <3>2. used' = used
      BY <1>1, <2>7 DEF BlockStep, Changing
    <3> QED BY <2>7, <3>1, <3>2 DEF OwnersStep
  <2> QED BY <1>1, <1>4, <2>3, <2>4, <2>5, <2>6, <2>7, ChangingPlaces DEF Changing
<1> QED BY <1>3, <1>4

------------------------------------------------------------------------------
(* What a step keeps of all that is said of blocks.                        *)

(* Blocks that are new, and not yet an inode's. *)
LEMMA NewsAre ==
  ASSUME NEW p \in Procs, BlocksDo(p)
  PROVE  /\ \A q \in Procs : q # p => (New(q)' <=> New(q)) /\ blk'[q] = blk[q]
         /\ New(p) <=> pc[p] = "bzero"
         /\ New(p)' <=> pc'[p] = "bzero"
  BY BlocksKnown DEF New, Only, DataFrame

(* No block is two inodes', or one inode's twice. *)
LEMMA DistinctKept ==
  ASSUME NEW p \in Procs, BlocksDo(p)
  PROVE  Distinct'
<1>1. Distinct /\ NewFits(p) /\ OwnersStep(p)
  BY OwnersAre DEF BlocksDo, BlocksInv
<1>2. CASE SameOwners
  BY <1>1, <1>2 DEF Distinct, SameOwners
<1>3. ASSUME NEW i \in Inodes, NEW k \in Positions, AllBut(i, k),
             Owned(i, k)' = 0 \/ \A j \in Inodes : \A l \in Positions : Owned(j, l) # Owned(i, k)'
      PROVE  Distinct'
  BY <1>1, <1>3 DEF Distinct, AllBut
<1>4. pc[p] = "bzero" => \A j \in Inodes : \A l \in Positions : Owned(j, l) # blk[p]
  BY <1>1 DEF NewFits, New
<1> QED BY <1>1, <1>2, <1>3, <1>4 DEF OwnersStep

(* The blocks in use are those of inodes, and the new ones. *)
LEMMA UsedKept ==
  ASSUME NEW p \in Procs, BlocksDo(p)
  PROVE  UsedAre'
<1>1. /\ Distinct /\ UsedAre /\ OwnersStep(p) /\ \A q \in Procs : NewFits(q)
  BY OwnersAre DEF BlocksDo, BlocksInv
<1>2. /\ \A q \in Procs : q # p => (New(q)' <=> New(q)) /\ blk'[q] = blk[q]
      /\ New(p) <=> pc[p] = "bzero"
      /\ New(p)' <=> pc'[p] = "bzero"
  BY NewsAre
<1> DEFINE Has(b) == \E i \in Inodes : \E k \in Positions : Owned(i, k) = b
           News(b) == \E q \in Procs : New(q) /\ blk[q] = b
<1>3. used \subseteq Blocks /\ \A b \in Blocks : b \in used <=> Has(b) \/ News(b)
  BY <1>1 DEF UsedAre
<1>4. SUFFICES used' \subseteq Blocks /\ \A b \in Blocks : b \in used' <=> Has(b)' \/ News(b)'
  BY DEF UsedAre
<1>5. CASE SameOwners /\ used' = used /\ pc[p] # "bzero" /\ pc'[p] # "bzero"
  <2>1. \A b : (Has(b)' <=> Has(b)) /\ (News(b)' <=> News(b))
    BY <1>2, <1>5 DEF SameOwners
  <2> HIDE DEF Has, News
  <2> QED BY <1>3, <1>5, <2>1
<1>6. CASE SameOwners /\ pc[p] = "bmap" /\ pc'[p] = "bzero" /\ AllocatesBlock(p)
  <2>1. PICK c \in Unused : used' = used \cup {c} /\ blk'[p] = c
    BY <1>6 DEF AllocatesBlock
  <2>2. \A b : (Has(b)' <=> Has(b)) /\ (News(b)' <=> News(b) \/ b = c)
    BY <1>2, <1>6, <2>1 DEF SameOwners
  <2> HIDE DEF Has, News
  <2> QED BY <1>3, <2>1, <2>2 DEF Unused
<1>7. ASSUME pc[p] = "bzero", pc'[p] = "bmap", used' = used, NEW i \in Inodes, NEW k \in Positions,
             Owned(i, k) = 0, Owned(i, k)' = blk[p], AllBut(i, k)
      PROVE  used' \subseteq Blocks /\ \A b \in Blocks : b \in used' <=> Has(b)' \/ News(b)'
  <2>1. \A b \in Blocks : Has(b)' <=> Has(b) \/ b = blk[p]
    <3>1. \A b \in Blocks : b # 0
      BY DEF Blocks
    <3> QED BY <1>7, <3>1 DEF AllBut
  <2>2. \A b : News(b) <=> News(b)' \/ b = blk[p]
    BY <1>2, <1>7
  <2>3. \A b : News(b)' => b # blk[p]
    BY <1>1, <1>2, <1>7 DEF NewFits
  <2> HIDE DEF Has, News
  <2> QED BY <1>3, <1>7, <2>1, <2>2, <2>3
<1>8. ASSUME pc[p] = "itrunc", pc'[p] = "itrunc", NEW i \in Inodes, NEW k \in Positions,
             Owned(i, k)' = 0, used' = used \ {Owned(i, k)}, AllBut(i, k)
      PROVE  used' \subseteq Blocks /\ \A b \in Blocks : b \in used' <=> Has(b)' \/ News(b)'
  <2>1. \A b \in Blocks : b # 0
    BY DEF Blocks
  <2>2. \A b \in Blocks : Has(b)' <=> Has(b) /\ b # Owned(i, k)
    BY <1>1, <1>8, <2>1 DEF AllBut, Distinct
  <2>3. \A b : News(b)' <=> News(b)
    BY <1>2, <1>8
  <2>4. \A b \in Blocks : News(b) => b # Owned(i, k)
    BY <1>1 DEF NewFits
  <2> HIDE DEF Has, News
  <2> QED BY <1>3, <1>8, <2>2, <2>3, <2>4
<1> QED BY <1>1, <1>5, <1>6, <1>7, <1>8 DEF OwnersStep

(* A new block is nobody's yet. *)
LEMMA NewKept ==
  ASSUME NEW p \in Procs, BlocksDo(p), NEW q \in Procs
  PROVE  NewFits(q)'
<1>1. /\ UsedAre /\ OwnersStep(p) /\ \A u \in Procs : NewFits(u)
  BY OwnersAre DEF BlocksDo, BlocksInv
<1>2. /\ \A u \in Procs : u # p => (New(u)' <=> New(u)) /\ blk'[u] = blk[u]
      /\ New(p) <=> pc[p] = "bzero"
      /\ New(p)' <=> pc'[p] = "bzero"
  BY NewsAre
<1>3. SUFFICES ASSUME New(q)'
               PROVE  /\ blk'[q] # 0
                      /\ \A i \in Inodes : \A k \in Positions : Owned(i, k)' # blk'[q]
                      /\ \A u \in Procs : New(u)' /\ blk'[u] = blk'[q] => q = u
  BY DEF NewFits
<1>4. CASE SameOwners /\ used' = used /\ pc[p] # "bzero" /\ pc'[p] # "bzero"
  <2>1. \A u \in Procs : New(u)' => New(u) /\ blk'[u] = blk[u]
    BY <1>2, <1>4
  <2> QED BY <1>1, <1>3, <1>4, <2>1 DEF NewFits, SameOwners
<1>5. CASE SameOwners /\ pc[p] = "bmap" /\ pc'[p] = "bzero" /\ AllocatesBlock(p)
  <2>1. PICK c \in Unused : used' = used \cup {c} /\ blk'[p] = c
    BY <1>5 DEF AllocatesBlock
  <2>2. c \in Blocks /\ c \notin used /\ c # 0
    BY <2>1 DEF Unused, Blocks
  <2>3. /\ \A i \in Inodes : \A k \in Positions : Owned(i, k)' # c
        /\ \A u \in Procs : New(u) => blk[u] # c
    BY <1>1, <1>5, <2>2 DEF UsedAre, SameOwners
  <2>4. CASE q = p
    BY <1>2, <2>1, <2>2, <2>3, <2>4
  <2>5. CASE q # p
    <3>1. New(q) /\ blk'[q] = blk[q]
      BY <1>2, <1>3, <2>5
    <3>2. \A u \in Procs : New(u)' /\ blk'[u] = blk[q] => u # p /\ New(u) /\ blk[u] = blk[q]
      BY <1>2, <2>1, <2>3, <3>1
    <3> QED BY <1>1, <1>5, <3>1, <3>2 DEF NewFits, SameOwners
  <2> QED BY <2>4, <2>5
<1>6. ASSUME pc[p] = "bzero", pc'[p] = "bmap", NEW i \in Inodes, NEW k \in Positions,
             Owned(i, k)' = blk[p], AllBut(i, k)
      PROVE  /\ blk'[q] # 0
             /\ \A j \in Inodes : \A l \in Positions : Owned(j, l)' # blk'[q]
             /\ \A u \in Procs : New(u)' /\ blk'[u] = blk'[q] => q = u
  <2>1. \A u \in Procs : New(u)' => u # p /\ New(u) /\ blk'[u] = blk[u]
    BY <1>2, <1>6
  <2>2. q # p /\ New(q) /\ blk'[q] = blk[q] /\ New(p)
    BY <1>2, <1>3, <1>6, <2>1
  <2>3. blk[q] # blk[p]
    BY <1>1, <2>2 DEF NewFits
  <2> QED BY <1>1, <1>6, <2>1, <2>2, <2>3 DEF NewFits, AllBut
<1>7. ASSUME pc[p] = "itrunc", pc'[p] = "itrunc", NEW i \in Inodes, NEW k \in Positions,
             Owned(i, k)' = 0, AllBut(i, k)
      PROVE  /\ blk'[q] # 0
             /\ \A j \in Inodes : \A l \in Positions : Owned(j, l)' # blk'[q]
             /\ \A u \in Procs : New(u)' /\ blk'[u] = blk'[q] => q = u
  <2>1. \A u \in Procs : New(u)' => New(u) /\ blk'[u] = blk[u]
    BY <1>2, <1>7
  <2> QED BY <1>1, <1>3, <1>7, <2>1 DEF NewFits, AllBut
<1> QED BY <1>1, <1>4, <1>5, <1>6, <1>7 DEF OwnersStep

(* The sizes of the inodes, as a step leaves them. *)
LEMMA SizeStep ==
  ASSUME NEW p \in Procs, BlocksDo(p), NEW i \in Inodes
  PROVE  /\ Rec(i)'.size <= MAXFILE
         /\ Rec(i)'.size # Rec(i).size => Rec(i)'.size = 0 \/ Alters(p, i)
<1>1. SizesFit /\ WriteFits(p) /\ BlockStep(p) /\ CacheDoes(p) /\ RefInv /\ DataTypes
  BY BlocksKnown DEF BlocksDo, BlocksInv
<1>2. Rec(i).size <= MAXFILE
  BY <1>1 DEF SizesFit
<1>3. MAXFILE \in Nat
  BY Sizes DEF MAXFILE
<1>4. CASE ~Alters(p, i) /\ Alters(p, i)'
  <2>1. Rec(i)'.size = Rec(i).size
    BY <1>4, RecBegins DEF Same
  <2> QED BY <1>2, <2>1
<1>5. CASE ~Alters(p, i) /\ ~Alters(p, i)'
  <2>1. Rec(i)'.size = Rec(i).size \/ Rec(i)'.size = 0
    BY <1>5, RecOthers, OwnedClears DEF Same
  <2> QED BY <1>2, <1>3, <2>1
<1>6. CASE Alters(p, i) /\ pc[p] = "bmap" /\ pc'[p] = "return"
  <2>1. /\ Rec(i)'.size = IF op[p] = "write" /\ off[p] > Rec(i).size THEN off[p] ELSE Rec(i).size
        /\ off[p] = end[p]
    BY <1>6, RecEnds
  <2>2. end[p] <= MAXFILE
    BY <1>1, <1>6 DEF WriteFits
  <2> QED BY <1>2, <1>6, <2>1, <2>2
<1>7. CASE Alters(p, i) /\ pc[p] = "itrunc" /\ pc'[p] = "iput_free"
  <2>1. Rec(i)'.size = 0
    BY <1>7, RecFrees
  <2> QED BY <1>3, <2>1
<1>8. CASE Alters(p, i) /\ ~(pc[p] = "bmap" /\ pc'[p] = "return") /\ ~(pc[p] = "itrunc" /\ pc'[p] = "iput_free")
  <2>1. \/ pc[p] = "bmap" /\ pc'[p] \in {"bmap", "bzero"}
        \/ pc[p] = "bzero"
        \/ pc[p] = "itrunc" /\ pc'[p] = "itrunc"
    BY <1>1, <1>8, ChangingPlaces DEF Alters, Changing
  <2>2. Rec(i)'.size = Rec(i).size
    BY <1>8, <2>1, RecCopies, RecStores, RecTurns DEF Same
  <2> QED BY <1>2, <2>2
<1> QED BY <1>4, <1>5, <1>6, <1>7, <1>8

(* An inode that a call has, and that the call is not about to let go, is  *)
(* not free. *)
LEMMA AltersLive ==
  ASSUME NEW p \in Procs, BlocksDo(p), NEW i, Alters(p, i)
  PROVE  dinode[i].type # Free
<1>1. Live(p) /\ Reg(p) \in Regs /\ At(p, Reg(p)) # 0 /\ Ino(p, Reg(p)) = i
  BY BlocksKnown, AlterHolds DEF NamesInv, Alters, Points
<1>2. ~Dying(p, Reg(p))
  BY DEF Alters, Changing, Dying, Dies
<1> QED BY <1>1, <1>2 DEF Live

(* A file is not longer than an inode has block numbers for, and an inode  *)
(* that is free has no size. *)
LEMMA SizesKept ==
  ASSUME NEW p \in Procs, BlocksDo(p)
  PROVE  SizesFit'
<1>1. SizesFit /\ FreeFits(p) /\ BlockStep(p) /\ CacheDoes(p) /\ RefInv /\ DataTypes /\ NamesInv
  BY BlocksKnown DEF BlocksDo, BlocksInv
<1>2. ASSUME NEW i \in Inodes, dinode'[i].type = Free
      PROVE  Rec(i)'.size = 0
  <2>1. LinkStep(p, i)
    BY <1>1, LinksStep
  <2>2. CASE dinode[i].type = Free
    <3>1. Rec(i).size = 0 /\ ~Alters(p, i)
      BY <1>1, <2>2, AltersLive DEF SizesFit
    <3> QED BY <3>1, SizeStep
  <2>3. CASE pc[p] = "iput_free" /\ i = Ino(p, "put")
    <3>1. Rec(i).size = 0 /\ ~Alters(p, i)
      BY <1>1, <2>3 DEF FreeFits, Alters, Changing
    <3> QED BY <3>1, SizeStep
  <2>4. dinode[i].type = Free \/ (pc[p] = "iput_free" /\ i = Ino(p, "put"))
    BY <1>2, <2>1 DEF LinkStep, Free
  <2> QED BY <2>2, <2>3, <2>4
<1>3. \A i \in Inodes : Rec(i)'.size <= MAXFILE
  BY SizeStep
<1> QED BY <1>2, <1>3 DEF SizesFit

(* What an inode has at its positions, when nobody alters it. *)
LEMMA ShapeKept ==
  ASSUME NEW p \in Procs, BlocksDo(p), NEW i \in Inodes
  PROVE  ShapeFits(i)'
<1>1. ShapeFits(i) /\ WriteFits(p) /\ BlockStep(p) /\ CacheDoes(p)
  BY BlocksKnown DEF BlocksDo, BlocksInv
<1>2. SUFFICES ASSUME \A q \in Procs : ~Alters(q, i)'
               PROVE  Exact(i, Rec(i).size)'
  BY DEF ShapeFits
<1>3. \A q \in Procs : q # p => ~Alters(q, i)
  BY <1>2, OthersAlter
<1>4. CASE ~Alters(p, i)
  <2>1. \A k \in Positions : Owned(i, k)' = Owned(i, k)
    BY <1>4, OwnersElsewhere
  <2>2. Rec(i)'.size = Rec(i).size
    BY <1>2, <1>4, RecOthers, OwnedClears DEF Same
  <2>3. Exact(i, Rec(i).size)
    BY <1>1, <1>3, <1>4 DEF ShapeFits
  <2> QED BY <2>1, <2>2, <2>3 DEF Exact
<1>5. CASE Alters(p, i)
  <2>1. pc'[p] \notin Changing
    BY <1>2, <1>5, RecGoesOn
  <2>2. (pc[p] = "bmap" /\ pc'[p] = "return") \/ (pc[p] = "itrunc" /\ pc'[p] = "iput_free")
    BY <1>1, <1>5, <2>1, ChangingPlaces DEF Alters, Changing
  <2>3. CASE pc[p] = "itrunc" /\ pc'[p] = "iput_free"
    <3>1. \A k \in Positions : Owned(i, k)' = 0
      BY <1>5, <2>3, OwnedFrees
    <3>2. Rec(i)'.size = 0
      BY <1>5, <2>3, RecFrees
    <3> QED BY <3>1, <3>2, Sizes DEF Exact, Positions
  <2>4. CASE pc[p] = "bmap" /\ pc'[p] = "return"
    <3>1. /\ Rec(i)'.addrs = Rec(i).addrs /\ \A k : ~Cut(i, k) /\ ~Cut(i, k)'
          /\ Rec(i)'.size = IF op[p] = "write" /\ off[p] > Rec(i).size THEN off[p] ELSE Rec(i).size
          /\ off[p] = end[p] /\ (op[p] # "write" => end[p] <= Rec(i).size)
      BY <1>5, <2>4, RecEnds
    <3>2. content' = content
      BY <1>1, <2>4 DEF BlockStep, Changing
    <3>3. \A k \in Positions : Owned(i, k)' = Owned(i, k)
      BY <3>1, <3>2 DEF Owned, BlockAt
    <3>4. i = Ino(p, "fd")
      BY <1>5, <2>4 DEF Alters, Reg, Points
    <3>5. Rec(i).size \in Nat /\ off[p] \in Nat /\ end[p] \in Nat
      BY RecTypes, BlocksKnown DEF BlocksDo, DataTypes
    <3>6. Exact(i, Upto(p)) /\ Upto(p) = Rec(i)'.size
      <4>1. Exact(i, Upto(p))
        BY <1>1, <2>4, <3>1, <3>4, <3>5 DEF WriteFits
      <4>2. Upto(p) = Rec(i)'.size
        BY <3>1, <3>4, <3>5 DEF Upto
      <4> QED BY <4>1, <4>2
    <3> QED BY <3>3, <3>6 DEF Exact
  <2> QED BY <2>2, <2>3, <2>4
<1> QED BY <1>4, <1>5

(* The inode that a call alters is one it has locked, in use.              *)
LEMMA AlteredIs ==
  ASSUME NEW p \in Procs, BlocksDo(p), NEW q \in Procs, pc[q] \in Changing
  PROVE  Alters(q, Ino(q, Reg(q))) /\ Ino(q, Reg(q)) \in Inodes
<1>1. Holds(q, Reg(q)) /\ Reg(q) \in Regs
  BY AlterHolds
<1>2. At(q, Reg(q)) \in Slots
  BY <1>1, BlocksKnown DEF LockInv, HoldsFit
<1>3. At(q, Reg(q)) # 0 /\ Ino(q, Reg(q)) \in Inodes
  <2>1. inum \in [Slots -> Inodes]
    BY BlocksKnown DEF DataTypes
  <2>2. 0 \notin Slots
    BY DEF Slots
  <2> QED BY <1>2, <2>1, <2>2 DEF Ino
<1> QED BY <1>3 DEF Alters, Points

(* What another call alters is left to it. *)
LEMMA OthersGoOnAltering ==
  ASSUME NEW p \in Procs, BlocksDo(p), NEW q \in Procs, q # p, NEW i, Alters(q, i)
  PROVE  /\ i \in Inodes /\ Alters(q, i)' /\ Ino(q, Reg(q)) = i /\ Ino(q, Reg(q))' = i
         /\ Same(i) /\ \A k \in Positions : Owned(i, k)' = Owned(i, k)
<1>1. Holds(q, Reg(q)) /\ Reg(q) \in Regs
  BY AlterHolds DEF Alters
<1>2. i \in Inodes
  BY AlteredIs DEF Alters, Points
<1>3. ~Alters(p, i)
  BY <1>1, AlterAlone, BlocksKnown DEF Alters
<1>4. ~Alters(p, i)'
  BY <1>2, <1>3, RecBegins
<1>5. Same(i)
  BY <1>2, <1>3, <1>4, RecOthers, OwnedClears
<1>6. Alters(q, i)' /\ Ino(q, Reg(q)) = i /\ Ino(q, Reg(q))' = i
  BY OthersAlter DEF Alters, Points
<1> QED BY <1>2, <1>3, <1>5, <1>6, OwnersElsewhere

(* How far another call has got in its file. *)
LEMMA OthersWrite ==
  ASSUME NEW p \in Procs, BlocksDo(p), NEW q \in Procs, q # p
  PROVE  WriteFits(q)'
<1>1. WriteFits(q) /\ pc'[q] = pc[q] /\ Where(q)' = Where(q) /\ off'[q] = off[q] /\ end'[q] = end[q]
  BY BlocksKnown DEF BlocksDo, BlocksInv, Only, DataFrame, Where
<1>2. CASE pc[q] \notin {"bmap", "bzero"}
  BY <1>1, <1>2 DEF WriteFits
<1>3. ASSUME pc[q] \in {"bmap", "bzero"}, NEW i, i = Ino(q, "fd")
      PROVE  WriteFits(q)'
  <2>1. Alters(q, i)
    <3>1. Reg(q) = "fd" /\ pc[q] \in Changing
      BY <1>3 DEF Reg, Changing
    <3> QED BY <1>3, <3>1, AlteredIs
  <2>2. /\ Ino(q, "fd")' = i /\ Rec(i)'.size = Rec(i).size /\ i \in Inodes
        /\ \A k \in Positions : Owned(i, k)' = Owned(i, k)
    BY <1>1, <1>3, <2>1, OthersGoOnAltering DEF Same, Reg
  <2>3. Upto(q)' = Upto(q)
    BY <1>1, <1>3, <2>2 DEF Upto
  <2>5. Half(i)' <=> Half(i)
    BY <2>2 DEF Half
  <2>6. Exact(i, Upto(q)) => Exact(i, Upto(q))'
    BY <2>2, <2>3 DEF Exact
  <2>7. Exact(i, off[q] + 1) => Exact(i, off[q] + 1)'
    BY <1>1, <2>2 DEF Exact
  <2>8. off[q] \in Positions => (Owned(i, off[q]) = 0 => Owned(i, off[q])' = 0)
    BY <1>1, <2>2
  <2>9. off[q] < end[q] /\ end[q] <= MAXFILE => off[q] \in Positions
    <3>1. off[q] \in Nat /\ end[q] \in Nat
      BY BlocksKnown DEF DataTypes
    <3>2. MAXFILE \in Nat
      BY Sizes DEF MAXFILE
    <3> QED BY <3>1, <3>2 DEF Positions
  <2> QED BY <1>1, <1>3, <2>2, <2>3, <2>5, <2>6, <2>7, <2>8, <2>9 DEF WriteFits
<1> QED BY <1>2, <1>3

(* What a call in the loops of readi and writei knows of its file. *)
LEMMA WriteKnown ==
  ASSUME NEW p \in Procs, BlocksDo(p), pc[p] \in {"bmap", "bzero"}, NEW i, i = Ino(p, "fd")
  PROVE  /\ Alters(p, i) /\ i \in Inodes /\ Rec(i).size \in Nat /\ off[p] \in Nat /\ end[p] \in Nat
         /\ NDIRECT \in Nat /\ MAXFILE \in Nat /\ NDIRECT < MAXFILE
         /\ off[p] <= end[p] /\ end[p] <= MAXFILE
         /\ \/ Exact(i, Upto(p))
            \/ /\ pc[p] = "bmap" /\ Rec(i).size <= off[p] /\ off[p] < end[p]
               /\ Exact(i, off[p] + 1)
            \/ Rec(i).size <= off[p] /\ off[p] < end[p] /\ off[p] = NDIRECT /\ Half(i)
         /\ pc[p] = "bzero" => Rec(i).size <= off[p] /\ off[p] < end[p] /\ Owned(i, off[p]) = 0
         /\ Upto(p) = IF Rec(i).size > off[p] THEN Rec(i).size ELSE off[p]
         /\ off[p] < end[p] => off[p] \in Positions
<1>1. WriteFits(p)
  BY DEF BlocksDo, BlocksInv
<1>2. Alters(p, i) /\ i \in Inodes
  <2>1. Reg(p) = "fd" /\ pc[p] \in Changing
    BY DEF Reg, Changing
  <2> QED BY <2>1, AlteredIs
<1>3. off[p] \in Nat /\ end[p] \in Nat /\ Rec(i).size \in Nat
  BY <1>2, RecTypes, BlocksKnown DEF BlocksDo, DataTypes
<1>4. NDIRECT \in Nat /\ MAXFILE \in Nat /\ NDIRECT < MAXFILE
  BY Sizes DEF MAXFILE
<1>5. off[p] <= end[p] /\ end[p] <= MAXFILE
  BY <1>1 DEF WriteFits
<1>6. off[p] < end[p] => off[p] \in Positions
  BY <1>3, <1>4, <1>5 DEF Positions
<1>7. Upto(p) = IF Rec(i).size > off[p] THEN Rec(i).size ELSE off[p]
  BY DEF Upto
<1> QED BY <1>1, <1>2, <1>3, <1>4, <1>5, <1>6, <1>7 DEF WriteFits

(* What is to be shown of the loop after a step. *)
LEMMA WriteNext ==
  ASSUME NEW p \in Procs, BlocksDo(p), NEW i, Ino(p, "fd")' = i,
         NEW m, off'[p] = m, NEW n, Rec(i)'.size = n, m <= end'[p], end'[p] <= MAXFILE,
         \/ Exact(i, IF n > m THEN n ELSE m)'
         \/ pc'[p] = "bmap" /\ n <= m /\ m < end'[p] /\ Exact(i, m + 1)'
         \/ n <= m /\ m < end'[p] /\ m = NDIRECT /\ Half(i)',
         pc'[p] = "bzero" => n <= m /\ m < end'[p] /\ Owned(i, m)' = 0,
         pc'[p] \in Changing
  PROVE  WriteFits(p)'
<1>1. Where(p)' # "rw_locked"
  BY BlocksKnown, ChangingPlaces DEF Changing
<1>2. Upto(p)' = IF n > m THEN n ELSE m
  BY DEF Upto
<1> QED BY <1>1, <1>2 DEF WriteFits

LEMMA AlteredAre == LockInv /\ RootInv => Altering
<1> SUFFICES ASSUME LockInv, RootInv, NEW q \in Procs, pc[q] \in Changing
             PROVE  \E i \in Inodes : Alters(q, i)
  BY DEF Altering
<1>1. Holds(q, Reg(q)) /\ Reg(q) \in Regs
  BY AlterHolds
<1>2. At(q, Reg(q)) \in Slots
  BY <1>1 DEF LockInv, HoldsFit
<1>3. inum \in [Slots -> Inodes] /\ 0 \notin Slots
  BY DEF RootInv, DataTypes, Slots
<1> QED BY <1>2, <1>3 DEF Alters, Points, Ino

(* The least of two numbers. *)
LEMMA LeastOfTwo ==
  ASSUME NEW m \in Nat, NEW n \in Nat
  PROVE  Least({m, n}) \in {m, n} /\ Least({m, n}) <= m /\ Least({m, n}) <= n
<1>1. {m, n} \subseteq 0 .. m + n /\ {m, n} # {} /\ m + n \in Nat
  OBVIOUS
<1> QED BY <1>1, LeastOf

(* readi or writei begins. *)
LEMMA WriteBegins ==
  ASSUME NEW p \in Procs, BlocksDo(p), pc[p] = "rw_locked", pc'[p] = "bmap"
  PROVE  WriteFits(p)'
<1>1. BlockStep(p) /\ WriteFits(p) /\ SizesFit /\ \A i \in Inodes : ShapeFits(i)
  BY BlocksKnown DEF BlocksDo, BlocksInv
<1>2. PICK i \in Inodes : Alters(p, i)'
  <2>1. LockInv' /\ RootInv' => Altering'
    BY AlteredAre, PTL
  <2> QED BY <2>1, BlocksKnown DEF Altering, Changing
<1>3. ~Alters(p, i)
  BY DEF Alters, Changing
<1>4. /\ Same(i) /\ \A q \in Procs : ~Alters(q, i)
      /\ Points(p, "fd", i) /\ At(p, "fd")' = At(p, "fd")
  BY <1>2, <1>3, RecBegins
<1>5. \A k \in Positions : Owned(i, k)' = Owned(i, k)
  BY <1>3, OwnersElsewhere
<1>6. Ino(p, "fd")' = i /\ Ino(p, "fd") = i
  BY <1>2, <1>4 DEF Alters, Reg, Points
<1>7. Size(p) = Rec(i).size
  <2>1. Holds(p, "fd") /\ "fd" \in Regs
    BY RegsAre DEF Holds, Copies
  <2>2. copy[At(p, "fd")].size = dinode[i].size
    BY <1>4, <1>6, <2>1, HeldClean
  <2>3. Rec(i) = dinode[i]
    BY <1>4 DEF BlocksDo, RecsFit
  <2> QED BY <2>2, <2>3 DEF Size, File
<1>8. PICK n \in Nat : n = Rec(i).size
  BY RecTypes, BlocksKnown DEF BlocksDo
<1>9. n <= MAXFILE /\ Exact(i, n)
  BY <1>1, <1>4, <1>8 DEF SizesFit, ShapeFits
<1>10. Rec(i)'.size = n /\ Exact(i, n)'
  BY <1>4, <1>5, <1>8, <1>9 DEF Same, Exact
<1>11. /\ off'[p] = off[p] /\ off[p] <= n
       /\ (end'[p] = end[p] /\ end[p] <= MAXFILE) \/ end'[p] = Least({end[p], n})
  BY <1>1, <1>7, <1>8 DEF BlockStep, Changing
<1>12. off[p] <= end[p] /\ off[p] \in Nat /\ end[p] \in Nat
  BY <1>1, BlocksKnown DEF WriteFits, Where, Inner, Putting, DataTypes
<1>13. off[p] <= end'[p] /\ end'[p] <= MAXFILE
  <2>1. MAXFILE \in Nat
    BY Sizes DEF MAXFILE
  <2>2. Least({end[p], n}) \in {end[p], n} /\ Least({end[p], n}) <= n
    BY <1>12, LeastOfTwo
  <2>3. CASE end'[p] = end[p] /\ end[p] <= MAXFILE
    BY <1>12, <2>3
  <2>4. CASE end'[p] = Least({end[p], n})
    BY <1>8, <1>9, <1>11, <1>12, <2>1, <2>2, <2>4
  <2> QED BY <1>11, <2>3, <2>4
<1>14. PICK m \in Nat : m = off[p]
  BY <1>12
<1>15. (IF n > m THEN n ELSE m) = n
  BY <1>8, <1>11, <1>14
<1>16. Exact(i, IF n > m THEN n ELSE m)'
  BY <1>10, <1>15
<1> QED BY <1>6, <1>10, <1>11, <1>13, <1>14, <1>16, WriteNext DEF Changing

(* What bmap finds for a unit is the inode's block there. *)
LEMMA BMappedOwned ==
  ASSUME NEW p \in Procs, BlocksDo(p), pc[p] = "bmap", NEW i, i = Ino(p, "fd"), off[p] < end[p]
  PROVE  BMapped(p, off[p]) = Owned(i, off[p])
<1>1. /\ Alters(p, i) /\ i \in Inodes /\ off[p] \in Nat /\ end[p] \in Nat /\ off[p] < MAXFILE
      /\ NDIRECT \in Nat /\ MAXFILE \in Nat /\ NDIRECT < MAXFILE
  BY WriteKnown
<1>2. /\ Rec(i) = copy[File(p)] /\ \A k : ~Cut(i, k)
  BY <1>1, RecGoesOn DEF Reg, File
<1> QED BY <1>1, <1>2 DEF BMapped, Owned, BlockAt, Indirect

(* A turn of readi or writei: bmap finds the block of the unit, or takes   *)
(* one for it.                                                             *)
LEMMA WriteTurns ==
  ASSUME NEW p \in Procs, BlocksDo(p), pc[p] = "bmap", pc'[p] \in {"bmap", "bzero"}
  PROVE  WriteFits(p)'
<1>1. PICK i : i = Ino(p, "fd")
  OBVIOUS
<1>2. /\ Alters(p, i) /\ i \in Inodes /\ Rec(i).size \in Nat /\ off[p] \in Nat /\ end[p] \in Nat
      /\ NDIRECT \in Nat /\ MAXFILE \in Nat /\ NDIRECT < MAXFILE
      /\ off[p] <= end[p] /\ end[p] <= MAXFILE
      /\ \/ Exact(i, Upto(p))
         \/ Rec(i).size <= off[p] /\ off[p] < end[p] /\ Exact(i, off[p] + 1)
         \/ Rec(i).size <= off[p] /\ off[p] < end[p] /\ off[p] = NDIRECT /\ Half(i)
      /\ Upto(p) = IF Rec(i).size > off[p] THEN Rec(i).size ELSE off[p]
      /\ off[p] < end[p] => off[p] \in Positions
  BY <1>1, WriteKnown
<1>3. /\ BlockStep(p) /\ off[p] < end[p] /\ UNCHANGED <<content, copy, dinode, end>>
      /\ IF pc'[p] = "bmap" THEN off'[p] = off[p] + 1 /\ BMapped(p, off[p]) # 0
         ELSE off'[p] = off[p] /\ BMapped(p, off[p]) = 0
  BY DEF BlocksDo, BlockStep, Changing
<1>4. BMapped(p, off[p]) = Owned(i, off[p])
  BY <1>1, <1>3, BMappedOwned
<1>5. Same(i)
  BY <1>2, RecCopies
<1>6. \A k \in Positions : Owned(i, k)' = Owned(i, k)
  BY <1>2, <1>5, OwnedOthers
<1>7. Ino(p, "fd")' = i
  BY <1>1, <1>2, RecGoesOn DEF Ino, Reg
<1>8. PICK n \in Nat, m \in Nat : n = Rec(i).size /\ m = off[p]
  BY <1>2
<1>9. /\ Rec(i)'.size = n /\ m < end'[p] /\ end'[p] <= MAXFILE /\ m \in Positions /\ end'[p] \in Nat
  BY <1>2, <1>3, <1>5, <1>8 DEF Same
<1>10. \/ Exact(i, IF n > m THEN n ELSE m)
       \/ n <= m /\ Exact(i, m + 1)
       \/ n <= m /\ m = NDIRECT /\ Half(i)
  BY <1>2, <1>8
<1>11. m < MAXFILE
  BY <1>2, <1>9
<1>12. CASE pc'[p] = "bmap"
  <2>1. Owned(i, m) # 0 /\ off'[p] = m + 1 /\ m + 1 \in Nat
    BY <1>3, <1>4, <1>8, <1>12
  <2>2. Exact(i, IF n > m + 1 THEN n ELSE m + 1)
    <3>1. ASSUME Exact(i, IF n > m THEN n ELSE m)
          PROVE  Exact(i, IF n > m + 1 THEN n ELSE m + 1)
      <4>1. m < IF n > m THEN n ELSE m
        BY <1>9, <1>11, <2>1, <3>1 DEF Exact
      <4>2. (IF n > m + 1 THEN n ELSE m + 1) = IF n > m THEN n ELSE m
        BY <1>8, <4>1
      <4> QED BY <3>1, <4>2
    <3>2. ASSUME n <= m, Exact(i, m + 1)
          PROVE  Exact(i, IF n > m + 1 THEN n ELSE m + 1)
      <4>1. (IF n > m + 1 THEN n ELSE m + 1) = m + 1
        BY <1>8, <3>2
      <4> QED BY <3>2, <4>1
    <3>3. ~(m = NDIRECT /\ Half(i))
      BY <1>2, <1>9, <1>11, <2>1 DEF Half
    <3> QED BY <1>10, <3>1, <3>2, <3>3
  <2>3. Exact(i, IF n > m + 1 THEN n ELSE m + 1)'
    BY <1>6, <2>2 DEF Exact
  <2>4. m + 1 <= end'[p]
    BY <1>8, <1>9
  <2> QED BY <1>7, <1>9, <1>12, <2>1, <2>3, <2>4, WriteNext DEF Changing
<1>13. CASE pc'[p] = "bzero"
  <2>1. Owned(i, m) = 0 /\ off'[p] = m
    BY <1>3, <1>4, <1>8, <1>13
  <2>2. \/ n <= m /\ Exact(i, IF n > m THEN n ELSE m)
        \/ n <= m /\ m = NDIRECT /\ Half(i)
    <3>1. ~Exact(i, m + 1)
      BY <1>8, <1>9, <1>11, <2>1 DEF Exact
    <3>2. Exact(i, IF n > m THEN n ELSE m) => n <= m
      <4>1. n > m => ~Exact(i, n)
        BY <1>8, <1>9, <1>11, <2>1 DEF Exact
      <4> QED BY <1>8, <4>1
    <3> QED BY <1>10, <3>1, <3>2
  <2>3. \/ n <= m /\ Exact(i, IF n > m THEN n ELSE m)'
        \/ n <= m /\ m = NDIRECT /\ Half(i)'
    BY <1>6, <2>2 DEF Exact, Half
  <2>4. Owned(i, m)' = 0 /\ n <= m /\ m <= end'[p]
    BY <1>6, <1>8, <1>9, <2>1, <2>2
  <2> QED BY <1>7, <1>9, <1>13, <2>1, <2>3, <2>4, WriteNext DEF Changing
<1> QED BY <1>12, <1>13

(* bmap has taken a block, which it stores in the inode, or in its         *)
(* indirect block. *)
LEMMA WriteStores ==
  ASSUME NEW p \in Procs, BlocksDo(p), pc[p] = "bzero"
  PROVE  WriteFits(p)'
<1>1. PICK i : i = Ino(p, "fd")
  OBVIOUS
<1>2. /\ Alters(p, i) /\ i \in Inodes /\ Rec(i).size \in Nat /\ off[p] \in Nat /\ end[p] \in Nat
      /\ NDIRECT \in Nat /\ MAXFILE \in Nat /\ NDIRECT < MAXFILE
      /\ end[p] <= MAXFILE /\ Rec(i).size <= off[p] /\ off[p] < end[p]
      /\ Exact(i, Upto(p)) \/ (off[p] = NDIRECT /\ Half(i))
      /\ Upto(p) = IF Rec(i).size > off[p] THEN Rec(i).size ELSE off[p]
  BY <1>1, WriteKnown
<1>3. pc'[p] = "bmap" /\ Rec(i)'.size = Rec(i).size /\ off' = off /\ end' = end
  BY <1>2, RecStores
<1>4. Ino(p, "fd")' = i
  BY <1>1, <1>2, RecGoesOn DEF Ino, Reg
<1>5. PICK n \in Nat, m \in Nat : n = Rec(i).size /\ m = off[p]
  BY <1>2
<1>6. PICK j \in Positions :
        /\ j = Place(p) /\ Owned(i, j) = 0 /\ Owned(i, j)' = blk[p]
        /\ \A k \in Positions : k # j => Owned(i, k)' = Owned(i, k)
  BY <1>2, OwnedStores
<1>7. m < MAXFILE /\ m \in Positions /\ j = IF m < NDIRECT \/ Owned(i, MAXFILE) # 0 THEN m ELSE MAXFILE
  BY <1>2, <1>5, <1>6, OwnedStores DEF Place
<1>8. blk[p] # 0
  BY DEF BlocksDo, BlocksInv, NewFits, New
<1>9. n <= m /\ (Exact(i, m) \/ (m = NDIRECT /\ Half(i)))
  BY <1>2, <1>5
<1>10. MAXFILE \in Positions
  BY <1>2 DEF Positions
<1>11. \A k \in Positions : k <= MAXFILE /\ k \in Nat
  BY <1>2 DEF Positions
<1>12. Exact(i, m + 1)' \/ (m = NDIRECT /\ Half(i)')
  <2>1. CASE Exact(i, m)
    <3>1. \A k \in Positions : Owned(i, k) # 0 <=> IF k < MAXFILE THEN k < m ELSE m > NDIRECT
      BY <2>1 DEF Exact
    <3>2. Owned(i, MAXFILE) # 0 <=> m > NDIRECT
      BY <1>2, <1>10, <3>1
    <3>3. CASE m = NDIRECT
      <4>1. j = MAXFILE
        BY <1>2, <1>7, <3>2, <3>3
      <4>2. ASSUME NEW k \in Positions PROVE Owned(i, k)' # 0 <=> k < NDIRECT \/ k = MAXFILE
        <5>1. CASE k = MAXFILE
          BY <1>6, <1>8, <4>1, <5>1
        <5>2. CASE k # MAXFILE
          <6>1. k < MAXFILE /\ Owned(i, k)' = Owned(i, k)
            BY <1>2, <1>6, <1>11, <4>1, <5>2
          <6> QED BY <3>1, <3>3, <5>2, <6>1
        <5> QED BY <5>1, <5>2
      <4>3. Half(i)'
        BY <4>2 DEF Half
      <4> QED BY <3>3, <4>3
    <3>4. CASE m # NDIRECT
      <4>1. j = m
        BY <1>2, <1>5, <1>7, <3>2, <3>4
      <4>2. ASSUME NEW k \in Positions
            PROVE  Owned(i, k)' # 0 <=> IF k < MAXFILE THEN k < m + 1 ELSE m + 1 > NDIRECT
        BY <1>2, <1>5, <1>6, <1>7, <1>8, <1>11, <3>1, <3>4, <4>1
      <4>3. Exact(i, m + 1)'
        BY <4>2 DEF Exact
      <4> QED BY <4>3
    <3> QED BY <3>3, <3>4
  <2>2. CASE m = NDIRECT /\ Half(i)
    <3>1. \A k \in Positions : Owned(i, k) # 0 <=> k < NDIRECT \/ k = MAXFILE
      BY <2>2 DEF Half
    <3>2. j = m
      BY <1>7, <1>10, <3>1
    <3>3. ASSUME NEW k \in Positions
          PROVE  Owned(i, k)' # 0 <=> IF k < MAXFILE THEN k < m + 1 ELSE m + 1 > NDIRECT
      BY <1>2, <1>5, <1>6, <1>7, <1>8, <1>11, <2>2, <3>1, <3>2
    <3>4. Exact(i, m + 1)'
      BY <3>3 DEF Exact
    <3> QED BY <3>4
  <2> QED BY <1>9, <2>1, <2>2
<1>13. /\ m < end'[p] /\ end'[p] <= MAXFILE /\ m <= end'[p]
  BY <1>2, <1>3, <1>5
<1> QED BY <1>3, <1>4, <1>5, <1>9, <1>12, <1>13, WriteNext DEF Changing

(* How far a call has got in its file. *)
LEMMA OwnWrite ==
  ASSUME NEW p \in Procs, BlocksDo(p)
  PROVE  WriteFits(p)'
<1>1. CASE pc'[p] \in {"bmap", "bzero"}
  <2>1. (pc[p] = "rw_locked" /\ pc'[p] = "bmap") \/ pc[p] = "bmap" \/ pc[p] = "bzero"
    BY <1>1, BlocksKnown, ChangingPlaces DEF Changing
  <2> QED BY <1>1, <2>1, WriteBegins, WriteTurns, WriteStores
<1>2. CASE pc'[p] \notin {"bmap", "bzero"}
  <2>1. BlockStep(p) /\ WriteFits(p)
    BY DEF BlocksDo, BlocksInv
  <2>2. Where(p)' = "rw_locked" => pc[p] \notin Changing /\ pc'[p] \notin Changing
    BY <1>2, BlocksKnown, ChangingPlaces DEF Changing
  <2>3. Where(p)' = "rw_locked" => off'[p] <= end'[p]
    BY <2>1, <2>2 DEF BlockStep, WriteFits, Changing
  <2> QED BY <1>2, <2>3 DEF WriteFits
<1> QED BY <1>1, <1>2

(* What itrunc has left of the inode another call truncates. *)
LEMMA OthersTrunc ==
  ASSUME NEW p \in Procs, BlocksDo(p), NEW q \in Procs, q # p
  PROVE  TruncFits(q)' /\ FreeFits(q)'
<1>1. TruncFits(q) /\ FreeFits(q) /\ pc'[q] = pc[q] /\ off'[q] = off[q]
  BY BlocksKnown DEF BlocksDo, BlocksInv, Only, DataFrame
<1>2. ASSUME pc[q] = "itrunc"
      PROVE  TruncFits(q)'
  <2>1. PICK i : i = Ino(q, "put") /\ Alters(q, i)
    BY <1>2, AlteredIs DEF Reg, Changing
  <2>2. Rec(i)'.addrs = Rec(i).addrs /\ Ino(q, "put")' = i
    BY <1>1, <1>2, <2>1, OthersGoOnAltering DEF Same, Reg
  <2> QED BY <1>1, <1>2, <2>1, <2>2 DEF TruncFits
<1>3. ASSUME pc[q] = "iput_free"
      PROVE  FreeFits(q)'
  <2>1. Holds(q, "put") /\ "put" \in Regs
    BY <1>3, RegsAre DEF Holds, Frees
  <2>2. At(q, "put") \in Slots /\ At(q, "put") # 0
    BY <2>1, BlocksKnown DEF LockInv, HoldsFit, Slots
  <2>3. PICK i \in Inodes : i = Ino(q, "put")
    <3>1. inum \in [Slots -> Inodes]
      BY BlocksKnown DEF DataTypes
    <3> QED BY <2>2, <3>1 DEF Ino
  <2>4. ~Alters(p, i)
    BY <2>1, <2>2, <2>3, AlterAlone, BlocksKnown DEF Points
  <2>5. Rec(i).size = 0
    BY <1>1, <1>3, <2>3 DEF FreeFits
  <2>6. Rec(i)'.size = 0
    BY <2>4, <2>5, SizeStep
  <2>7. Ino(q, "put")' = i
    <3>1. At(q, "put")' = At(q, "put")
      BY <2>1, BlocksKnown DEF Only
    <3>2. inum'[At(q, "put")] = inum[At(q, "put")]
      BY <2>1, <2>2, PointersStay, BlocksKnown
    <3> QED BY <2>3, <3>1, <3>2 DEF Ino
  <2> QED BY <2>6, <2>7 DEF FreeFits
<1> QED BY <1>1, <1>2, <1>3 DEF TruncFits, FreeFits

(* iput frees an inode that itrunc has truncated. *)
LEMMA FreesTruncated ==
  ASSUME NEW p \in Procs, CacheDoes(p), pc'[p] = "iput_free"
  PROVE  pc[p] = "itrunc"
<1>1. StepOf(p) /\ OpsFit(p) /\ PlacesFit(p) /\ WhichFits(p) /\ ~Stops
  BY DEF CacheDoes, Does, Steps, RefInv, LockInv
<1>2. ret[p] # "iput_free"
  BY <1>1 DEF OpsFit, Inner, Putting
<1> QED BY <1>1, <1>2 DEF StepOf, InnerStep, FileStep, PathStep, DirectoryStep, InodeStep, CallStep,
      ReturnStep, Go, GoILock, GoIPut, GivesPut

(* How far itrunc has got. *)
LEMMA OwnTrunc ==
  ASSUME NEW p \in Procs, BlocksDo(p)
  PROVE  TruncFits(p)' /\ FreeFits(p)'
<1>1. TruncFits(p) /\ CacheDoes(p) /\ NDIRECT \in Nat /\ MAXFILE \in Nat /\ NDIRECT < MAXFILE
  BY BlocksKnown, Sizes DEF BlocksDo, BlocksInv, MAXFILE
<1>2. ASSUME pc'[p] = "iput_free"
      PROVE  FreeFits(p)'
  <2>1. pc[p] = "itrunc"
    BY <1>1, <1>2, FreesTruncated
  <2>2. PICK i \in Inodes : i = Ino(p, "put") /\ Alters(p, i)
    BY <2>1, AlteredIs DEF Reg, Changing
  <2>3. Rec(i)'.size = 0
    BY <1>2, <2>1, <2>2, RecFrees
  <2>4. Ino(p, "put")' = i
    BY <2>1, <2>2, RecGoesOn DEF Ino, Reg
  <2> QED BY <2>3, <2>4 DEF FreeFits
<1>3. ASSUME pc'[p] = "itrunc", pc[p] = "itrunc"
      PROVE  TruncFits(p)'
  <2>1. PICK i \in Inodes : i = Ino(p, "put") /\ Alters(p, i)
    BY <1>3, AlteredIs DEF Reg, Changing
  <2>2. /\ off[p] \in Positions /\ off'[p] = off[p] + 1
        /\ \A k \in 0 .. NDIRECT : Rec(i)'.addrs[k] =
              IF (off[p] < NDIRECT /\ k = off[p]) \/ (off[p] = MAXFILE /\ k = NDIRECT) THEN 0
              ELSE Rec(i).addrs[k]
    BY <1>3, <2>1, RecTurns
  <2>3. Ino(p, "put")' = i
    BY <1>3, <2>1, RecGoesOn DEF Ino, Reg
  <2>4. \A k \in 0 .. NDIRECT - 1 : k < off[p] => Rec(i).addrs[k] = 0
    BY <1>1, <1>3, <2>1 DEF TruncFits
  <2>5. off'[p] <= MAXFILE + 1
    BY <1>1, <2>2 DEF Positions
  <2>6. ASSUME NEW k \in 0 .. NDIRECT - 1, k < off'[p] PROVE Rec(i)'.addrs[k] = 0
    <3>1. k \in 0 .. NDIRECT /\ (k < off[p] \/ k = off[p]) /\ k < NDIRECT
      BY <1>1, <2>2, <2>6 DEF Positions
    <3> QED BY <2>2, <2>4, <2>6, <3>1
  <2>7. off'[p] = MAXFILE + 1 => Rec(i)'.addrs[NDIRECT] = 0
    <3>1. off'[p] = MAXFILE + 1 => off[p] = MAXFILE
      BY <1>1, <2>2 DEF Positions
    <3>2. NDIRECT \in 0 .. NDIRECT
      BY <1>1
    <3> QED BY <2>2, <3>1, <3>2
  <2> QED BY <2>3, <2>5, <2>6, <2>7 DEF TruncFits
<1>4. ASSUME pc'[p] = "itrunc", pc[p] # "itrunc"
      PROVE  TruncFits(p)'
  <2>1. pc[p] = "iput"
    BY <1>1, <1>4, ChangingPlaces DEF Changing
  <2>2. off'[p] = 0
    BY <1>4, <2>1 DEF BlocksDo, BlockStep, Changing
  <2>3. 0 <= MAXFILE + 1 /\ 0 # MAXFILE + 1 /\ \A k \in 0 .. NDIRECT - 1 : ~(k < 0)
    BY <1>1
  <2> QED BY <2>2, <2>3 DEF TruncFits
<1> QED BY <1>2, <1>3, <1>4 DEF TruncFits, FreeFits

(* A step of a process keeps all of it. *)
LEMMA StepBlocks ==
  ASSUME NEW p \in Procs, BlocksDo(p)
  PROVE  BlocksInv'
<1>1. Distinct' /\ UsedAre' /\ SizesFit'
  BY DistinctKept, UsedKept, SizesKept
<1>2. \A i \in Inodes : ShapeFits(i)'
  BY ShapeKept
<1>3. \A q \in Procs : NewFits(q)'
  BY NewKept
<1>4. \A q \in Procs : WriteFits(q)' /\ TruncFits(q)' /\ FreeFits(q)'
  BY OwnWrite, OthersWrite, OwnTrunc, OthersTrunc
<1> QED BY <1>1, <1>2, <1>3, <1>4 DEF BlocksInv

------------------------------------------------------------------------------
(* The other steps, and the theorem.                                       *)

(* Nothing but pointers that no call in those loops uses is changed.       *)
LEMMA SameBlocks ==
  ASSUME RecsFit, RecsFit', BlocksInv, UNCHANGED <<dinode, used, content, pc, ret, off, end, blk>>,
         \A u \in Procs : pc[u] \in Changing \cup {"iput_free"} =>
           /\ At(u, "fd")' = At(u, "fd") /\ At(u, "put")' = At(u, "put")
           /\ inum' = inum /\ copy' = copy
  PROVE  BlocksInv'
<1>1. \A i : \A u \in Procs : (Alters(u, i)' <=> Alters(u, i)) /\ (Alters(u, i) => Reg(u)' = Reg(u))
  BY DEF Alters, Reg, Points, Ino, Changing
<1>2. \A i : Rec(i)' = Rec(i) /\ \A k : Cut(i, k)' <=> Cut(i, k)
  <2> SUFFICES ASSUME NEW i PROVE Rec(i)' = Rec(i) /\ \A k : Cut(i, k)' <=> Cut(i, k)
    OBVIOUS
  <2>1. ASSUME NEW u \in Procs, Alters(u, i)
        PROVE  Rec(i)' = Rec(i) /\ \A k : Cut(i, k)' <=> Cut(i, k)
    <3>1. At(u, Reg(u))' = At(u, Reg(u)) /\ copy' = copy /\ Alters(u, i)'
      BY <1>1, <2>1 DEF Alters, Reg
    <3>2. Rec(i) = copy[At(u, Reg(u))] /\ \A k : Cut(i, k) <=> pc[u] = "itrunc" /\ k < off[u]
      BY <2>1 DEF RecsFit
    <3>3. Rec(i)' = copy'[At(u, Reg(u))'] /\ \A k : Cut(i, k)' <=> pc'[u] = "itrunc" /\ k < off'[u]
      BY <3>1 DEF RecsFit
    <3> QED BY <3>1, <3>2, <3>3
  <2>2. ASSUME \A u \in Procs : ~Alters(u, i)
        PROVE  Rec(i)' = Rec(i) /\ \A k : Cut(i, k)' <=> Cut(i, k)
    <3>1. Rec(i) = dinode[i] /\ \A k : ~Cut(i, k)
      BY <2>2 DEF RecsFit
    <3>2. Rec(i)' = dinode'[i] /\ \A k : ~Cut(i, k)'
      BY <1>1, <2>2 DEF RecsFit
    <3> QED BY <3>1, <3>2
  <2> QED BY <2>1, <2>2
<1>3. \A i, k : Owned(i, k)' = Owned(i, k)
  BY <1>2 DEF Owned, BlockAt
<1>4. Distinct' /\ UsedAre' /\ SizesFit'
  <2>1. \A q \in Procs : New(q)' <=> New(q)
    BY DEF New
  <2> QED BY <1>2, <1>3, <2>1 DEF BlocksInv, Distinct, UsedAre, SizesFit
<1>5. ASSUME NEW i \in Inodes PROVE ShapeFits(i)'
  BY <1>1, <1>2, <1>3 DEF BlocksInv, ShapeFits, Exact
<1>6. ASSUME NEW q \in Procs PROVE NewFits(q)'
  BY <1>3 DEF BlocksInv, NewFits, New
<1>7. ASSUME NEW q \in Procs PROVE WriteFits(q)'
  <2>1. WriteFits(q) /\ (Where(q)' = Where(q))
    BY DEF BlocksInv, Where
  <2>2. CASE pc[q] \in {"bmap", "bzero"}
    <3>1. PICK i : i = Ino(q, "fd") /\ Ino(q, "fd")' = i
      BY <2>2 DEF Ino, Changing
    <3>2. Upto(q)' = Upto(q)
      BY <1>2, <3>1 DEF Upto
    <3>3. Exact(i, Upto(q))' <=> Exact(i, Upto(q))
      BY <1>3, <3>2 DEF Exact
    <3>4. Exact(i, off[q] + 1)' <=> Exact(i, off[q] + 1)
      BY <1>3 DEF Exact
    <3>5. (Half(i)' <=> Half(i)) /\ Rec(i)' = Rec(i) /\ Owned(i, off[q])' = Owned(i, off[q])
      BY <1>2, <1>3 DEF Half
    <3> QED BY <2>1, <3>1, <3>2, <3>3, <3>4, <3>5 DEF WriteFits
  <2>3. CASE pc[q] \notin {"bmap", "bzero"}
    BY <2>1, <2>3 DEF WriteFits
  <2> QED BY <2>2, <2>3
<1>8. ASSUME NEW q \in Procs PROVE TruncFits(q)' /\ FreeFits(q)'
  <2>1. TruncFits(q) /\ FreeFits(q)
    BY DEF BlocksInv
  <2>2. CASE pc[q] \in {"itrunc", "iput_free"}
    <3>1. PICK i : i = Ino(q, "put") /\ Ino(q, "put")' = i
      BY <2>2 DEF Ino, Changing
    <3>2. Rec(i)' = Rec(i)
      BY <1>2
    <3> QED BY <2>1, <3>1, <3>2 DEF TruncFits, FreeFits
  <2>3. CASE pc[q] \notin {"itrunc", "iput_free"}
    BY <2>1, <2>3 DEF TruncFits, FreeFits
  <2> QED BY <2>2, <2>3
<1> QED BY <1>4, <1>5, <1>6, <1>7, <1>8 DEF BlocksInv

(* At first no block is used, and no inode has one. *)
LEMMA InitBlocks == Init => BlocksInv
<1> SUFFICES ASSUME Init PROVE BlocksInv
  OBVIOUS
<1>1. /\ \A p \in Procs : pc[p] = "user"
      /\ \A p \in Procs : ret[p] = "user"
      /\ used = {1}
  BY Zenon DEF Init
<1>2. \A i \in Inodes :
        IF i = ROOTINO
        THEN /\ dinode[i].size = 1 /\ dinode[i].type # Free
             /\ \A k \in 0 .. NDIRECT : dinode[i].addrs[k] = IF k = 0 THEN 1 ELSE 0
        ELSE dinode[i].size = 0 /\ \A k \in 0 .. NDIRECT : dinode[i].addrs[k] = 0
  <2> DEFINE d == RootDinode
             z == ZeroInode(Free)
  <2>1. dinode = [i \in Inodes |-> IF i = ROOTINO THEN d ELSE z]
    BY Zenon DEF Init
  <2>2. z.size = 0 /\ \A k \in 0 .. NDIRECT : z.addrs[k] = 0
    BY ZeroFields
  <2>3. d.size = 1 /\ d.type # Free /\ \A k \in 0 .. NDIRECT : d.addrs[k] = IF k = 0 THEN 1 ELSE 0
    BY RootFields DEF Free
  <2> HIDE DEF d, z
  <2> QED BY <2>1, <2>2, <2>3
<1>3. RecsFit
  BY RecsAre, InitRefInv, InitLockInv
<1>4. \A i : \A p \in Procs : ~Alters(p, i)
  BY <1>1 DEF Alters, Changing
<1>5. \A i : Rec(i) = dinode[i] /\ \A k : ~Cut(i, k)
  BY <1>3, <1>4 DEF RecsFit
<1>6. NDIRECT \in Nat \ {0} /\ MAXFILE \in Nat /\ NDIRECT < MAXFILE /\ 1 \in Blocks
  BY Sizes DEF MAXFILE, Blocks
<1>7. \A i \in Inodes, k \in Positions : Owned(i, k) = IF i = ROOTINO /\ k = 0 THEN 1 ELSE 0
  BY <1>2, <1>5, <1>6 DEF Owned, BlockAt, Positions
<1>8. \A b \in Blocks : b # 0
  BY DEF Blocks
<1>9. (\A p \in Procs : ~New(p)) /\ ROOTINO \in Inodes /\ 0 \in Positions
  BY <1>1, <1>6, Sizes DEF New, Inodes, Positions
<1>10. Distinct /\ UsedAre
  <2>1. Distinct
    BY <1>7 DEF Distinct
  <2>2. \A b \in Blocks : b \in used <=> \E i \in Inodes : \E k \in Positions : Owned(i, k) = b
    BY <1>1, <1>7, <1>8, <1>9
  <2> QED BY <1>1, <1>6, <1>9, <2>1, <2>2 DEF UsedAre
<1>11. SizesFit
  BY <1>2, <1>5, <1>6 DEF SizesFit
<1>12. ASSUME NEW i \in Inodes PROVE ShapeFits(i)
  <2> DEFINE n == Rec(i).size
  <2>1. n = IF i = ROOTINO THEN 1 ELSE 0
    BY <1>2, <1>5
  <2> HIDE DEF n
  <2>2. Exact(i, n)
    BY <1>6, <1>7, <2>1 DEF Exact, Positions
  <2> QED BY <2>2 DEF ShapeFits, n
<1>13. ASSUME NEW p \in Procs PROVE NewFits(p) /\ WriteFits(p) /\ TruncFits(p) /\ FreeFits(p)
  BY <1>1, <1>9 DEF NewFits, WriteFits, TruncFits, FreeFits, Where, Inner, Putting
<1> QED BY <1>10, <1>11, <1>12, <1>13 DEF BlocksInv

(* The directory that grows is what the disk says before and after, and    *)
(* nobody alters it.                                                       *)
LEMMA GrowRecs ==
  ASSUME RefInv, LockInv, RootInv, CacheInv, RecsFit, RecsFit', NEW p \in Procs, GrowStep(p),
         NEW d \in Fields, IUpdate(At(p, "dp"), d)
  PROVE  /\ \A i : \A q \in Procs : (Alters(q, i)' <=> Alters(q, i)) /\ ~Alters(q, ROOTINO)
         /\ \A i \in Inodes : Rec(i)' = IF i = ROOTINO THEN d ELSE Rec(i)
         /\ \A i, k : Cut(i, k)' <=> Cut(i, k)
         /\ Rec(ROOTINO) = copy[At(p, "dp")] /\ \A k : ~Cut(ROOTINO, k)
         /\ \A i \in Inodes \ {ROOTINO} : dinode'[i] = dinode[i]
<1> DEFINE s == At(p, "dp")
<1>1. /\ s \in Slots /\ pc[p] = "dirlink" /\ UNCHANGED <<inum, pc, off>>
      /\ \A u \in Procs, x \in Regs : At(u, x)' = At(u, x)
  BY DEF GrowStep, At, place, loop
<1>2. inum[s] = ROOTINO /\ Holds(p, "dp") /\ Used(s) /\ Points(p, "dp", ROOTINO)
  <2>1. inum[s] = ROOTINO /\ Holds(p, "dp") /\ Used(s)
    BY GrowKnown
  <2> QED BY <1>1, <2>1 DEF Points, Ino, Slots
<1>3. \A i : \A q \in Procs : (Alters(q, i)' <=> Alters(q, i)) /\ Reg(q)' = Reg(q) /\ Reg(q) \in Regs
  BY <1>1, RegsAre DEF Alters, Reg, Points, Ino
<1>4. \A q \in Procs : ~Alters(q, ROOTINO)
  <2> SUFFICES ASSUME NEW q \in Procs, Alters(q, ROOTINO) PROVE FALSE
    OBVIOUS
  <2>1. p = q
    BY <1>2, AlterAlone, RegsAre
  <2> QED BY <1>1, <2>1 DEF Alters, Changing
<1>5. /\ dinode'[ROOTINO] = d /\ \A t \in Slots \ {s} : copy'[t] = copy[t]
      /\ \A i \in Inodes \ {ROOTINO} : dinode'[i] = dinode[i]
  BY <1>1, <1>2, Sizes DEF IUpdate, RootInv, DataTypes, Inodes
<1>6. dinode[ROOTINO] = copy[s]
  <2>1. \A q \in Procs : (pc[q] \in Copies => At(q, "fd") # s) /\ (pc[q] \in Frees => At(q, "put") # s)
    BY GrowAlone
  <2>2. ~Truncates(s) /\ ~Invalidates(s) /\ ~Extends(s)
    BY <2>1 DEF Truncates, Invalidates, Extends, Copies, Frees
  <2> QED BY <1>1, <1>2, <2>2 DEF CacheInv, CopyFits, Clean
<1>7. Rec(ROOTINO) = copy[s] /\ Rec(ROOTINO)' = d /\ \A k : ~Cut(ROOTINO, k) /\ ~Cut(ROOTINO, k)'
  BY <1>3, <1>4, <1>5, <1>6 DEF RecsFit
<1>8. ASSUME NEW i \in Inodes \ {ROOTINO} PROVE Rec(i)' = Rec(i)
  <2>1. ASSUME NEW u \in Procs, Alters(u, i) PROVE Rec(i)' = Rec(i)
    <3>1. At(u, Reg(u)) # s /\ At(u, Reg(u)) \in Slots
      BY <1>2, <1>3, <1>8, <2>1, PointerTypes DEF Alters, Points, Ino
    <3>2. Rec(i)' = copy'[At(u, Reg(u))] /\ Rec(i) = copy[At(u, Reg(u))]
      BY <1>1, <1>3, <2>1 DEF RecsFit
    <3> QED BY <1>5, <3>1, <3>2
  <2>2. ASSUME \A u \in Procs : ~Alters(u, i) PROVE Rec(i)' = Rec(i)
    BY <1>3, <1>5, <1>8, <2>2 DEF RecsFit
  <2> QED BY <2>1, <2>2
<1>9. \A i, k : Cut(i, k)' <=> Cut(i, k)
  BY <1>1, <1>3 DEF Cut
<1> QED BY <1>3, <1>4, <1>5, <1>7, <1>8, <1>9

(* Its new block, and the indirect block when that is new, are all that    *)
(* changes its owner.                                                      *)
LEMMA GrowOwned ==
  ASSUME RefInv, LockInv, RootInv, CacheInv, BlocksInv, RecsFit, RecsFit', NEW p \in Procs, GrowStep(p),
         NEW b \in Blocks, NEW a \in 0 .. NBLOCK, Grows(p, b, a), NEW d \in Fields, IUpdate(At(p, "dp"), d),
         LET c == copy[At(p, "dp")] IN
           d.addrs = IF c.size >= NDIRECT THEN [c.addrs EXCEPT ![NDIRECT] = a] ELSE [c.addrs EXCEPT ![c.size] = b]
  PROVE  LET n == copy[At(p, "dp")].size
             new == n >= NDIRECT /\ Owned(ROOTINO, MAXFILE) = 0 IN
         /\ n \in Nat /\ n < MAXFILE /\ b \in Unused /\ a # b /\ (new => a \in Unused) /\ (n >= NDIRECT => a # 0)
         /\ used' = used \cup {b} \cup (IF new THEN {a} ELSE {})
         /\ \A i \in Inodes, k \in Positions :
              Owned(i, k)' = IF i = ROOTINO /\ k = n THEN b
                             ELSE IF i = ROOTINO /\ new /\ k = MAXFILE THEN a ELSE Owned(i, k)
<1> DEFINE c == copy[At(p, "dp")]  n == c.size  ind == c.addrs[NDIRECT]
           new == n >= NDIRECT /\ ind = 0
<1>1. /\ \A i \in Inodes : Rec(i)' = IF i = ROOTINO THEN d ELSE Rec(i)
      /\ \A i, k : Cut(i, k)' <=> Cut(i, k)
      /\ Rec(ROOTINO) = c /\ \A k : ~Cut(ROOTINO, k)
  BY GrowRecs
<1>2. /\ b \in Unused /\ a # b /\ n < MAXFILE /\ IF new THEN a \in Unused ELSE n >= NDIRECT => a = ind
      /\ used' = used \cup {b} \cup (IF new THEN {a} ELSE {})
      /\ content' = [x \in Blocks |->
           IF x = b THEN ZeroBlock
           ELSE IF n >= NDIRECT /\ x = a THEN [(IF new THEN ZeroBlock ELSE content[a]) EXCEPT ![n - NDIRECT] = b]
           ELSE content[x]]
  BY DEF Grows
<1>3. ROOTINO \in Inodes /\ DataTypes /\ MAXFILE \in Positions /\ MAXFILE = NDIRECT + NINDIRECT
  BY Sizes DEF Inodes, RootInv, Positions, MAXFILE
<1>4. c \in Fields /\ n \in Nat /\ c.addrs \in [0 .. NDIRECT -> 0 .. NBLOCK] /\ ind \in 0 .. NBLOCK
  <2>1. c \in Fields
    BY <1>1, <1>3, RecTypes
  <2> QED BY <2>1, Sizes DEF Fields
<1>5. Owned(ROOTINO, MAXFILE) = ind
  BY <1>1, <1>3, IndirectOwned
<1>6. (n >= NDIRECT => a # 0) /\ b # 0 /\ (n >= NDIRECT => a \in Blocks)
  BY <1>2, <1>4, Sizes DEF Unused, Blocks
<1>7. \A i \in Inodes, k \in Positions : Owned(i, k) # 0 => Owned(i, k) \in used
  <2> SUFFICES ASSUME NEW i \in Inodes, NEW k \in Positions, Owned(i, k) # 0 PROVE Owned(i, k) \in used
    OBVIOUS
  <2>1. Owned(i, k) \in 0 .. NBLOCK
    BY <1>3, RecTypes
  <2>2. Owned(i, k) \in Blocks
    BY <2>1, Sizes DEF Blocks
  <2> QED BY <2>2 DEF BlocksInv, UsedAre
<1>8. ASSUME NEW i \in Inodes \ {ROOTINO}, NEW k \in Positions PROVE Owned(i, k)' = Owned(i, k)
  <2>1. Rec(i)' = Rec(i)
    BY <1>1
  <2> DEFINE x == Rec(i).addrs[NDIRECT]
  <2>2. CASE Cut(i, k)
    BY <1>1, <2>2 DEF Owned
  <2>3. CASE ~Cut(i, k)
    <3>1. Owned(i, MAXFILE) = x
      BY <1>3, <2>3, IndirectOwned
    <3>2. x # 0 => content'[x] = content[x]
      <4> SUFFICES ASSUME x # 0 PROVE content'[x] = content[x]
        OBVIOUS
      <4>1. x \in used /\ x \in Blocks
        BY <1>3, <1>7, <3>1 DEF BlocksInv, UsedAre
      <4>2. n >= NDIRECT => x # a
        <5>1. CASE new
          BY <1>2, <4>1, <5>1 DEF Unused
        <5>2. CASE n >= NDIRECT /\ ~new
          BY <1>2, <1>3, <1>5, <1>8, <3>1, <5>2 DEF BlocksInv, Distinct
        <5> QED BY <5>1, <5>2
      <4>3. x # b
        BY <1>2, <4>1 DEF Unused
      <4> HIDE DEF x, new, n
      <4> QED BY <1>2, <4>1, <4>2, <4>3
    <3> QED BY <1>1, <2>1, <2>3, <3>2 DEF Owned, BlockAt
  <2> QED BY <2>2, <2>3
<1>9. ASSUME NEW k \in Positions
      PROVE  Owned(ROOTINO, k)' = IF k = n THEN b ELSE IF new /\ k = MAXFILE THEN a ELSE Owned(ROOTINO, k)
  <2>1. Rec(ROOTINO)' = d /\ ~Cut(ROOTINO, k)' /\ ~Cut(ROOTINO, k)
    BY <1>1, <1>3
  <2>2. Owned(ROOTINO, k)' = BlockAt(content', d.addrs, k) /\ Owned(ROOTINO, k) = BlockAt(content, c.addrs, k)
    BY <1>1, <2>1 DEF Owned
  <2>3. k \in 0 .. MAXFILE
    BY DEF Positions
  <2> HIDE DEF c, n, ind
  <2>4. CASE n < NDIRECT
    <3>1. d.addrs = [c.addrs EXCEPT ![n] = b]
      BY <1>4, <2>4, Sizes DEF c, n
    <3>2. ind = 0
      <4>1. Exact(ROOTINO, n)
        BY <1>1, <1>3, GrowRecs DEF BlocksInv, ShapeFits, n
      <4> QED BY <1>3, <1>4, <1>5, <2>4, <4>1, Sizes DEF Exact
    <3>3. d.addrs[NDIRECT] = 0 /\ \A j \in 0 .. NDIRECT - 1 : d.addrs[j] = IF j = n THEN b ELSE c.addrs[j]
      <4>1. \A j \in 0 .. NDIRECT : d.addrs[j] = IF j = n THEN b ELSE c.addrs[j]
        BY <1>4, <3>1, Zenon
      <4>2. NDIRECT \in 0 .. NDIRECT /\ NDIRECT # n
        BY <1>4, <2>4, Sizes
      <4>3. \A j \in 0 .. NDIRECT - 1 : j \in 0 .. NDIRECT
        BY Sizes
      <4>4. d.addrs[NDIRECT] = 0
        BY <3>2, <4>1, <4>2 DEF ind
      <4> QED BY <4>1, <4>3, <4>4
    <3> QED BY <1>2, <1>4, <2>2, <2>3, <2>4, <3>2, <3>3, Sizes DEF BlockAt, ind
  <2>5. CASE n >= NDIRECT
    <3>1. d.addrs = [c.addrs EXCEPT ![NDIRECT] = a]
      BY <2>5 DEF c, n
    <3>2. d.addrs[NDIRECT] = a /\ \A j \in 0 .. NDIRECT - 1 : d.addrs[j] = c.addrs[j]
      <4>1. \A j \in 0 .. NDIRECT : d.addrs[j] = IF j = NDIRECT THEN a ELSE c.addrs[j]
        BY <1>4, <3>1, Zenon
      <4>2. NDIRECT \in 0 .. NDIRECT /\ \A j \in 0 .. NDIRECT - 1 : j \in 0 .. NDIRECT /\ j # NDIRECT
        BY Sizes
      <4> QED BY <4>1, <4>2
    <3>3. a # 0 /\ a \in Blocks
      BY <1>6, <2>5
    <3> DEFINE old == IF new THEN ZeroBlock ELSE content[a]
    <3>4. old \in [0 .. NINDIRECT - 1 -> 0 .. NBLOCK]
      BY <1>3, <3>3, Sizes DEF DataTypes, ZeroBlock
    <3>5. content'[a] = [old EXCEPT ![n - NDIRECT] = b]
      BY <1>2, <2>5, <3>3
    <3> HIDE DEF old
    <3>6. \A j \in 0 .. NINDIRECT - 1 : content'[a][j] = IF j = n - NDIRECT THEN b ELSE old[j]
      BY <3>4, <3>5
    <3>7. \A j \in 0 .. NINDIRECT - 1 : old[j] = IF new THEN 0 ELSE content[a][j]
      BY DEF old, ZeroBlock
    <3>8. CASE k < NDIRECT
      BY <1>3, <1>4, <2>2, <2>3, <2>5, <3>2, <3>8, Sizes DEF BlockAt
    <3>9. CASE k = MAXFILE
      BY <1>2, <1>3, <1>4, <2>2, <2>5, <3>2, <3>9, Sizes DEF BlockAt, ind
    <3>10. CASE ~(k < NDIRECT) /\ k # MAXFILE
      <4>1. k - NDIRECT \in 0 .. NINDIRECT - 1 /\ (k - NDIRECT = n - NDIRECT <=> k = n)
        BY <1>3, <1>4, <2>3, <3>10, Sizes
      <4>2. Owned(ROOTINO, k)' = IF k = n THEN b ELSE IF new THEN 0 ELSE content[a][k - NDIRECT]
        BY <2>2, <3>2, <3>3, <3>6, <3>7, <3>10, <4>1 DEF BlockAt
      <4>3. Owned(ROOTINO, k) = IF ind = 0 THEN 0 ELSE content[ind][k - NDIRECT]
        BY <2>2, <3>10 DEF BlockAt, ind
      <4> QED BY <1>2, <2>5, <3>10, <4>2, <4>3
    <3> QED BY <3>8, <3>9, <3>10
  <2> QED BY <1>4, <2>4, <2>5, Sizes
<1> HIDE DEF c, ind
<1>10. \A i \in Inodes, k \in Positions :
         Owned(i, k)' = IF i = ROOTINO /\ k = n THEN b
                        ELSE IF i = ROOTINO /\ new /\ k = MAXFILE THEN a ELSE Owned(i, k)
  BY <1>8, <1>9
<1> QED BY <1>2, <1>4, <1>5, <1>6, <1>10 DEF c

(* Blocks are owned by one inode each when the directory has grown. *)
LEMMA GrowBlocks ==
  ASSUME RefInv, LockInv, RootInv, CacheInv, BlocksInv, RecsFit, RecsFit', NEW p \in Procs, panic = "none",
         DirGrow(p), panic' = "none"
  PROVE  BlocksInv'
<1> DEFINE n == copy[At(p, "dp")].size
           new == n >= NDIRECT /\ Owned(ROOTINO, MAXFILE) = 0
<1>1. GrowStep(p) /\ DataTypes
  BY GrowSteps DEF RootInv
<1>2. PICK b \in Blocks : \E a \in 0 .. NBLOCK : Grows(p, b, a)
  BY <1>1 DEF GrowStep
<1>3. PICK a \in 0 .. NBLOCK : Grows(p, b, a)
  BY <1>2
<1>4. PICK d \in Fields : LET c == copy[At(p, "dp")] IN
        /\ d.type = c.type /\ d.size = n + 1 /\ IUpdate(At(p, "dp"), d)
        /\ d.addrs = IF c.size >= NDIRECT THEN [c.addrs EXCEPT ![NDIRECT] = a] ELSE [c.addrs EXCEPT ![c.size] = b]
  BY <1>3 DEF Grows
<1>5. /\ \A i : \A q \in Procs : (Alters(q, i)' <=> Alters(q, i)) /\ ~Alters(q, ROOTINO)
      /\ \A i \in Inodes : Rec(i)' = IF i = ROOTINO THEN d ELSE Rec(i)
      /\ Rec(ROOTINO) = copy[At(p, "dp")] /\ \A i \in Inodes \ {ROOTINO} : dinode'[i] = dinode[i]
  BY <1>1, <1>4, GrowRecs
<1>6. /\ n \in Nat /\ n < MAXFILE /\ b \in Unused /\ a # b /\ (new => a \in Unused) /\ (n >= NDIRECT => a # 0)
      /\ used' = used \cup {b} \cup (IF new THEN {a} ELSE {})
      /\ \A i \in Inodes, k \in Positions :
           Owned(i, k)' = IF i = ROOTINO /\ k = n THEN b
                          ELSE IF i = ROOTINO /\ new /\ k = MAXFILE THEN a ELSE Owned(i, k)
  BY <1>1, <1>3, <1>4, GrowOwned
<1>7. /\ \A u \in Procs, x \in Regs : At(u, x)' = At(u, x)
      /\ pc' = pc /\ ret' = ret /\ off' = off /\ end' = end /\ blk' = blk /\ inum' = inum
  BY <1>1 DEF GrowStep, At, place, loop
<1>8. ROOTINO \in Inodes /\ n \in Positions /\ MAXFILE \in Positions /\ n # MAXFILE /\ b # 0 /\ (new => a # 0)
  BY <1>6, Sizes DEF Inodes, Positions, MAXFILE, Blocks
<1>9. Exact(ROOTINO, n) /\ Owned(ROOTINO, n) = 0
  <2>1. Exact(ROOTINO, n)
    BY <1>5, <1>8 DEF BlocksInv, ShapeFits
  <2> QED BY <1>6, <1>8, <2>1 DEF Exact
<1>10. \A i \in Inodes, k \in Positions : Owned(i, k) # 0 => Owned(i, k) \in used
  <2> SUFFICES ASSUME NEW i \in Inodes, NEW k \in Positions, Owned(i, k) # 0 PROVE Owned(i, k) \in used
    OBVIOUS
  <2>1. RecsFit /\ Owned(i, k) \in Blocks
    BY <1>1, RecTypes, Sizes DEF Blocks
  <2> QED BY <2>1 DEF BlocksInv, UsedAre
<1>11. b \notin used /\ (new => a \notin used /\ a \in Blocks)
  BY <1>6 DEF Unused
<1> HIDE DEF n, new
<1>12. Distinct'
  <2> SUFFICES ASSUME NEW i \in Inodes, NEW j \in Inodes, NEW k \in Positions, NEW l \in Positions,
                      Owned(i, k)' # 0, Owned(i, k)' = Owned(j, l)'
               PROVE  i = j /\ k = l
    BY DEF Distinct
  <2>1. Owned(i, k) # 0 /\ Owned(i, k) = Owned(j, l) => i = j /\ k = l
    BY DEF BlocksInv, Distinct
  <2>2. (Owned(i, k) # 0 => Owned(i, k) \in used) /\ (Owned(j, l) # 0 => Owned(j, l) \in used)
    BY <1>10
  <2> QED BY <1>6, <1>8, <1>11, <2>1, <2>2
<1>13. UsedAre'
  <2>1. used' \subseteq Blocks
    BY <1>6, <1>11 DEF BlocksInv, UsedAre, Unused
  <2>2. ASSUME NEW x \in Blocks
        PROVE  x \in used' <=> \/ \E i \in Inodes : \E k \in Positions : Owned(i, k)' = x
                               \/ \E q \in Procs : New(q)' /\ blk'[q] = x
    <3>1. \A q \in Procs : New(q)' <=> New(q)
      BY <1>7 DEF New
    <3>2. x \in used <=> \/ \E i \in Inodes : \E k \in Positions : Owned(i, k) = x
                        \/ \E q \in Procs : New(q) /\ blk[q] = x
      BY DEF BlocksInv, UsedAre
    <3>3. x # 0
      BY DEF Blocks
    <3>4. x = b \/ (new /\ x = a) => \E i \in Inodes : \E k \in Positions : Owned(i, k)' = x
      BY <1>6, <1>8
    <3>5. \A i \in Inodes, k \in Positions : Owned(i, k) = x => Owned(i, k)' = x
      BY <1>6, <1>9, <3>3 DEF new
    <3>6. \A i \in Inodes, k \in Positions : Owned(i, k)' = x => Owned(i, k) = x \/ x = b \/ (new /\ x = a)
      BY <1>6
    <3> QED BY <1>6, <1>7, <3>1, <3>2, <3>4, <3>5, <3>6
  <2> QED BY <2>1, <2>2 DEF UsedAre
<1>14. SizesFit'
  <2>1. d.size <= MAXFILE /\ dinode'[ROOTINO] = d /\ d.type # Free
    <3>1. inum[At(p, "dp")] = ROOTINO /\ Used(At(p, "dp")) /\ At(p, "dp") \in Slots
      BY <1>1, GrowKnown DEF GrowStep
    <3>2. copy[At(p, "dp")].type = "dir"
      BY <3>1 DEF RootInv, RootCopies
    <3> QED BY <1>1, <1>4, <1>6, <1>8, <3>1, <3>2, Sizes DEF IUpdate, DataTypes, Free, MAXFILE
  <2>2. \A i \in Inodes \ {ROOTINO} : dinode'[i] = dinode[i]
    BY <1>5
  <2> QED BY <1>5, <2>1, <2>2 DEF BlocksInv, SizesFit
<1>15. ASSUME NEW i \in Inodes PROVE ShapeFits(i)'
  <2>1. CASE i = ROOTINO
    <3>1. ASSUME NEW k \in Positions
          PROVE  Owned(ROOTINO, k)' # 0 <=> IF k < MAXFILE THEN k < n + 1 ELSE n + 1 > NDIRECT
      <4>1. /\ Owned(ROOTINO, k)' = IF k = n THEN b ELSE IF new /\ k = MAXFILE THEN a ELSE Owned(ROOTINO, k)
            /\ (Owned(ROOTINO, k) # 0 <=> IF k < MAXFILE THEN k < n ELSE n > NDIRECT)
        BY <1>6, <1>8, <1>9 DEF Exact
      <4>2. k \in Nat /\ n \in Nat /\ NDIRECT \in Nat /\ k <= MAXFILE /\ n < MAXFILE /\ MAXFILE \in Nat
        BY <1>6, Sizes DEF Positions, MAXFILE
      <4>3. CASE k = n
        BY <1>8, <4>1, <4>2, <4>3
      <4>4. CASE k = MAXFILE
        <5>1. n >= NDIRECT <=> n + 1 > NDIRECT
          BY <4>2
        <5>2. new <=> n >= NDIRECT /\ Owned(ROOTINO, k) = 0
          BY <4>4 DEF new
        <5>3. Owned(ROOTINO, k) # 0 => n >= NDIRECT
          BY <4>1, <4>2, <4>4
        <5> QED BY <1>8, <4>1, <4>2, <4>4, <5>1, <5>2, <5>3
      <4>5. CASE k # n /\ k # MAXFILE
        BY <4>1, <4>2, <4>5
      <4> QED BY <4>3, <4>4, <4>5
    <3>2. PICK m \in Nat : m = n + 1
      BY <1>6
    <3>3. Exact(ROOTINO, m)'
      BY <3>1, <3>2 DEF Exact
    <3>4. Rec(ROOTINO)'.size = m
      BY <1>4, <1>5, <1>8, <3>2
    <3>5. Exact(ROOTINO, Rec(ROOTINO).size)'
      BY <3>3, <3>4
    <3> QED BY <2>1, <3>5 DEF ShapeFits
  <2>2. CASE i # ROOTINO
    <3>1. ShapeFits(i)
      BY DEF BlocksInv
    <3>2. Rec(i)' = Rec(i) /\ \A k \in Positions : Owned(i, k)' = Owned(i, k)
      BY <1>5, <1>6, <2>2
    <3> QED BY <1>5, <3>1, <3>2 DEF ShapeFits, Exact
  <2> QED BY <2>1, <2>2
<1>16. ASSUME NEW q \in Procs PROVE NewFits(q)'
  <2>1. NewFits(q) /\ \A v \in Procs : New(v)' <=> New(v)
    BY <1>7 DEF BlocksInv, New
  <2>2. New(q) => blk[q] # b /\ (new => blk[q] # a)
    <3>1. \A x \in Blocks : New(q) /\ blk[q] = x => x \in used
      BY DEF BlocksInv, UsedAre
    <3> QED BY <1>11, <3>1
  <2> QED BY <1>6, <1>7, <2>1, <2>2 DEF NewFits
<1>17. ASSUME NEW q \in Procs PROVE WriteFits(q)' /\ TruncFits(q)' /\ FreeFits(q)'
  <2>1. WriteFits(q) /\ TruncFits(q) /\ FreeFits(q)
    BY DEF BlocksInv
  <2>2. Ino(q, "fd")' = Ino(q, "fd") /\ Ino(q, "put")' = Ino(q, "put") /\ Where(q)' = Where(q)
    BY <1>7, RegsAre DEF Ino, Where
  <2>3. \A i \in Inodes \ {ROOTINO} : Rec(i)' = Rec(i) /\ \A k \in Positions : Owned(i, k)' = Owned(i, k)
    BY <1>5, <1>6
  <2>4. pc[q] \in {"bmap", "bzero"} => Ino(q, "fd") \in Inodes \ {ROOTINO} /\ off[q] \in Nat /\ end[q] \in Nat
    <3>1. Altering
      BY AlteredAre
    <3> QED BY <1>1, <1>5, <3>1 DEF Altering, Alters, Changing, Reg, Points, DataTypes
  <2>5. pc[q] = "itrunc" => Ino(q, "put") \in Inodes \ {ROOTINO}
    <3>1. Altering
      BY AlteredAre
    <3> QED BY <1>5, <3>1 DEF Altering, Alters, Changing, Reg, Points
  <2>6. pc[q] = "iput_free" => Ino(q, "put") \in Inodes \ {ROOTINO}
    <3>1. pc[q] = "iput_free" => Holds(q, "put") /\ FilesFit(q)
      BY DEF Holds, Frees, RootInv
    <3>2. pc[q] = "iput_free" => At(q, "put") \in Slots /\ At(q, "put") # 0
      BY <3>1, RegsAre DEF LockInv, HoldsFit, Slots
    <3> QED BY <1>1, <3>1, <3>2 DEF FilesFit, IsFile, Frees, Ino, DataTypes
  <2>7. FreeFits(q)'
    BY <1>7, <2>1, <2>2, <2>3, <2>6 DEF FreeFits
  <2>8. TruncFits(q)'
    BY <1>7, <2>1, <2>2, <2>3, <2>5 DEF TruncFits
  <2>9. WriteFits(q)'
    <3>1. CASE pc[q] \in {"bmap", "bzero"}
      <4> DEFINE i == Ino(q, "fd")
      <4>1. /\ Rec(i)' = Rec(i) /\ i' = i /\ \A k \in Positions : Owned(i, k)' = Owned(i, k)
            /\ Upto(q)' = Upto(q)
        BY <1>7, <2>2, <2>3, <2>4, <3>1 DEF Upto
      <4>2. \A m : Exact(i, m)' <=> Exact(i, m)
        BY <4>1 DEF Exact
      <4>3. Half(i)' <=> Half(i)
        BY <4>1 DEF Half
      <4>4. pc[q] = "bzero" => (Owned(i, off[q]) = 0 => Owned(i, off[q])' = 0)
        <5>1. pc[q] = "bzero" => off[q] < end[q] /\ end[q] <= MAXFILE
          BY <2>1 DEF WriteFits
        <5>2. pc[q] = "bzero" => off[q] \in Positions
          BY <2>4, <5>1, Sizes DEF Positions, MAXFILE
        <5> QED BY <1>7, <4>1, <5>2
      <4> QED BY <1>7, <2>1, <2>2, <3>1, <4>1, <4>2, <4>3, <4>4 DEF WriteFits
    <3>2. CASE pc[q] \notin {"bmap", "bzero"}
      BY <1>7, <2>1, <2>2, <3>2 DEF WriteFits
    <3> QED BY <3>1, <3>2
  <2> QED BY <2>7, <2>8, <2>9
<1> QED BY <1>12, <1>13, <1>14, <1>15, <1>16, <1>17 DEF BlocksInv

(* Every step keeps that. *)
LEMMA NextBlocks ==
  RefInv /\ LockInv /\ RootInv /\ CacheInv /\ NamesHold /\ BlocksHold
    /\ RefInv' /\ LockInv' /\ RootInv' /\ [Next]_vars => BlocksHold'
<1> SUFFICES ASSUME RefInv, LockInv, RootInv, CacheInv, NamesHold, BlocksHold, RefInv', LockInv', RootInv',
                    [Next]_vars, panic' = "none"
             PROVE  BlocksInv'
  BY DEF BlocksHold
<1>0. RecsFit /\ RecsFit'
  <2>1. RecsFit
    BY RecsAre
  <2>2. RefInv' /\ LockInv' => RecsFit'
    BY RecsAre, PTL
  <2> QED BY <2>1, <2>2
<1>1. ASSUME NEW p \in Procs, panic = "none", Inside(p) \/ Call(p) PROVE BlocksInv'
  <2>1. NamesDo(p)
    BY <1>1, CallsDoCache DEF NamesHold, NamesDo, RootInv, Stops
  <2>2. BlockStep(p)
    BY <1>1, <2>1, BlockSteps DEF NamesDo
  <2>3. BlocksDo(p)
    BY <1>0, <1>1, <2>1, <2>2 DEF BlocksDo, BlocksHold
  <2> QED BY <2>3, StepBlocks
<1>2. ASSUME NEW p \in Procs, panic = "none", Fork(p) PROVE BlocksInv'
  <2>1. /\ UNCHANGED <<dinode, used, content, pc, ret, off, end, blk, inum, copy>>
        /\ \A u \in Procs : At(u, "fd")' = At(u, "fd") /\ At(u, "put")' = At(u, "put")
    <3>1. UNCHANGED <<dinode, used, content, pc, ret, off, end, blk, inum, copy>>
      BY <1>2 DEF Fork, IDup, disk, place, loop
    <3>2. PICK q \in Procs : ptr' = [ptr EXCEPT ![<<q, "cwd">>] = At(p, "cwd")]
      BY <1>2 DEF Fork, IDup
    <3>3. \A u \in Procs : <<u, "fd">> # <<q, "cwd">> /\ <<u, "put">> # <<q, "cwd">>
      OBVIOUS
    <3>4. ptr \in [Pointers -> 0 .. NINODE]
      BY DEF RefInv, Types
    <3> QED BY <3>1, <3>2, <3>3, <3>4, RegsAre DEF At, Pointers
  <2> QED BY <1>0, <1>2, <2>1, SameBlocks DEF BlocksHold
<1>3. ASSUME panic = "none", Crash PROVE BlocksInv'
  <2>1. UNCHANGED <<dinode, used, content, pc, ret, off, end, blk>>
    BY <1>3 DEF Crash, disk, place, loop
  <2>2. \A u \in Procs : pc[u] \notin Changing \cup {"iput_free"}
    BY <1>3 DEF Crash, Idle, Changing
  <2> QED BY <1>0, <1>3, <2>1, <2>2, SameBlocks DEF BlocksHold
<1>4. CASE UNCHANGED vars
  <2>1. UNCHANGED <<dinode, used, content, pc, ret, off, end, blk, inum, copy, ptr, panic>>
    BY <1>4 DEF vars, cache, disk, place, loop
  <2>2. \A u \in Procs : At(u, "fd")' = At(u, "fd") /\ At(u, "put")' = At(u, "put")
    BY <2>1 DEF At
  <2> QED BY <1>0, <2>1, <2>2, SameBlocks DEF BlocksHold
<1>5. ASSUME NEW p \in Procs, panic = "none", DirGrow(p) PROVE BlocksInv'
  BY <1>0, <1>5, GrowBlocks DEF BlocksHold
<1> QED BY <1>1, <1>2, <1>3, <1>4, <1>5 DEF Next, Halted

(* Sets are as large as what is mapped one to one to them. *)
LEMMA SameSize ==
  ASSUME NEW S, NEW T, IsFiniteSet(S), NEW f \in [S -> T],
         \A x, y \in S : f[x] = f[y] => x = y, \A t \in T : \E x \in S : f[x] = t
  PROVE  Cardinality(T) = Cardinality(S)
<1>1. f \in Bijection(S, T)
  BY DEF Bijection, Injection, Surjection, IsInjective
<1> QED BY <1>1, FS_Bijection DEF ExistsBijection

(* A file of n units has a block for each, and one more for the numbers    *)
(* that are not in the inode. *)
LEMMA ExactSize ==
  ASSUME NEW n \in Nat, n <= MAXFILE
  PROVE  LET S == {k \in Positions : IF k < MAXFILE THEN k < n ELSE n > NDIRECT} IN
         IsFiniteSet(S) /\ Cardinality(S) = n + (IF n > NDIRECT THEN 1 ELSE 0)
<1> DEFINE S == {k \in Positions : IF k < MAXFILE THEN k < n ELSE n > NDIRECT}
           U == 0 .. n - 1
<1>1. NDIRECT \in Nat /\ MAXFILE \in Nat /\ NDIRECT < MAXFILE
  BY Sizes DEF MAXFILE
<1>2. IsFiniteSet(U) /\ Cardinality(U) = n
  <2>1. 0 \in Int /\ n - 1 \in Int
    OBVIOUS
  <2>2. IsFiniteSet(0 .. n - 1) /\ Cardinality(0 .. n - 1) = IF 0 > n - 1 THEN 0 ELSE (n - 1) - 0 + 1
    BY <2>1, FS_Interval
  <2> QED BY <2>2
<1>3. MAXFILE \notin U
  BY <1>1
<1>4. CASE n > NDIRECT
  <2>1. S = U \cup {MAXFILE}
    BY <1>1, <1>4 DEF Positions
  <2> HIDE DEF S, U
  <2>2. IsFiniteSet(U \cup {MAXFILE}) /\ Cardinality(U \cup {MAXFILE}) = n + 1
    BY <1>2, <1>3, FS_AddElement
  <2>3. IsFiniteSet(S) /\ Cardinality(S) = n + (IF n > NDIRECT THEN 1 ELSE 0)
    BY <1>4, <2>1, <2>2
  <2> QED BY <2>3 DEF S
<1>5. CASE ~(n > NDIRECT)
  <2>1. S = U
    BY <1>1, <1>5 DEF Positions
  <2> HIDE DEF S, U
  <2>2. IsFiniteSet(S) /\ Cardinality(S) = n + (IF n > NDIRECT THEN 1 ELSE 0)
    BY <1>2, <1>5, <2>1
  <2> QED BY <2>2 DEF S
<1> QED BY <1>4, <1>5

(* When no call is running, every block in use is one inode's.             *)
LEMMA OwnersFit ==
  ASSUME RefInv, LockInv, RootInv, NamesHold, BlocksHold
  PROVE  BlocksBelong
<1> SUFFICES ASSUME Quiet
             PROVE  /\ used = UNION {BlocksOf(i) : i \in Allocated}
                    /\ \A i, j \in Allocated : i # j => BlocksOf(i) \cap BlocksOf(j) = {}
                    /\ \A i \in Allocated : Cardinality(BlocksOf(i))
                         = dinode[i].size + (IF dinode[i].size > NDIRECT THEN 1 ELSE 0)
  BY DEF BlocksBelong
<1>1. \A p \in Procs : pc[p] = "user"
  BY DEF Quiet, Idle
<1>2. BlocksInv /\ DataTypes
  BY <1>1 DEF NamesHold, PanicInside, BlocksHold, RootInv
<1>3. \A i : \A p \in Procs : ~Alters(p, i)
  BY <1>1 DEF Alters, Changing
<1>4. RecsFit
  BY RecsAre
<1>5. \A i : Rec(i) = dinode[i] /\ \A k : ~Cut(i, k)
  BY <1>3, <1>4 DEF RecsFit
<1>6. NDIRECT \in Nat /\ NINDIRECT \in Nat /\ NINDIRECT # 0 /\ MAXFILE = NDIRECT + NINDIRECT
  BY Sizes DEF MAXFILE
<1>7. \A i \in Inodes : \A k \in Positions : Owned(i, k) \in 0 .. NBLOCK
  BY <1>2, <1>4, RecTypes
<1>8. ASSUME NEW i \in Inodes
      PROVE  \A b : b \in BlocksOf(i) <=> b # 0 /\ \E k \in Positions : Owned(i, k) = b
  <2> DEFINE d == dinode[i]  a == d.addrs[NDIRECT]
  <2>1. \A k : Owned(i, k) = BlockAt(content, d.addrs, k)
    BY <1>5 DEF Owned
  <2>2. \A k \in 0 .. NDIRECT : \E l \in Positions : Owned(i, l) = d.addrs[k]
    <3> SUFFICES ASSUME NEW k \in 0 .. NDIRECT PROVE \E l \in Positions : Owned(i, l) = d.addrs[k]
      OBVIOUS
    <3>1. CASE k < NDIRECT
      <4>1. k \in Positions /\ Owned(i, k) = d.addrs[k]
        BY <1>6, <2>1, <3>1 DEF Positions, BlockAt
      <4> QED BY <4>1
    <3>2. CASE k = NDIRECT
      <4>1. MAXFILE \in Positions /\ Owned(i, MAXFILE) = d.addrs[k]
        BY <1>6, <2>1, <3>2 DEF Positions, BlockAt
      <4> QED BY <4>1
    <3> QED BY <1>6, <3>1, <3>2
  <2>3. ASSUME a # 0, NEW j \in 0 .. NINDIRECT - 1 PROVE \E l \in Positions : Owned(i, l) = content[a][j]
    <3>1. /\ NDIRECT + j \in Positions /\ ~(NDIRECT + j < NDIRECT) /\ NDIRECT + j # MAXFILE
          /\ (NDIRECT + j) - NDIRECT = j
      BY <1>6 DEF Positions
    <3>2. Owned(i, NDIRECT + j) = content[a][j]
      BY <2>1, <2>3, <3>1 DEF BlockAt
    <3> QED BY <3>1, <3>2
  <2>4. ASSUME NEW l \in Positions, Owned(i, l) # 0
        PROVE  \/ \E k \in 0 .. NDIRECT : Owned(i, l) = d.addrs[k]
               \/ a # 0 /\ \E j \in 0 .. NINDIRECT - 1 : Owned(i, l) = content[a][j]
    <3>1. CASE l < NDIRECT
      <4>1. l \in 0 .. NDIRECT /\ Owned(i, l) = d.addrs[l]
        BY <1>6, <2>1, <3>1 DEF Positions, BlockAt
      <4> QED BY <4>1
    <3>2. CASE ~(l < NDIRECT) /\ (l = MAXFILE \/ a = 0)
      <4>1. NDIRECT \in 0 .. NDIRECT /\ Owned(i, l) = d.addrs[NDIRECT]
        BY <1>6, <2>1, <3>2 DEF BlockAt
      <4> QED BY <4>1
    <3>3. CASE ~(l < NDIRECT) /\ l # MAXFILE /\ a # 0
      <4>1. l - NDIRECT \in 0 .. NINDIRECT - 1
        BY <1>6, <3>3 DEF Positions
      <4>2. Owned(i, l) = content[a][l - NDIRECT]
        BY <2>1, <3>3 DEF BlockAt
      <4> QED BY <3>3, <4>1, <4>2
    <3> QED BY <3>1, <3>2, <3>3
  <2>5. \A b : b \in BlocksOf(i) <=> b # 0 /\ \/ \E k \in 0 .. NDIRECT : b = d.addrs[k]
                                              \/ a # 0 /\ \E j \in 0 .. NINDIRECT - 1 : b = content[a][j]
    BY DEF BlocksOf
  <2> QED BY <2>2, <2>3, <2>4, <2>5
<1>9. ASSUME NEW i \in Inodes
      PROVE  /\ dinode[i].size \in Nat /\ dinode[i].size <= MAXFILE /\ Exact(i, dinode[i].size)
             /\ dinode[i].type = Free => dinode[i].size = 0
  <2>1. SizesFit /\ ShapeFits(i)
    BY <1>2 DEF BlocksInv
  <2>2. dinode[i].size \in Nat
    BY <1>2 DEF DataTypes, Fields
  <2> QED BY <1>3, <1>5, <2>1, <2>2 DEF SizesFit, ShapeFits
<1>10. ASSUME NEW i \in Inodes, NEW k \in Positions, Owned(i, k) # 0
       PROVE  i \in Allocated
  <2>1. ~Exact(i, 0)
    BY <1>6, <1>10 DEF Exact, Positions
  <2> QED BY <1>9, <2>1 DEF Allocated
<1>11. used = UNION {BlocksOf(i) : i \in Allocated}
  <2>1. used \subseteq Blocks /\ \A b \in Blocks : b \in used <=> \E i \in Inodes : \E k \in Positions : Owned(i, k) = b
    BY <1>1, <1>2 DEF BlocksInv, UsedAre, New
  <2>2. \A b \in Blocks : b # 0
    BY DEF Blocks
  <2>3. ASSUME NEW b \in used PROVE b \in UNION {BlocksOf(i) : i \in Allocated}
    <3>1. PICK i \in Inodes : \E k \in Positions : Owned(i, k) = b
      BY <2>1
    <3>2. i \in Allocated /\ b \in BlocksOf(i)
      BY <1>8, <1>10, <2>1, <2>2, <3>1
    <3> QED BY <3>2
  <2>4. ASSUME NEW i \in Allocated, NEW b \in BlocksOf(i) PROVE b \in used
    <3>1. i \in Inodes
      BY DEF Allocated
    <3>2. PICK k \in Positions : b # 0 /\ Owned(i, k) = b
      BY <1>8, <3>1
    <3>3. b \in Blocks
      BY <1>7, <3>1, <3>2, Sizes DEF Blocks
    <3> QED BY <2>1, <3>1, <3>2, <3>3
  <2> QED BY <2>3, <2>4
<1>12. ASSUME NEW i \in Allocated, NEW j \in Allocated, i # j
       PROVE  BlocksOf(i) \cap BlocksOf(j) = {}
  <2>1. i \in Inodes /\ j \in Inodes
    BY DEF Allocated
  <2>2. Distinct
    BY <1>2 DEF BlocksInv
  <2> QED BY <1>8, <1>12, <2>1, <2>2 DEF Distinct
<1>13. ASSUME NEW i \in Allocated
       PROVE  Cardinality(BlocksOf(i)) = dinode[i].size + (IF dinode[i].size > NDIRECT THEN 1 ELSE 0)
  <2>1. i \in Inodes
    BY DEF Allocated
  <2>2. PICK n \in Nat : n = dinode[i].size
    BY <1>9, <2>1
  <2> DEFINE S == {k \in Positions : IF k < MAXFILE THEN k < n ELSE n > NDIRECT}
             f == [k \in S |-> Owned(i, k)]
  <2>3. n <= MAXFILE /\ Exact(i, n)
    BY <1>9, <2>1, <2>2
  <2>4. IsFiniteSet(S) /\ Cardinality(S) = n + (IF n > NDIRECT THEN 1 ELSE 0)
    BY <2>3, ExactSize
  <2>5. \A k \in Positions : k \in S <=> Owned(i, k) # 0
    BY <2>3 DEF Exact
  <2>6. S \subseteq Positions
    OBVIOUS
  <2> HIDE DEF S
  <2>7. f \in [S -> BlocksOf(i)]
    BY <1>8, <2>1, <2>5, <2>6
  <2>8. \A x, y \in S : f[x] = f[y] => x = y
    BY <1>2, <2>1, <2>5, <2>6 DEF BlocksInv, Distinct
  <2>9. \A b \in BlocksOf(i) : \E x \in S : f[x] = b
    BY <1>8, <2>1, <2>5
  <2> HIDE DEF f
  <2>10. Cardinality(BlocksOf(i)) = Cardinality(S)
    BY <2>4, <2>7, <2>8, <2>9, SameSize
  <2> QED BY <2>2, <2>4, <2>10
<1> QED BY <1>11, <1>12, <1>13

(* When no call is running, every block that is in use belongs to one      *)
(* inode, at one place, and a file has as many blocks as its size asks     *)
(* for: balloc, bmap and itrunc lose no block, and give none twice,        *)
(* however reads, writes and the last iput interleave.                     *)
THEOREM BlocksCorrect == Spec => []BlocksBelong
<1>1. Init => NamesHold
  BY InitNames DEF NamesHold, PanicInside, Init
<1>2. Init => BlocksHold
  BY InitBlocks DEF BlocksHold
<1> QED BY <1>1, <1>2, InitRefInv, NextRefInv, InitLockInv, NextLockInv, InitRoot, NextRoot, InitCache, NextCache,
      NextNames, NextBlocks, OwnersFit, PTL DEF Spec

------------------------------------------------------------------------------
(* Panics: the conditions that FS.C asserts are true where it asserts      *)
(* them.                                                                   *)

(* iget panics when the cache is full. *)
LEMMA IGetPanics ==
  ASSUME NEW p, NEW r, NEW i, panic = "none", IGet(p, r, i)
  PROVE  OnlyOutOfSpace'
  BY DEF IGet, OnlyOutOfSpace

(* iunlock finds the lock that the call holds. *)
LEMMA UnlocksHeld ==
  ASSUME RefInv, LockInv, NEW p \in Procs, NEW r \in Regs, Holds(p, r), IUnlock(p, At(p, r))
  PROVE  panic' = panic
<1>1. At(p, r) \in Slots /\ p \in lock[At(p, r)] /\ At(p, r) # 0
  BY DEF LockInv, HoldsFit, Slots
<1>2. ref[At(p, r)] \in Nat /\ ref[At(p, r)] > 0
  BY <1>1, PointerTypes DEF RefInv, Types
<1> QED BY <1>1, <1>2 DEF IUnlock

(* No other step panics. *)
LEMMA PanicsAre ==
  ASSUME RefInv, LockInv, NEW p \in Procs, panic = "none", Inside(p) \/ Call(p)
  PROVE  OnlyOutOfSpace' \/ Asserts(p)
<1> DEFINE Unlocks(r) == Holds(p, r) /\ IUnlock(p, At(p, r))
<1>0. \A r \in Regs : Unlocks(r) => panic' = panic
  BY UnlocksHeld
<1> HIDE DEF Unlocks
<1>1. panic' = panic => OnlyOutOfSpace'
  BY DEF OnlyOutOfSpace
<1>2. ASSUME IPut(p) \/ IPutFree(p) \/ IPutInvalid(p) \/ IPutDrop(p) \/ ITruncEnd(p)
               \/ BZero(p) \/ CopyUnit(p)
      PROVE  panic' = panic
  BY <1>2 DEF IPut, IPutFree, IPutInvalid, IPutDrop, ITruncEnd, BZero, CopyUnit
<1>3. ASSUME Namex(p) \/ CreateExists(p) \/ CreateInit(p) \/ DirLinkFound(p) \/ LinkBad(p) \/ LinkDone(p)
               \/ Return(p) \/ Call(p)
      PROVE  panic' = panic
  BY <1>3 DEF Namex, CreateExists, CreateInit, DirLinkFound, LinkBad, LinkDone, Return, Call
<1>9. ASSUME ReadI(p) \/ WriteI(p) \/ ReadWriteEnd(p)
      PROVE  panic' = panic \/ Unlocks("fd")
  BY <1>9 DEF ReadI, WriteI, ReadWriteEnd, Transfer, Refused, Unlocks, Holds, Copies, File
<1>10. ASSUME NamexStep(p)
       PROVE  Unlocks("at")
  BY <1>10 DEF NamexStep, Unlocks, Holds
<1>11. ASSUME CreateFound(p) \/ Linked(p)
       PROVE  Unlocks("dp")
  BY <1>11 DEF CreateFound, Linked, IUnlockPut, Unlocks, Holds, UsesDp, Where, Inner, Putting
<1>12. ASSUME OpenLocked(p) \/ DropLink(p) \/ LinkLocked(p)
       PROVE  Unlocks("ip")
  BY <1>12 DEF OpenLocked, DropLink, LinkLocked, IUnlockPut, Unlocks, Holds, LocksIp, Where, Inner, Putting
<1>13. ASSUME UnlinkParent(p)
       PROVE  \/ panic' = panic \/ Unlocks("dp") \/ Asserts(p)
              \/ \E r, i : IGet(p, r, i)
  BY <1>13 DEF UnlinkParent, IUnlockPut, DirLookup, Asserts, Parents, Unlocks, Holds, UsesDp, Where, Inner, Putting
<1>14. ASSUME NamexLocked(p)
       PROVE  Unlocks("at") \/ \E r, i : IGet(p, r, i)
  BY <1>14 DEF NamexLocked, IUnlockPut, DirLookup, Unlocks, Holds
<1>4. ASSUME NamexStart(p) \/ CreateParent(p) \/ IAllocGet(p) \/ DirLink(p)
      PROVE  panic' = panic \/ (\E r, i : IGet(p, r, i)) \/ Asserts(p)
  BY <1>4 DEF NamexStart, CreateParent, IAllocGet, DirLink, DirLookup, Asserts, Parents
<1>5. ASSUME BMap(p) \/ IAlloc(p)
      PROVE  OnlyOutOfSpace' \/ Asserts(p)
  BY <1>5 DEF BMap, BAlloc, IAlloc, Panic, OnlyOutOfSpace, Asserts
<1>6. ASSUME ILock(p)
      PROVE  panic' = panic \/ Asserts(p)
  BY <1>6 DEF ILock, Panic, Asserts
<1>7. ASSUME ITrunc(p)
      PROVE  panic' = panic \/ Asserts(p)
  BY <1>7 DEF ITrunc, Panic, Asserts, BlockAt
<1>8. ASSUME DirLinkFailed(p) \/ UnlinkLocked(p)
      PROVE  Unlocks("dp") \/ Asserts(p)
  BY <1>8 DEF DirLinkFailed, UnlinkLocked, IUnlockPut, Asserts, Unlocks, Holds, UsesDp, Where, Inner, Putting
<1>15. panic' = panic \/ (\E r \in Regs : Unlocks(r)) \/ (\E r, i : IGet(p, r, i)) => OnlyOutOfSpace'
  BY <1>0, <1>1, IGetPanics
<1> QED BY <1>2, <1>3, <1>4, <1>5, <1>6, <1>7, <1>8, <1>9, <1>10, <1>11, <1>12, <1>13, <1>14, <1>15, RegsAre
      DEF Inside

(* A pointer that a call gives to ilock is there, and its inode is not     *)
(* free.                                                                   *)
LEMMA LockAsserts ==
  ASSUME RefInv, LockInv, RootInv, NamesInv, panic = "none", NEW p \in Procs, pc[p] = "ilock"
  PROVE  LET s == At(p, which[p]) IN
           s # 0 /\ s \in Slots /\ ref[s] >= 1 /\ dinode[inum[s]].type # Free
<1>1. WhichFits(p) /\ NonNull(p) /\ Live(p)
  BY DEF LockInv, NamesInv
<1>2. which[p] \in Regs \ {"put"}
  BY <1>1 DEF WhichFits, Regs
<1>3. At(p, which[p]) # 0
  BY <1>1 DEF WhichFits, NonNull, Where, Inner, UsesAt, UsesDp, LocksIp, Copies
<1>4. ref[At(p, which[p])] > 0 /\ At(p, which[p]) \in Slots
  BY <1>2, <1>3, PointerTypes
<1>5. ~Dying(p, which[p])
  BY <1>2 DEF Dying
<1>6. dinode[inum[At(p, which[p])]].type # Free
  BY <1>1, <1>2, <1>3, <1>5 DEF Live, Ino
<1>7. ref[At(p, which[p])] >= 1
  BY <1>4 DEF RefInv, Types
<1> QED BY <1>3, <1>4, <1>6, <1>7

(* A block that itrunc frees is in use. *)
LEMMA TruncAsserts ==
  ASSUME RefInv, LockInv, RootInv, BlocksInv, NEW p \in Procs, pc[p] = "itrunc", off[p] <= MAXFILE
  PROVE  ~FreedTwice(BlockAt(content, copy[At(p, "put")].addrs, off[p]))
<1>1. RecsFit /\ Altering /\ DataTypes
  BY RecsAre, AlteredAre DEF RootInv
<1>2. PICK i \in Inodes : Alters(p, i)
  BY <1>1 DEF Altering, Changing
<1>3. Rec(i) = copy[At(p, "put")] /\ ~Cut(i, off[p])
  <2>1. off[p] \in Nat
    BY <1>1 DEF DataTypes
  <2> QED BY <1>1, <1>2, <2>1 DEF RecsFit, Reg
<1>4. off[p] \in Positions
  BY <1>1, Sizes DEF DataTypes, Positions, MAXFILE
<1>5. Owned(i, off[p]) = BlockAt(content, copy[At(p, "put")].addrs, off[p])
  BY <1>3 DEF Owned
<1>6. Owned(i, off[p]) \in 0 .. NBLOCK
  BY <1>1, <1>4, RecTypes
<1>7. Owned(i, off[p]) # 0 => Owned(i, off[p]) \in used
  <2>1. Owned(i, off[p]) # 0 => Owned(i, off[p]) \in Blocks
    BY <1>6, Sizes DEF Blocks
  <2> QED BY <1>4, <2>1 DEF BlocksInv, UsedAre
<1> QED BY <1>5, <1>7 DEF FreedTwice

(* The inode whose name unlink has found has a link. *)
LEMMA UnlinkAsserts ==
  ASSUME RefInv, LockInv, RootInv, CacheInv, NamesInv, NEW p \in Procs, pc[p] = "unlink_locked"
  PROVE  copy[At(p, "ip")].nlink \in Int /\ copy[At(p, "ip")].nlink >= 1
<1> DEFINE s == At(p, "ip")  i == Ino(p, "ip")
<1>1. Holds(p, "ip") /\ "ip" \in Regs
  BY RegsAre DEF Holds, Where, Inner, Putting, LocksIp
<1>2. s \in Slots /\ p \in lock[s]
  BY <1>1 DEF LockInv, HoldsFit
<1>3. ref[s] > 0 /\ valid[s] /\ DataTypes
  BY <1>1, <1>2, PointerTypes DEF RootInv, LockedIsValid, Slots
<1>4. ~Invalidates(s)
  <2> SUFFICES ASSUME NEW u \in Procs, pc[u] = "iput_invalid", At(u, "put") = s PROVE FALSE
    BY DEF Invalidates
  <2>1. Holds(u, "put") /\ "put" \in Regs
    BY RegsAre DEF Holds, Frees
  <2>2. u = p
    BY <1>1, <2>1, HoldersAgree
  <2> QED BY <2>2
<1>5. copy[s].nlink = dinode[i].nlink
  BY <1>2, <1>3, <1>4 DEF CacheInv, CopyFits, Used, Ino
<1>6. i \in Inodes
  BY <1>2, <1>3 DEF DataTypes, Ino
<1>7. \E k \in Entries : dirent[k].inum = i
  <2>1. LookupFits(p)
    BY DEF NamesInv
  <2>2. Lookup(name[p]) # {} /\ dirent[Least(Lookup(name[p]))].inum = i
    BY <2>1 DEF LookupFits, Where, Inner, Putting
  <2>3. Least(Lookup(name[p])) \in Entries
    BY <1>3, <2>2, LookupIsIn
  <2> QED BY <2>2, <2>3
<1>8. dinode[i].nlink \in Int /\ dinode[i].nlink >= 1
  <2> HIDE DEF i
  <2>0. dinode[i].nlink \in Int
    BY <1>3, <1>6 DEF DataTypes, Fields
  <2>1. CASE i = ROOTINO
    BY <2>0, <2>1 DEF RootInv, RootInode
  <2>2. CASE i # ROOTINO
    BY <2>0, <1>3, <1>6, <1>7, <2>2, LinkedHas DEF NamesInv
  <2> QED BY <2>0, <2>1, <2>2
<1> QED BY <1>5, <1>8

(* What fails in dirlink is a call that is not create. *)
LEMMA FailsKept ==
  ASSUME RefInv, LockInv, NEW p \in Procs, NamesInv, panic' = "none", Steps(p),
         \A q \in Procs : FailFits(q), NEW q \in Procs
  PROVE  FailFits(q)'
<1>1. FailFits(p) /\ FailFits(q) /\ LookupFits(p) /\ OpsFit(p) /\ PlacesFit(p) /\ WhichFits(p)
  BY DEF NamesInv, RefInv, LockInv
<1>2. CASE q # p
  BY <1>1, <1>2 DEF Steps, Only, FailFits, Where
<1>3. CASE q = p
  <2>1. AfterNamex(p) \notin {"dirlink_found", "dirlink_failed"} /\ NoInode(p) \notin {"dirlink_found", "dirlink_failed"}
    BY DEF AfterNamex, NoInode
  <2>2. pc[p] = "dirlink" => Lookup(name[p]) = {} \/ op[p] # "create"
    BY <1>1 DEF LookupFits, Where, Inner, Putting
  <2>3. ~Stops
    BY DEF Stops
  <2> HIDE DEF AfterNamex, NoInode
  <2>4. Where(p)' \in {"dirlink_found", "dirlink_failed"} =>
           /\ op'[p] = op[p]
           /\ (pc[p] = "dirlink" /\ op[p] # "create") \/ Where(p) \in {"dirlink_found", "dirlink_failed"}
    BY <1>1, <2>1, <2>2, <2>3 DEF Steps, StepOf, InnerStep, FileStep, PathStep, DirectoryStep, InodeStep,
      CallStep, ReturnStep, Go, GoILock, GoIPut, GivesPut, Found, Where, Inner, Putting, PlacesFit, WhichFits, LocksIp
  <2> QED BY <1>1, <1>3, <2>4 DEF FailFits
<1> QED BY <1>2, <1>3

(* Every step keeps that. *)
LEMMA NextPanics ==
  RefInv /\ LockInv /\ RootInv /\ CacheInv /\ NamesHold /\ BlocksHold /\ PanicsHold /\ [Next]_vars
    => PanicsHold'
<1> SUFFICES ASSUME RefInv, LockInv, RootInv, CacheInv, NamesHold, BlocksHold, PanicsHold, [Next]_vars
             PROVE  PanicsHold'
  OBVIOUS
<1>1. ASSUME NEW p \in Procs, panic = "none", Inside(p) \/ Call(p) PROVE PanicsHold'
  <2>1. NamesInv /\ BlocksInv /\ \A q \in Procs : FailFits(q)
    BY <1>1 DEF NamesHold, BlocksHold, PanicsHold
  <2>2. ~Asserts(p)
    <3>1. ~(pc[p] = "dirlink_failed" /\ op[p] = "create")
      BY <2>1 DEF FailFits, Where, Inner, Putting
    <3>2. pc[p] = "ilock" => LET s == At(p, which[p]) IN
             ~(s = 0 \/ ref[s] < 1 \/ (~valid[s] /\ dinode[inum[s]].type = Free))
      <4>1. pc[p] = "ilock" => LET s == At(p, which[p]) IN
              s # 0 /\ ref[s] >= 1 /\ s \in Slots /\ dinode[inum[s]].type # Free
        BY <1>1, <2>1, LockAsserts
      <4> QED BY <4>1 DEF RefInv, Types
    <3>3. pc[p] = "itrunc" /\ off[p] <= MAXFILE =>
            ~FreedTwice(BlockAt(content, copy[At(p, "put")].addrs, off[p]))
      BY <2>1, TruncAsserts
    <3>4. pc[p] = "unlink_locked" => ~(copy[At(p, "ip")].nlink < 1)
      BY <2>1, UnlinkAsserts
    <3>5. pc[p] = "bmap" /\ off[p] < end[p] => ~(off[p] >= MAXFILE)
      BY <2>1, Sizes DEF BlocksInv, WriteFits, RootInv, DataTypes, MAXFILE
    <3>6. pc[p] \in Parents => IsDir(p)
      <4>1. pc[p] \in Parents => At(p, "dp") \in Slots /\ At(p, "dp") # 0
        BY <1>1, RegsAre, PointerTypes DEF LockInv, NonNull, Parents, Where, Inner, Putting, UsesDp
      <4> QED BY <4>1, ParentKnown DEF RootInv, RootCopies, IsDir
    <3> QED BY <3>1, <3>2, <3>3, <3>4, <3>5, <3>6 DEF Asserts
  <2>3. OnlyOutOfSpace'
    BY <1>1, <2>2, PanicsAre
  <2>4. Steps(p)
    BY <1>1, LockDomains, CallsStep DEF LockInv, RefInv
  <2>5. panic' = "none" => \A q \in Procs : FailFits(q)'
    BY <2>1, <2>4, FailsKept
  <2> QED BY <2>3, <2>5 DEF PanicsHold
<1>2. ASSUME UNCHANGED <<panic, pc, ret, op>> PROVE PanicsHold'
  BY <1>2 DEF PanicsHold, OnlyOutOfSpace, FailFits, Where
<1>3. ASSUME (\E p \in Procs : Fork(p)) \/ Crash \/ UNCHANGED vars PROVE UNCHANGED <<panic, pc, ret, op>>
  BY <1>3 DEF Fork, Crash, vars, place, args
<1>4. ASSUME NEW p \in Procs, panic = "none", DirGrow(p) PROVE PanicsHold'
  <2>1. GrowStep(p)
    BY <1>4, GrowSteps DEF RootInv
  <2>2. panic' \in {"none", "dirlink", "balloc: out of blocks"} /\ UNCHANGED <<pc, ret, op>>
    BY <1>4, <2>1 DEF GrowStep, place, args
  <2> QED BY <1>4, <2>2 DEF PanicsHold, OnlyOutOfSpace, FailFits, Where
<1> QED BY <1>1, <1>2, <1>3, <1>4 DEF Next, Halted

(* The machine panics only when the cache, the inodes, the blocks or the   *)
(* room in the directory are used up: what ilock and iunlock assert of     *)
(* pointers and locks, bmap, bfree and itrunc of blocks, dirlookup and     *)
(* ilock of types and unlink of links is so, however calls interleave.     *)
THEOREM PanicsCorrect == Spec => []OnlyOutOfSpace
<1>1. Init => NamesHold
  BY InitNames DEF NamesHold, PanicInside, Init
<1>2. Init => BlocksHold
  BY InitBlocks DEF BlocksHold
<1>3. Init => PanicsHold
  <2> SUFFICES ASSUME Init PROVE PanicsHold
    OBVIOUS
  <2>1. panic = "none" /\ \A p \in Procs : pc[p] = "user"
    BY Zenon DEF Init
  <2> QED BY <2>1 DEF PanicsHold, OnlyOutOfSpace, FailFits, Where, Inner, Putting
<1>4. PanicsHold => OnlyOutOfSpace
  BY DEF PanicsHold
<1> QED BY <1>1, <1>2, <1>3, <1>4, InitRefInv, NextRefInv, InitLockInv, NextLockInv, InitRoot, NextRoot,
      InitCache, NextCache, NextNames, NextBlocks, NextPanics, PTL DEF Spec
=============================================================================
