--------------------------- MODULE SysCallsProofs ---------------------------
(***************************************************************************)
(* The kernel reads and hands on only memory the process has, and sbrk     *)
(* does what it answers, for every width of the addresses, size of a page, *)
(* and end of the user's part of the addresses.                            *)
(***************************************************************************)
EXTENDS SysCalls, TLAPS

(* Memory is there up to the end of the page that proc->sz lies in.        *)
Whole == ~lost => mapped = Bytes(0, PGROUNDUP(sz))

IInv == TypeOK /\ Whole

------------------------------------------------------------------------------
(* Numbers *)

(* The constants, one fact each. *)
LEMMA ConstantFacts ==
  /\ Half \in Nat /\ Half > 0 /\ KERNBASE \in Nat /\ PageSize \in Nat
  /\ PageSize > 0 /\ Word \in Nat /\ Word > 0 /\ StatSize \in Nat
  /\ PageSize <= KERNBASE /\ KERNBASE <= Half /\ 4 * Word <= Half
  /\ StatSize < Half /\ Limit \in Nat /\ Limit = 2 * Half
  /\ MinusOne = Limit - 1
  BY SysCallsAssumption DEF Limit, MinusOne

(* A number is unsigned when it lies below Limit. *)
LEMMA UintFacts == \A a : a \in Uints <=> a \in Int /\ 0 <= a /\ a < Limit
  BY ConstantFacts DEF Uints

(* Rounding up to a page never goes down, and a page is its own rounding.  *)
LEMMA RoundUpFacts ==
  ASSUME NEW a \in Nat
  PROVE  /\ PGROUNDUP(a) \in Nat
         /\ a <= PGROUNDUP(a)
         /\ PGROUNDUP(a) < a + PageSize
<1>1. a % PageSize \in Nat /\ a % PageSize < PageSize
  BY ConstantFacts
<1> DEFINE rest == PageSize - (a % PageSize)
<1>2. rest \in Nat
  BY <1>1, ConstantFacts
<1>3. rest % PageSize \in Nat /\ rest % PageSize < PageSize
  BY <1>2, ConstantFacts
<1> QED
  BY <1>3, ConstantFacts DEF PGROUNDUP

(* What is less than a page, and a number of pages, is nothing. *)
LEMMA NoPartPage ==
  ASSUME NEW k \in Int, k * PageSize < PageSize
  PROVE  k <= 0
<1>1. SUFFICES ASSUME k >= 1 PROVE FALSE
  OBVIOUS
<1>2. k * PageSize = PageSize + (k - 1) * PageSize
  BY ConstantFacts
<1>3. (k - 1) * PageSize >= 0
  BY <1>1, ConstantFacts
<1> QED
  BY <1>2, <1>3, ConstantFacts

(* Rounding up gives a number of whole pages. *)
LEMMA WholePages ==
  ASSUME NEW a \in Nat
  PROVE  \E k \in Int : PGROUNDUP(a) = k * PageSize
<1> DEFINE r == a % PageSize
           q == a \div PageSize
<1>1. q \in Int /\ r \in Nat /\ r < PageSize /\ a = q * PageSize + r
  BY ConstantFacts
<1>2. CASE r = 0
  <2>1. (PageSize - r) % PageSize = 0
    BY <1>2, ConstantFacts
  <2>2. PGROUNDUP(a) = a + 0
    BY <2>1 DEF PGROUNDUP
  <2>3. a = q * PageSize
    BY <1>1, <1>2, ConstantFacts
  <2> QED BY <1>1, <2>2, <2>3
<1>3. CASE r > 0
  <2>1. (PageSize - r) % PageSize = PageSize - r
    BY <1>1, <1>3, ConstantFacts
  <2>2. PGROUNDUP(a) = q * PageSize + PageSize
    BY <1>1, <2>1, ConstantFacts DEF PGROUNDUP
  <2>3. q * PageSize + PageSize = (q + 1) * PageSize
    BY <1>1, ConstantFacts
  <2> QED BY <1>1, <2>2, <2>3
<1> QED
  BY <1>1, <1>2, <1>3

(* Rounding up keeps the order. *)
LEMMA RoundUpMonotone ==
  ASSUME NEW a \in Nat, NEW b \in Nat, a <= b
  PROVE  PGROUNDUP(a) <= PGROUNDUP(b)
<1>1. PICK k \in Int : PGROUNDUP(a) = k * PageSize
  BY WholePages
<1>2. PICK l \in Int : PGROUNDUP(b) = l * PageSize
  BY WholePages
<1>3. (k - l) * PageSize = k * PageSize - l * PageSize
  BY ConstantFacts
<1>4. k * PageSize < a + PageSize /\ b <= l * PageSize
  BY <1>1, <1>2, RoundUpFacts
<1>5. (k - l) * PageSize < PageSize
  BY <1>3, <1>4, ConstantFacts, k * PageSize \in Int, l * PageSize \in Int
<1>6. k - l <= 0
  BY <1>5, NoPartPage
<1>7. CASE k = l
  BY <1>1, <1>2, <1>7, RoundUpFacts
<1>8. CASE l - k >= 1
  <2>1. (l - k) * PageSize >= 0
    BY <1>8, ConstantFacts
  <2>2. (l - k) * PageSize = l * PageSize - k * PageSize
    BY ConstantFacts
  <2> QED BY <1>1, <1>2, <2>1, <2>2, RoundUpFacts
<1> QED
  BY <1>6, <1>7, <1>8

------------------------------------------------------------------------------
(* What is fetched lies below proc->sz *)

(* The types of IInv, one fact each. *)
LEMMA TypeFacts ==
  ASSUME TypeOK
  PROVE  /\ sz \in Nat /\ 0 < sz /\ sz <= KERNBASE /\ sz < Limit
         /\ esp \in Int /\ 0 <= esp /\ esp < Limit
  BY ConstantFacts, UintFacts DEF TypeOK

(* A sum is unsigned, and is the sum of the numbers or less by Limit.      *)
LEMMA PlusFacts ==
  ASSUME NEW a \in Int, NEW b \in Int, 0 <= a, a < Limit, 0 <= b, b < Limit
  PROVE  /\ Plus(a, b) \in Int /\ 0 <= Plus(a, b) /\ Plus(a, b) < Limit
         /\ Plus(a, b) = a + b \/ Plus(a, b) = a + b - Limit
         /\ a + b < Limit => Plus(a, b) = a + b
  BY ConstantFacts DEF Plus

(* The addresses of arguments are unsigned. *)
LEMMA ArgAddrFacts ==
  ASSUME TypeOK, NEW n \in {0, 1, 2}
  PROVE  ArgAddr(n) \in Int /\ 0 <= ArgAddr(n) /\ ArgAddr(n) < Limit
<1>1. /\ Word + Word * n \in Int /\ 0 <= Word + Word * n
      /\ Word + Word * n < Limit
  BY ConstantFacts
<1> QED
  BY <1>1, TypeFacts, PlusFacts DEF ArgAddr

(* fetchint reads below sz, although the end of the word is computed with  *)
(* a sum that wraps. *)
LEMMA FetchInside ==
  ASSUME TypeOK, NEW addr \in Int, 0 <= addr, addr < Limit, fetchint(addr)
  PROVE  addr + Word <= sz
<1>1. addr < sz /\ Plus(addr, Word) <= sz
  BY DEF fetchint
<1>2. addr + Word < Limit /\ Word < Limit
  BY <1>1, TypeFacts, ConstantFacts
<1> QED
  BY <1>1, <1>2, PlusFacts, ConstantFacts

(* So do the words argint reads. *)
LEMMA ArgsInside ==
  ASSUME TypeOK, NEW S \in SUBSET {0, 1, 2}
  PROVE  Args(S) \subseteq Bytes(0, sz)
<1> SUFFICES ASSUME NEW a \in Args(S) PROVE a \in Bytes(0, sz)
  OBVIOUS
<1>1. PICK n \in S : argint(n) /\ a \in Bytes(ArgAddr(n), ArgAddr(n) + Word)
  BY DEF Args
<1>2. ArgAddr(n) + Word <= sz
  BY <1>1, FetchInside, ArgAddrFacts DEF argint
<1>3. a \in Uints /\ ArgAddr(n) <= a /\ a < ArgAddr(n) + Word
  BY <1>1 DEF Bytes
<1> QED
  BY <1>2, <1>3, ArgAddrFacts, TypeFacts, UintFacts, ConstantFacts DEF Bytes

(* A block argptr accepts lies below sz: its size is no negative number,   *)
(* so the sum that is tested has not wrapped.                              *)
LEMMA BlockInside ==
  ASSUME TypeOK, NEW p \in Uints, NEW size \in Uints, NEW n, argptr(n, p, size)
  PROVE  Bytes(p, p + size) \subseteq Bytes(0, sz)
<1>1. p < sz /\ Plus(p, size) <= sz /\ Signed(size) >= 0
  BY DEF argptr
<1>2. size \in Int /\ 0 <= size /\ size < Half /\ p \in Int /\ 0 <= p
  BY <1>1, UintFacts, ConstantFacts DEF Signed
<1>3. p + size <= sz
  <2>1. p + size < Limit
    BY <1>1, <1>2, TypeFacts, ConstantFacts
  <2>2. p < Limit /\ size < Limit
    BY UintFacts
  <2>3. Plus(p, size) = p + size
    BY <1>2, <2>1, <2>2, PlusFacts
  <2> QED BY <1>1, <2>3
<1> QED
  BY <1>3, UintFacts, TypeFacts DEF Bytes

(* The string fetchstr looks through ends below sz. *)
LEMMA ScanInside ==
  ASSUME TypeOK, NEW p \in Uints, NEW nul \in Uints
  PROVE  Scanned(p, nul) \subseteq Bytes(0, sz)
<1>1. CASE fetchstr(p, nul)
  BY <1>1, UintFacts, TypeFacts DEF Scanned, Bytes, fetchstr
<1>2. CASE ~fetchstr(p, nul)
  BY <1>2, UintFacts, TypeFacts DEF Scanned, Bytes
<1> QED
  BY <1>1, <1>2

(* Whatever a call reads or hands on lies below sz. *)
LEMMA TouchedInside ==
  ASSUME TypeOK, Next
  PROVE  touched' \subseteq Bytes(0, sz) \/ UNCHANGED vars
<1>0. /\ Args({0}) \subseteq Bytes(0, sz) /\ Args({0} \cup {1}) \subseteq Bytes(0, sz)
      /\ Args({0, 2} \cup {1}) \subseteq Bytes(0, sz)
  BY ArgsInside
<1>1. CASE MoveStack \/ Unknown \/ Plain \/ Fork \/ SysExit
  BY <1>1 DEF MoveStack, Unknown, Plain, Fork, SysExit, Returns
<1>2. CASE IntCall \/ Exec
  BY <1>0, <1>2 DEF IntCall, Exec, Returns
<1>3. ASSUME NEW S, NEW p \in Uints, NEW size \in Uints, BlockCall(S, p, size),
             Args(S \cup {1}) \subseteq Bytes(0, sz)
      PROVE  touched' \subseteq Bytes(0, sz)
  BY <1>3, BlockInside DEF BlockCall, Returns
<1>4. CASE Stat
  <2>1. StatSize \in Uints
    BY ConstantFacts, UintFacts
  <2> QED BY <1>0, <1>3, <1>4, <2>1 DEF Stat
<1>5. CASE ReadWrite
  BY <1>0, <1>3, <1>5 DEF ReadWrite
<1>6. CASE PathCall
  <2>1. CASE argint(0)
    <3>1. PICK p \in Uints, nul \in Uints :
            \/ touched' = Args({0}) \cup Scanned(p, nul)
            \/ touched' = Args({0})
      BY <1>6, <2>1 DEF PathCall, Returns
    <3> QED BY <1>0, <3>1, ScanInside
  <2>2. CASE ~argint(0)
    BY <1>6, <2>2 DEF PathCall, Returns
  <2> QED BY <2>1, <2>2
<1>7. ASSUME NEW n \in Uints, Sbrk(n) PROVE touched' \subseteq Bytes(0, sz)
  BY <1>0, <1>7 DEF Sbrk, Returns
<1>8. CASE Exited
  BY <1>8 DEF Exited
<1> QED
  BY <1>1, <1>2, <1>4, <1>5, <1>6, <1>7, <1>8 DEF Next

------------------------------------------------------------------------------
(* The end of the memory *)

(* Rounding up zero, the bytes of no page. *)
LEMMA BytesJoin ==
  ASSUME NEW a \in Nat, NEW b \in Nat, a <= b
  PROVE  /\ Bytes(0, a) \cup Bytes(a, b) = Bytes(0, b)
         /\ Bytes(0, b) \ Bytes(a, b) = Bytes(0, a)
  BY UintFacts DEF Bytes

(* What growproc leaves: a size within the user's addresses, and memory    *)
(* behind all of it; the number of bytes asked for, or what it had.        *)
LEMMA GrowprocFacts ==
  ASSUME IInv, NEW n \in Uints, NEW r \in growproc(n)
  PROVE  /\ r.ok \in BOOLEAN /\ r.lost \in BOOLEAN
         /\ r.sz \in Nat /\ 0 < r.sz /\ r.sz <= KERNBASE
         /\ r.mapped \subseteq Uints
         /\ ~r.lost => r.mapped = Bytes(0, PGROUNDUP(r.sz))
         /\ r.ok => r.sz = sz + Signed(n) \/ Signed(n) < -sz
         /\ ~r.ok => (r.sz = sz /\ r.mapped = mapped) \/ Signed(n) = -sz
<1>0. /\ TypeOK /\ Whole /\ lost \in BOOLEAN /\ mapped \subseteq Uints
      /\ n \in Int /\ 0 <= n /\ n < Limit
  BY UintFacts DEF IInv, TypeOK
<1>1. CASE r \in {Unchanged(TRUE)} /\ n = 0
  <2>1. /\ r.ok = TRUE /\ r.sz = sz /\ r.mapped = mapped /\ r.lost = lost
    BY <1>1 DEF Unchanged, Outcome
  <2>2. Signed(n) = 0
    BY <1>1, ConstantFacts DEF Signed
  <2>3. r.sz = sz + Signed(n)
    BY <1>0, <2>1, <2>2, TypeFacts
  <2> QED BY <1>0, <2>1, <2>3, TypeFacts DEF Whole
<1>2. CASE Signed(n) > 0 /\ r \in Allocated(Plus(sz, n))
  <2>1. n < Half /\ Signed(n) = n /\ n > 0
    BY <1>0, <1>2, ConstantFacts DEF Signed
  <2>2. Plus(sz, n) = sz + n
    BY <1>0, <2>1, TypeFacts, PlusFacts, ConstantFacts
  <2>3. CASE r = Unchanged(FALSE)
    BY <1>0, <2>3, TypeFacts DEF Unchanged, Outcome, Whole
  <2>4. CASE /\ sz + n < KERNBASE
             /\ r = Outcome(TRUE, sz + n,
                       mapped \cup Bytes(PGROUNDUP(sz), PGROUNDUP(sz + n)), lost)
    <3>1. sz + n \in Nat /\ sz \in Nat /\ sz <= sz + n
      BY <1>0, <2>1, TypeFacts
    <3>2. PGROUNDUP(sz) \in Nat /\ PGROUNDUP(sz + n) \in Nat
          /\ PGROUNDUP(sz) <= PGROUNDUP(sz + n)
      BY <3>1, RoundUpFacts, RoundUpMonotone
    <3>3. Bytes(0, PGROUNDUP(sz)) \cup Bytes(PGROUNDUP(sz), PGROUNDUP(sz + n))
            = Bytes(0, PGROUNDUP(sz + n))
      BY <3>2, BytesJoin
    <3>4. r.mapped \subseteq Uints
      BY <1>0, <2>4 DEF Outcome, Bytes
    <3>5. ~r.lost => r.mapped = Bytes(0, PGROUNDUP(r.sz))
      BY <1>0, <2>4, <3>3 DEF Outcome, Whole
    <3> QED BY <1>0, <2>1, <2>4, <3>1, <3>4, <3>5, TypeFacts, ConstantFacts DEF Outcome
  <2>5. \/ r = Unchanged(FALSE)
        \/ /\ ~(sz + n >= KERNBASE)
           /\ r = Outcome(TRUE, sz + n,
                    mapped \cup Bytes(PGROUNDUP(sz), PGROUNDUP(sz + n)), lost)
    BY <1>2, <2>2 DEF Allocated
  <2>6. ~(sz + n >= KERNBASE) => sz + n < KERNBASE
    BY <1>0, TypeFacts, ConstantFacts
  <2> QED
    BY <2>3, <2>4, <2>5, <2>6
<1>3. CASE Signed(n) < 0 /\ r = Deallocated(Plus(sz, n))
  <2>1. n >= Half /\ Signed(n) = n - Limit
    BY <1>0, <1>3, ConstantFacts DEF Signed
  <2>2. /\ sz + n < Limit => Plus(sz, n) = sz + n
        /\ sz + n >= Limit => Plus(sz, n) = sz + n - Limit
    BY <1>0, TypeFacts, ConstantFacts DEF Plus
  <2>3. CASE sz + n < Limit
    (* More is to be given back than there is: deallocuvm does nothing. *)
    <3>1. Plus(sz, n) = sz + n /\ sz + n >= sz
      BY <1>0, <2>2, <2>3, TypeFacts
    <3>2. r = Unchanged(TRUE)
      BY <1>3, <3>1 DEF Deallocated
    <3>3. Signed(n) < -sz
      BY <1>0, <2>1, <2>3, TypeFacts, ConstantFacts
    <3> QED BY <1>0, <3>2, <3>3, TypeFacts DEF Unchanged, Outcome, Whole
  <2>4. CASE sz + n >= Limit
    <3> DEFINE new == sz + n - Limit
    <3>1. new \in Nat /\ new < sz /\ Plus(sz, n) = new
      BY <1>0, <2>2, <2>4, TypeFacts, ConstantFacts
    <3>2. r = Outcome(new # 0, IF new = 0 THEN sz ELSE new,
                 mapped \ Bytes(PGROUNDUP(new), PGROUNDUP(sz)), lost \/ new = 0)
      <4>1. ~(new >= sz)
        BY <1>0, <3>1, TypeFacts
      <4> HIDE DEF new
      <4> QED BY <1>3, <3>1, <4>1 DEF Deallocated
    <3>3. Bytes(0, PGROUNDUP(sz)) \ Bytes(PGROUNDUP(new), PGROUNDUP(sz))
            = Bytes(0, PGROUNDUP(new))
      <4>1. sz \in Nat /\ new <= sz
        BY <1>0, <3>1, TypeFacts
      <4> HIDE DEF new
      <4> QED BY <3>1, <4>1, RoundUpFacts, RoundUpMonotone, BytesJoin
    <3>4. Signed(n) = new - sz
      BY <1>0, <2>1, TypeFacts, ConstantFacts
    <3> HIDE DEF new
    <3>5. /\ r.ok = (new # 0) /\ r.sz = (IF new = 0 THEN sz ELSE new)
          /\ r.mapped = mapped \ Bytes(PGROUNDUP(new), PGROUNDUP(sz))
          /\ r.lost = (lost \/ new = 0)
      BY <3>2 DEF Outcome
    <3>6. r.mapped \subseteq Uints /\ (r.ok <=> new # 0)
      BY <1>0, <3>5
    <3>7. ~r.lost => r.mapped = Bytes(0, PGROUNDUP(r.sz))
      BY <1>0, <3>3, <3>5 DEF Whole
    <3>8. r.sz \in Nat /\ 0 < r.sz /\ r.sz <= KERNBASE
      BY <1>0, <3>1, <3>5, TypeFacts, ConstantFacts
    <3>9. r.ok \in BOOLEAN /\ r.lost \in BOOLEAN
      BY <1>0, <3>5
    <3>10. r.ok => r.sz = sz + Signed(n)
      <4>1. new = sz + Signed(n)
        BY <1>0, <3>1, <3>4, TypeFacts
      <4> QED BY <3>5, <3>6, <4>1
    <3>11. ~r.ok => Signed(n) = -sz
      <4>1. new = 0 => Signed(n) = -sz
        BY <1>0, <3>4, TypeFacts
      <4> QED BY <3>6, <4>1
    <3> QED BY <3>6, <3>7, <3>8, <3>9, <3>10, <3>11
  <2> QED
    BY <1>0, <2>3, <2>4, TypeFacts, ConstantFacts
<1> QED
  <2>1. \/ Signed(n) > 0 /\ r \in Allocated(Plus(sz, n))
        \/ Signed(n) < 0 /\ r \in {Deallocated(Plus(sz, n))}
        \/ n = 0 /\ r \in {Unchanged(TRUE)}
    <3>1. Signed(n) > 0 \/ Signed(n) < 0 \/ n = 0
      BY <1>0, ConstantFacts DEF Signed
    <3>2. n = 0 => Signed(n) = 0
      BY ConstantFacts DEF Signed
    <3>3. Signed(n) \in Int
      BY <1>0, ConstantFacts DEF Signed
    <3> QED BY <3>1, <3>2, <3>3 DEF growproc
  <2> QED BY <2>1, <1>1, <1>2, <1>3

------------------------------------------------------------------------------
(* The invariant *)

(* userinit's page. *)
LEMMA InitIInv == Init => IInv
<1> SUFFICES ASSUME Init PROVE IInv
  OBVIOUS
<1>1. PGROUNDUP(PageSize) = PageSize
  BY ConstantFacts DEF PGROUNDUP
<1>2. PageSize \in Uints /\ 0 \in Uints /\ PageSize \in 1 .. KERNBASE
  BY ConstantFacts, UintFacts
<1>3. Bytes(0, PageSize) \subseteq Uints
  BY DEF Bytes
<1> QED
  BY <1>1, <1>2, <1>3 DEF Init, IInv, TypeOK, Whole

(* A call that leaves the memory as it is keeps the invariant. *)
LEMMA KeepsIInv ==
  ASSUME IInv, NoMemoryChange, esp' \in Uints, eax' \in Uints,
         touched' \subseteq Uints, state' \in {"user", "exited"}
  PROVE  IInv'
  BY DEF IInv, TypeOK, Whole, NoMemoryChange

(* Every step keeps the invariant. *)
LEMMA NextIInv == IInv /\ [Next]_vars => IInv'
<1> SUFFICES ASSUME IInv, [Next]_vars PROVE IInv'
  OBVIOUS
<1>0. /\ TypeOK /\ Whole /\ esp \in Uints /\ eax \in Uints
      /\ touched \subseteq Uints /\ state \in {"user", "exited"}
      /\ 0 \in Uints /\ MinusOne \in Uints /\ sz \in Uints
  BY TypeFacts, ConstantFacts, UintFacts DEF IInv, TypeOK
<1>1. CASE UNCHANGED vars
  BY <1>1 DEF IInv, TypeOK, Whole, vars
<1>2. ASSUME Next, ~UNCHANGED vars PROVE touched' \subseteq Uints
  BY <1>0, <1>2, TouchedInside DEF Bytes
<1>3. CASE Next /\ ~UNCHANGED vars
  <2>1. CASE MoveStack \/ Unknown \/ Plain \/ Fork \/ SysExit
    <3>1. /\ NoMemoryChange /\ esp' \in Uints /\ eax' \in Uints
          /\ state' \in {"user", "exited"}
      BY <1>0, <2>1
      DEF MoveStack, Unknown, Plain, Fork, SysExit, Returns, NoMemoryChange
    <3> QED BY <1>2, <1>3, <3>1, KeepsIInv
  <2>2. CASE IntCall \/ Stat \/ ReadWrite \/ PathCall
    <3>1. /\ NoMemoryChange /\ esp' = esp /\ eax' \in Uints /\ state' = state
      BY <1>0, <2>2
      DEF IntCall, Stat, ReadWrite, BlockCall, PathCall, Returns
    <3> QED BY <1>0, <1>2, <1>3, <3>1, KeepsIInv
  <2>3. CASE Exec
    <3>1. /\ sz' \in Uints /\ 0 < sz' /\ sz' < KERNBASE /\ PGROUNDUP(sz') = sz'
          /\ mapped' = Bytes(0, sz')
      BY <2>3 DEF Exec
    <3>2. esp' \in Uints /\ lost' = FALSE /\ eax' = 0 /\ state' = "user"
      BY <2>3 DEF Exec, Bytes
    <3>3. sz' \in 1 .. KERNBASE
      BY <3>1, UintFacts, ConstantFacts
    <3>4. mapped' \subseteq Uints
      BY <3>1 DEF Bytes
    <3> QED BY <1>0, <1>2, <1>3, <3>1, <3>2, <3>3, <3>4 DEF IInv, TypeOK, Whole
  <2>4. ASSUME NEW n \in Uints, Sbrk(n) PROVE IInv'
    <3>1. CASE argint(0)
      <4>1. PICK r \in growproc(n) :
              /\ Returns(IF r.ok THEN sz ELSE MinusOne, Args({0}))
              /\ sz' = r.sz /\ mapped' = r.mapped /\ lost' = r.lost
        BY <2>4, <3>1 DEF Sbrk
      <4>2. esp' = esp /\ eax' \in Uints /\ state' = state
        BY <1>0, <4>1 DEF Returns
      <4>3. sz' \in 1 .. KERNBASE
        BY <4>1, GrowprocFacts, ConstantFacts
      <4>4. /\ lost' \in BOOLEAN /\ mapped' \subseteq Uints
            /\ ~lost' => mapped' = Bytes(0, PGROUNDUP(sz'))
        BY <4>1, GrowprocFacts
      <4> QED
        BY <1>0, <1>2, <1>3, <4>2, <4>3, <4>4 DEF IInv, TypeOK, Whole
    <3>2. CASE ~argint(0)
      <4>1. NoMemoryChange /\ esp' = esp /\ eax' = MinusOne /\ state' = state
        BY <2>4, <3>2 DEF Sbrk, Returns
      <4> QED BY <1>0, <1>2, <1>3, <4>1, KeepsIInv
    <3> QED BY <3>1, <3>2
  <2> QED
    BY <1>3, <2>1, <2>2, <2>3, <2>4 DEF Next, Exited
<1> QED
  BY <1>1, <1>3

(* The invariant is one. *)
LEMMA IInvCorrect == Spec => []IInv
  BY InitIInv, NextIInv, PTL DEF Spec

(* The fields of the process keep their types, for any width, page size    *)
(* and KERNBASE.                                                           *)
THEOREM TypeCorrect == Spec => []TypeOK
<1>1. IInv => TypeOK
  BY DEF IInv
<1> QED
  BY <1>1, IInvCorrect, PTL

(* The kernel reads and hands on only memory the process has, unless that  *)
(* gave up all of it.                                                      *)
THEOREM ReadsCorrect == Spec => KernelStaysInside
<1>1. ASSUME IInv, Next, ~lost PROVE touched' \subseteq mapped \/ UNCHANGED vars
  <2>1. TypeOK /\ mapped = Bytes(0, PGROUNDUP(sz))
    BY <1>1 DEF IInv, Whole
  <2>2. Bytes(0, sz) \subseteq Bytes(0, PGROUNDUP(sz))
    BY <2>1, TypeFacts, RoundUpFacts, UintFacts DEF Bytes
  <2> QED BY <1>1, <2>1, <2>2, TouchedInside
<1>2. IInv /\ [Next]_vars => [~lost => touched' \subseteq mapped]_vars
  BY <1>1
<1> QED
  BY <1>2, IInvCorrect, PTL DEF Spec, KernelStaysInside

(* sbrk moves the end of the memory by n or fails, and keeps memory behind *)
(* all of it.                                                              *)
THEOREM SbrkCorrect == Spec => SbrkMovesTheEnd
<1> DEFINE Moves(n) ==
      /\ IF eax' = MinusOne
         THEN UNCHANGED <<sz, mapped>> \/ Signed(n) = -sz
         ELSE eax' = sz /\ (sz' = sz + Signed(n) \/ Signed(n) < -sz)
      /\ ~lost' => mapped' = Bytes(0, PGROUNDUP(sz'))
<1>1. ASSUME IInv, NEW n \in Uints, Sbrk(n), IInv' PROVE Moves(n)
  <2>1. ~lost' => mapped' = Bytes(0, PGROUNDUP(sz'))
    BY <1>1 DEF IInv, Whole
  <2>2. CASE argint(0)
    <3>1. PICK r \in growproc(n) :
            /\ Returns(IF r.ok THEN sz ELSE MinusOne, Args({0}))
            /\ sz' = r.sz /\ mapped' = r.mapped /\ lost' = r.lost
      BY <1>1, <2>2 DEF Sbrk
    <3>2. eax' = IF r.ok THEN sz ELSE MinusOne
      BY <3>1 DEF Returns
    <3>3. sz # MinusOne
      BY <1>1, TypeFacts, ConstantFacts DEF IInv
    <3>4. CASE r.ok
      BY <1>1, <2>1, <3>1, <3>2, <3>3, <3>4, GrowprocFacts
    <3>5. CASE ~r.ok
      BY <1>1, <2>1, <3>1, <3>2, <3>5, GrowprocFacts
    <3> QED BY <3>4, <3>5
  <2>3. CASE ~argint(0)
    BY <1>1, <2>1, <2>3 DEF Sbrk, Returns, NoMemoryChange
  <2> QED BY <2>2, <2>3
<1>2. IInv /\ IInv' /\ [Next]_vars =>
        [\A n \in Uints : Sbrk(n) => Moves(n)]_vars
  BY <1>1
<1> QED
  BY <1>2, IInvCorrect, PTL DEF Spec, SbrkMovesTheEnd
=============================================================================
