------------------------------- MODULE SysCalls -------------------------------
(***************************************************************************)
(* HW4: how a system call reaches the kernel (syscall.c, sysproc.c): the   *)
(* dispatch by the number in eax, the arguments the kernel fetches from    *)
(* the memory of the process, and sbrk (growproc in proc.c), which changes *)
(* that memory.  One process, which may put any number into any register   *)
(* and any word of its memory before it calls; what the calls do besides   *)
(* is in ProcTable, Ps and FSCalls.  Addresses are unsigned and wrap.      *)
(***************************************************************************)
EXTENDS Integers

CONSTANTS
  Half,       \* 2^31: half the unsigned numbers
  KERNBASE,   \* where the kernel's part of the addresses begins
  PageSize,
  Word,       \* the bytes of an int
  StatSize    \* sizeof(struct stat)

ASSUME SysCallsAssumption ==
  /\ {Half, KERNBASE, PageSize, Word, StatSize} \subseteq Nat \ {0}
  /\ PageSize <= KERNBASE /\ KERNBASE <= Half
  /\ 4 * Word <= Half /\ StatSize < Half

VARIABLES
  sz,        \* proc->sz
  mapped,    \* the user addresses that have memory behind them
  esp,       \* tf->esp
  eax,       \* tf->eax, after a call
  touched,   \* the blocks of user memory the last call read or handed on
  lost,      \* history: growproc has freed every page and failed
  state      \* "user", or "exited"

vars == <<sz, mapped, esp, eax, touched, lost, state>>

Limit == 2 * Half
Uints == 0 .. Limit - 1

Plus(a, b) == IF a + b < Limit THEN a + b ELSE a + b - Limit

(* An unsigned number read as an int.                                      *)
Signed(n) == IF n < Half THEN n ELSE n - Limit

MinusOne == Limit - 1

PGROUNDUP(a) == a + ((PageSize - (a % PageSize)) % PageSize)

Bytes(from, to) == {a \in Uints : from <= a /\ a < to}

(* userinit: one page, the stack at its end.                               *)
Init ==
  /\ sz = PageSize
  /\ mapped = Bytes(0, PageSize)
  /\ esp = PageSize
  /\ eax = 0
  /\ touched = {}
  /\ lost = FALSE
  /\ state = "user"

------------------------------------------------------------------------------
(* Fetching arguments: whether it succeeds *)

(* Mutant: only the end of the word is tested. *)
fetchint_EndOnly(addr) == Plus(addr, Word) <= sz

fetchint(addr) == addr < sz /\ Plus(addr, Word) <= sz

ArgAddr(n) == Plus(esp, Word + Word * n)

argint(n) == fetchint(ArgAddr(n))

argptr(n, p, size) ==
  argint(n) /\ Signed(size) >= 0 /\ p < sz /\ Plus(p, size) <= sz

(* The words argint reads for the arguments in S, of those it can read.    *)
Args(S) == UNION {Bytes(ArgAddr(n), ArgAddr(n) + Word) : n \in {k \in S : argint(k)}}

(* fetchstr: up to the nul, wherever the program has put it, or to the end *)
(* of its memory.                                                          *)
fetchstr(p, nul) == p < sz /\ p <= nul /\ nul < sz

Scanned(p, nul) == Bytes(p, IF fetchstr(p, nul) THEN nul + 1 ELSE sz)

------------------------------------------------------------------------------
(* The dispatcher gives eax what the handler returns *)

Returns(v, read) ==
  /\ state = "user"
  /\ eax' = v
  /\ touched' = read
  /\ UNCHANGED <<esp, state>>

NoMemoryChange == UNCHANGED <<sz, mapped, lost>>

(* The program moves its stack pointer, anywhere.                          *)
MoveStack ==
  /\ state = "user"
  /\ esp' \in Uints
  /\ touched' = {}
  /\ UNCHANGED <<sz, mapped, eax, lost, state>>

(* No handler has this number.                                             *)
Unknown == Returns(MinusOne, {}) /\ NoMemoryChange

(* sys_wait, sys_getpid, sys_uptime, sys_getprio: nothing is fetched.      *)
Plain == (\E v \in {0, MinusOne} : Returns(v, {})) /\ NoMemoryChange

(* sys_fork copies the memory, page by page.                               *)
Fork == (\E v \in {0, MinusOne} : Returns(v, Bytes(0, sz))) /\ NoMemoryChange

SysExit ==
  /\ state = "user"
  /\ state' = "exited"
  /\ touched' = {}
  /\ UNCHANGED <<sz, mapped, esp, eax, lost>>

(* sys_kill, sys_sleep, sys_setprio: one int.                              *)
IntCall ==
  /\ IF argint(0) THEN \E v \in {0, MinusOne} : Returns(v, Args({0}))
                  ELSE Returns(MinusOne, {})
  /\ NoMemoryChange

(* A call that takes the ints in S and a block of size bytes at p.         *)
BlockCall(S, p, size) ==
  /\ IF (\A n \in S : argint(n)) /\ argptr(1, p, size)
     THEN \E v \in {0, MinusOne} :
            Returns(v, Args(S \cup {1}) \cup Bytes(p, p + size))
     ELSE Returns(MinusOne, Args(S \cup {1}))
  /\ NoMemoryChange

(* sys_fstat.                                                              *)
Stat == \E p \in Uints : BlockCall({0}, p, StatSize)

(* sys_read, sys_write: the size is an argument, too.                      *)
ReadWrite == \E p, size \in Uints : BlockCall({0, 2}, p, size)

(* argstr, for the calls that take a path.                                 *)
PathCall ==
  /\ IF argint(0)
     THEN \E p, nul \in Uints :
            IF p < sz
            THEN \E v \in {0, MinusOne} :
                   /\ ~fetchstr(p, nul) => v = MinusOne
                   /\ Returns(v, Args({0}) \cup Scanned(p, nul))
            ELSE Returns(MinusOne, Args({0}))
     ELSE Returns(MinusOne, {})
  /\ NoMemoryChange

(* exec gives the process another memory, of whole pages.                  *)
Exec ==
  /\ argint(0)
  /\ sz' \in {a \in Uints : 0 < a /\ a < KERNBASE /\ PGROUNDUP(a) = a}
  /\ mapped' = Bytes(0, sz')
  /\ esp' \in Bytes(0, sz')
  /\ lost' = FALSE
  /\ eax' = 0 /\ touched' = Args({0})
  /\ state = "user" /\ UNCHANGED state

------------------------------------------------------------------------------
(* sbrk *)

Outcome(ok, s, m, l) == [ok |-> ok, sz |-> s, mapped |-> m, lost |-> l]

Unchanged(ok) == Outcome(ok, sz, mapped, lost)

(* allocuvm: all the new pages, or none.                                   *)
Allocated(newsz) ==
  IF newsz >= KERNBASE THEN {Unchanged(FALSE)}
  ELSE {Unchanged(FALSE),
        Outcome(TRUE, newsz,
                mapped \cup Bytes(PGROUNDUP(sz), PGROUNDUP(newsz)), lost)}

(* deallocuvm returns the new size, and growproc takes 0 for a failure.    *)
Deallocated(newsz) ==
  IF newsz >= sz THEN Unchanged(TRUE)
  ELSE Outcome(newsz # 0, IF newsz = 0 THEN sz ELSE newsz,
               mapped \ Bytes(PGROUNDUP(newsz), PGROUNDUP(sz)),
               lost \/ newsz = 0)

(* Mutant: a negative number is taken for a large one. *)
growproc_Unsigned(n) == IF n = 0 THEN {Unchanged(TRUE)} ELSE Allocated(Plus(sz, n))

growproc(n) ==
  CASE Signed(n) > 0 -> Allocated(Plus(sz, n))
    [] Signed(n) < 0 -> {Deallocated(Plus(sz, n))}
    [] n = 0         -> {Unchanged(TRUE)}

Sbrk(n) ==
  IF argint(0)
  THEN \E r \in growproc(n) :
         /\ Returns(IF r.ok THEN sz ELSE MinusOne, Args({0}))
         /\ sz' = r.sz /\ mapped' = r.mapped /\ lost' = r.lost
  ELSE Returns(MinusOne, {}) /\ NoMemoryChange

Exited == state = "exited" /\ UNCHANGED vars

Next ==
  \/ MoveStack
  \/ Unknown \/ Plain \/ Fork \/ SysExit \/ IntCall
  \/ Stat \/ ReadWrite \/ PathCall \/ Exec
  \/ \E n \in Uints : Sbrk(n)
  \/ Exited

Spec == Init /\ [][Next]_vars

------------------------------------------------------------------------------
(* The fields of the process, as the calls leave them.                     *)
TypeOK ==
  /\ sz \in 1 .. KERNBASE
  /\ mapped \subseteq Uints
  /\ esp \in Uints /\ eax \in Uints
  /\ touched \subseteq Uints
  /\ lost \in BOOLEAN
  /\ state \in {"user", "exited"}

(* Every byte that a system call reads, or hands on as a buffer, has       *)
(* memory behind it, wherever esp and the pointers point, whatever sizes   *)
(* are asked for and however sums wrap; a process that gave up all its     *)
(* memory (sbrk of -sz, which growproc takes for a failure) is left out.   *)
(* "Check that the pointer lies within the process address space"          *)
(* (syscall.c:56).                                                         *)
KernelStaysInside == [][~lost => touched' \subseteq mapped]_vars

(* sbrk that succeeds returns the old end of the memory and moves it by n, *)
(* unless the process has less than that to give back; one that fails has  *)
(* changed nothing, unless n was -sz.  Memory is there up to the end, and  *)
(* to the end of its page, as long as that one does not happen.            *)
(* "Grow current process's memory by n bytes. Return 0 on success, -1 on   *)
(* failure." (proc.c:157).                                                 *)
SbrkMovesTheEnd ==
  [][\A n \in Uints : Sbrk(n) =>
       /\ IF eax' = MinusOne
          THEN UNCHANGED <<sz, mapped>> \/ Signed(n) = -sz
          ELSE eax' = sz /\ (sz' = sz + Signed(n) \/ Signed(n) < -sz)
       /\ ~lost' => mapped' = Bytes(0, PGROUNDUP(sz'))]_vars
=============================================================================
