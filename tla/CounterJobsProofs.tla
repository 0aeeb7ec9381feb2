------------------------- MODULE CounterJobsProofs -------------------------
(***************************************************************************)
(* The mutex of a counter protects the read-modify-write on its file, for  *)
(* any set of workers, any lines, and however strtok mixes them up.  A     *)
(* worker that cut its line while no other did executes that line, and the *)
(* file ends up holding what all the workers did, mixed up or not.         *)
(***************************************************************************)
EXTENDS CounterJobs, SequenceTheorems, FiniteSetTheorems, WellFoundedInduction, TLAPS

(* A worker past the lock holds the mutex, so it is alone there.           *)
Holding ==
  /\ call \in [Workers -> {"idle", "read", "write", "unlock"}]
  /\ count = [w \in Workers |-> count[w]]
  /\ \A w \in Workers : call[w] # "idle" => mutex = {w}

(* What every step inside increment and decrement preserves.              *)
IInv == Holding /\ CountIsFresh

(* The invariant holds at the start. *)
LEMMA InitIInv == JobsInit => IInv
  BY DEF JobsInit, File!Init, IInv, Holding, CountIsFresh, File!CountIsFresh

(* A step inside increment or decrement preserves it. *)
LEMMA FileStepIInv ==
  ASSUME NEW w \in Workers, IInv, FileStep(w)
  PROVE  IInv'
<1> USE DEF IInv, Holding, CountIsFresh, File!CountIsFresh
<1>1. CASE File!Lock(w)
  <2>1. \A v \in Workers : call[v] = "idle"
    BY <1>1 DEF File!Lock
  <2> QED BY <1>1, <2>1 DEF File!Lock
<1>2. CASE File!ReadCount(w)
  BY <1>2 DEF File!ReadCount
<1>3. CASE File!WriteCount(w)
  (* The writer holds the mutex: no other worker is about to write. *)
  <2>1. \A v \in Workers : v # w => call[v] = "idle"
    BY <1>3 DEF File!WriteCount
  <2> QED BY <1>3, <2>1 DEF File!WriteCount
<1>4. CASE File!Unlock(w)
  <2>1. \A v \in Workers : v # w => call[v] = "idle"
    BY <1>4 DEF File!Unlock
  <2> QED BY <1>4, <2>1 DEF File!Unlock
<1> QED
  BY <1>1, <1>2, <1>3, <1>4 DEF FileStep, File!Worker

(* Every step preserves it: run_job itself touches no counter.             *)
LEMMA NextIInv == IInv /\ [JobsNext]_allVars => IInv'
<1> SUFFICES ASSUME IInv, [JobsNext]_allVars PROVE IInv'
  OBVIOUS
<1>1. ASSUME NEW w \in Workers, JobStep(w) PROVE IInv'
  BY <1>1 DEF JobStep, IInv, Holding, CountIsFresh, File!CountIsFresh
<1>2. ASSUME NEW w \in Workers, FileStep(w) PROVE IInv'
  BY <1>2, FileStepIInv
<1>3. CASE UNCHANGED allVars
  BY <1>3 DEF IInv, Holding, CountIsFresh, File!CountIsFresh, allVars, fileVars
<1> QED
  BY <1>1, <1>2, <1>3 DEF JobsNext, Over

(* Between a worker's fscanf and its fprintf nobody changes the file, for  *)
(* any lines, counters that go up and down as well.                        *)
THEOREM CountStaysFresh == JobsSpec => []CountIsFresh
  BY InitIInv, NextIInv, PTL DEF JobsSpec, IInv

(* Every non-empty set of naturals has a least element. *)
LEMMA LeastNat ==
  ASSUME NEW S \in SUBSET Nat, S # {}
  PROVE  \E x \in S : \A y \in S : x <= y
<1> DEFINE R == OpToRel(<, Nat)
<1>1. IsWellFoundedOn(R, Nat)
  BY NatLessThanWellFounded
<1>2. \A x, y \in Nat : <<y, x>> \in R <=> y < x
  BY DEF OpToRel
<1> HIDE DEF R
<1>3. PICK x \in S : \A y \in S : ~(<<y, x>> \in R)
  BY <1>1, WFMin
<1>4. \A y \in S : x \in Nat /\ y \in Nat /\ ~(y < x)
  BY <1>2, <1>3
<1> QED BY <1>3, <1>4

(* Induction over the naturals, of a set instead of a predicate. *)
LEMMA Induction ==
  ASSUME NEW S, 0 \in S, \A n \in Nat : n \in S => n + 1 \in S
  PROVE  Nat \subseteq S
<1> SUFFICES ASSUME Nat \ S # {} PROVE FALSE
  OBVIOUS
<1>1. PICK x \in Nat \ S : \A y \in Nat \ S : x <= y
  BY LeastNat
<1>2. x # 0 /\ x - 1 \in Nat /\ (x - 1) + 1 = x /\ ~(x <= x - 1)
  BY <1>1
<1> QED BY <1>1, <1>2

(* A recursive definition on D, with values in V: it ends in Z, and goes   *)
(* from elsewhere to an argument that measures less.                       *)
Descends(D, V, mu, next, Z, c, B) ==
  /\ mu \in [D -> Nat] /\ next \in [D -> D] /\ Z \subseteq D
  /\ c \in [D -> V] /\ B \in [D -> [V -> V]]
  /\ \A d \in D \ Z : mu[next[d]] < mu[d]

(* Such a definition has a solution. *)
LEMMA Recursion ==
  ASSUME NEW D, NEW V, NEW mu, NEW next, NEW Z, NEW c, NEW B, Descends(D, V, mu, next, Z, c, B)
  PROVE  \E F \in [D -> V] : \A d \in D : F[d] = IF d \in Z THEN c[d] ELSE B[d][F[next[d]]]
<1> USE DEF Descends
<1> DEFINE Fits(n, g) == \A d \in D : mu[d] < n =>
             g[d] = IF d \in Z THEN c[d] ELSE B[d][g[next[d]]]
           S == {n \in Nat : \E g \in [D -> V] : Fits(n, g)}
           h(n) == CHOOSE g \in [D -> V] : Fits(n, g)
           F == [d \in D |-> h(mu[d] + 1)[d]]
<1>1. Nat \subseteq S
  <2>1. 0 \in S
    <3>1. Fits(0, c)
      OBVIOUS
    <3> QED BY <3>1
  <2>2. ASSUME NEW n \in Nat, n \in S PROVE n + 1 \in S
    <3>1. PICK g \in [D -> V] : Fits(n, g)
      BY <2>2
    <3> DEFINE k == [d \in D |-> IF d \in Z THEN c[d] ELSE B[d][g[next[d]]]]
    <3>2. k \in [D -> V]
      OBVIOUS
    <3>3. ASSUME NEW d \in D, mu[d] < n + 1
          PROVE  k[d] = IF d \in Z THEN c[d] ELSE B[d][k[next[d]]]
      <4>1. CASE d \in Z
        BY <4>1
      <4>2. CASE d \notin Z
        <5>1. next[d] \in D /\ mu[next[d]] < n
          <6>1. next[d] \in D /\ mu[d] \in Nat /\ mu[next[d]] \in Nat
            OBVIOUS
          <6> QED BY <3>3, <4>2, <6>1
        <5>2. k[next[d]] = g[next[d]]
          BY <3>1, <5>1
        <5> QED BY <4>2, <5>2
      <4> QED BY <4>1, <4>2
    <3> HIDE DEF k
    <3>4. Fits(n + 1, k)
      BY <3>3
    <3> QED BY <3>2, <3>4
  <2> HIDE DEF S
  <2> QED BY <2>1, <2>2, Induction
<1>2. \A n \in Nat : h(n) \in [D -> V] /\ Fits(n, h(n))
  BY <1>1
<1>3. ASSUME NEW m \in Nat, NEW n \in Nat, NEW e \in D, mu[e] < m, mu[e] < n
      PROVE  h(m)[e] = h(n)[e]
  <2> DEFINE G == h(m)
             H == h(n)
             Bad == {d \in D : mu[d] < m /\ mu[d] < n /\ G[d] # H[d]}
             T == {mu[d] : d \in Bad}
  <2>1. Fits(m, G) /\ Fits(n, H)
    BY <1>2
  <2> HIDE DEF h, G, H
  <2> SUFFICES ASSUME T # {} PROVE FALSE
    BY <1>3 DEF G, H
  <2>2. T \in SUBSET Nat
    OBVIOUS
  <2> HIDE DEF T
  <2>3. PICK x \in T : \A y \in T : x <= y
    BY <2>2, LeastNat
  <2>4. PICK d \in Bad : x = mu[d]
    BY <2>3 DEF T
  <2>5. d \notin Z
    BY <2>1, <2>4
  <2>6. next[d] \in D /\ mu[next[d]] < mu[d] /\ mu[d] \in Nat /\ mu[next[d]] \in Nat
    BY <2>4, <2>5
  <2>7. mu[next[d]] \notin T
    BY <2>3, <2>4, <2>6
  <2>8. next[d] \notin Bad
    BY <2>7 DEF T
  <2>9. G[next[d]] = H[next[d]]
    BY <2>4, <2>6, <2>8
  <2> QED BY <2>1, <2>4, <2>5, <2>9
<1> HIDE DEF h
<1>4. F \in [D -> V]
  BY <1>2
<1>5. ASSUME NEW d \in D PROVE F[d] = IF d \in Z THEN c[d] ELSE B[d][F[next[d]]]
  <2>1. F[d] = h(mu[d] + 1)[d] /\ mu[d] \in Nat
    OBVIOUS
  <2>2. Fits(mu[d] + 1, h(mu[d] + 1))
    BY <1>2, <2>1
  <2>3. F[d] = IF d \in Z THEN c[d] ELSE B[d][h(mu[d] + 1)[next[d]]]
    BY <2>1, <2>2
  <2>4. ASSUME d \notin Z PROVE h(mu[d] + 1)[next[d]] = F[next[d]]
    <3>1. next[d] \in D /\ mu[next[d]] \in Nat /\ mu[next[d]] < mu[d]
      BY <2>4
    <3>2. h(mu[d] + 1)[next[d]] = h(mu[next[d]] + 1)[next[d]]
      BY <1>3, <2>1, <3>1
    <3> QED BY <3>1, <3>2
  <2> QED BY <2>3, <2>4
<1> QED BY <1>4, <1>5

------------------------------------------------------------------------------
(* Sequences joined.                                                       *)

(* FlattenSeq joins from left to right. *)
LEMMA FlattenSteps ==
  ASSUME NEW T, NEW s \in Seq(Seq(T))
  PROVE  \E F \in [0 .. Len(s) -> Seq(T)] :
           /\ F[0] = <<>> /\ \A k \in 1 .. Len(s) : F[k] = F[k - 1] \o s[k]
           /\ FlattenSeq(s) = F[Len(s)]
<1> DEFINE n == Len(s)
           V == Seq(T)
           D == 1 .. n
           Z == {1}
           mu == [d \in D |-> d]
           next == [d \in D |-> IF d = 1 THEN 1 ELSE d - 1]
           first == [d \in D |-> s[d]]
           B == [d \in D |-> [v \in V |-> v \o s[d]]]
<1>1. n \in Nat /\ \A d \in D : s[d] \in V
  OBVIOUS
<1>2. CASE n = 0
  <2> DEFINE F == [k \in 0 .. n |-> <<>>]
  <2>1. s = <<>> /\ FlattenSeq(s) = s
    BY <1>2 DEF FlattenSeq
  <2>2. F \in [0 .. n -> V] /\ F[0] = <<>> /\ F[n] = <<>>
    BY <1>2
  <2>3. \A k \in 1 .. n : F[k] = F[k - 1] \o s[k]
    BY <1>2
  <2> HIDE DEF F
  <2> QED BY <2>1, <2>2, <2>3
<1>3. CASE n # 0
  <2> HIDE DEF V, n
  <2>1. Descends(D, V, mu, next, Z, first, B)
    <3>1. mu \in [D -> Nat] /\ Z \subseteq D /\ first \in [D -> V]
      BY <1>1, <1>3
    <3>2. next \in [D -> D] /\ \A d \in D \ Z : mu[next[d]] < mu[d]
      BY <1>1, <1>3
    <3>3. B \in [D -> [V -> V]]
      <4>1. ASSUME NEW d \in D, NEW v \in V PROVE v \o s[d] \in V
        BY <1>1 DEF V
      <4> QED BY <4>1
    <3> HIDE DEF D, Z, mu, next, first, B
    <3> QED BY <3>1, <3>2, <3>3 DEF Descends
  <2> HIDE DEF Z, mu, next, first, B
  <2>2. PICK f \in [D -> V] : \A d \in D : f[d] = IF d \in Z THEN first[d] ELSE B[d][f[next[d]]]
    <3> HIDE DEF D
    <3> QED BY <2>1, Recursion
  <2> DEFINE Unfolds(g) == g = [j \in 1 .. n |-> IF j = 1 THEN s[j] ELSE g[j - 1] \o s[j]]
  <2>3. Unfolds(f)
    <3>1. ASSUME NEW d \in D PROVE f[d] = IF d = 1 THEN s[d] ELSE f[d - 1] \o s[d]
      <4>1. CASE d = 1
        BY <2>2, <4>1 DEF Z, first
      <4>2. CASE d # 1
        <5>1. next[d] = d - 1 /\ d - 1 \in D /\ f[d - 1] \in V /\ f[d] = B[d][f[d - 1]]
          BY <1>1, <2>2, <4>2 DEF next, Z
        <5> QED BY <4>2, <5>1 DEF B
      <4> QED BY <4>1, <4>2
    <3> QED BY <2>2, <3>1
  <2>4. PICK g : Unfolds(g) /\ FlattenSeq(s) = g[n]
    <3>1. \E g : Unfolds(g) /\ FlattenSeq(s) = g[n]
      BY <1>3, <2>3, Zenon DEF FlattenSeq, n
    <3> QED BY <3>1, Zenon
  <2> DEFINE F == [k \in 0 .. n |-> IF k = 0 THEN <<>> ELSE g[k]]
  <2>5. \A d \in D : g[d] = IF d = 1 THEN s[d] ELSE g[d - 1] \o s[d]
    BY <2>4
  <2>6. \A d \in D : g[d] \in V
    <3> DEFINE S == {m \in Nat : m + 1 \in D => g[m + 1] \in V}
    <3>1. 0 \in S
      BY <1>1, <2>5
    <3>2. ASSUME NEW m \in Nat, m \in S PROVE m + 1 \in S
      <4> SUFFICES ASSUME (m + 1) + 1 \in D PROVE g[(m + 1) + 1] \in V
        OBVIOUS
      <4>1. m + 1 \in D /\ (m + 1) + 1 # 1 /\ ((m + 1) + 1) - 1 = m + 1 /\ g[m + 1] \in V
        BY <1>1, <3>2
      <4>2. g[(m + 1) + 1] = g[m + 1] \o s[(m + 1) + 1]
        BY <2>5, <4>1
      <4> QED BY <1>1, <4>1, <4>2 DEF V
    <3> HIDE DEF S
    <3>3. Nat \subseteq S
      BY <3>1, <3>2, Induction
    <3>4. ASSUME NEW d \in D PROVE g[d] \in V
      <4>1. d - 1 \in Nat /\ (d - 1) + 1 = d
        BY <1>1
      <4> QED BY <3>3, <4>1 DEF S
    <3> QED BY <3>4
  <2>7. F \in [0 .. n -> V] /\ F[0] = <<>> /\ F[n] = g[n]
    <3>1. \A k \in 0 .. n : k = 0 \/ k \in D
      BY <1>1
    <3>2. <<>> \in V
      BY DEF V
    <3> QED BY <1>1, <1>3, <2>6, <3>1, <3>2
  <2>8. ASSUME NEW k \in 1 .. n PROVE F[k] = F[k - 1] \o s[k]
    <3>1. CASE k = 1
      <4>1. F[k] = s[k] /\ F[k - 1] = <<>>
        BY <1>1, <2>5, <3>1
      <4>2. \A v \in V : <<>> \o v = v
        BY DEF V
      <4>3. s[k] \in V
        BY <1>1
      <4> QED BY <4>1, <4>2, <4>3
    <3>2. CASE k # 1
      <4>1. k - 1 \in 1 .. n /\ k \in 0 .. n /\ k - 1 \in 0 .. n /\ k # 0 /\ k - 1 # 0
        BY <1>1, <3>2
      <4> QED BY <2>5, <3>2, <4>1
    <3> QED BY <3>1, <3>2
  <2> HIDE DEF F
  <2> QED BY <2>4, <2>7, <2>8 DEF V, n
<1> QED BY <1>2, <1>3

(* One sequence more. *)
LEMMA FlattenAppend ==
  ASSUME NEW T
  PROVE  /\ FlattenSeq(<<>>) = <<>>
         /\ \A s \in Seq(Seq(T)) : FlattenSeq(s) \in Seq(T)
         /\ \A s \in Seq(Seq(T)), t \in Seq(T) : FlattenSeq(Append(s, t)) = FlattenSeq(s) \o t
<1>1. FlattenSeq(<<>>) = <<>>
  BY DEF FlattenSeq
<1>2. ASSUME NEW s \in Seq(Seq(T)) PROVE FlattenSeq(s) \in Seq(T)
  <2>1. PICK F \in [0 .. Len(s) -> Seq(T)] : FlattenSeq(s) = F[Len(s)]
    BY FlattenSteps
  <2>2. Len(s) \in 0 .. Len(s)
    OBVIOUS
  <2> QED BY <2>1, <2>2
<1>3. ASSUME NEW s \in Seq(Seq(T)), NEW t \in Seq(T)
      PROVE  FlattenSeq(Append(s, t)) = FlattenSeq(s) \o t
  <2> DEFINE n == Len(s)
             r == Append(s, t)
             V == Seq(T)
  <2>1. /\ r \in Seq(V) /\ Len(r) = n + 1 /\ n \in Nat /\ r[n + 1] = t
        /\ \A k \in 1 .. n : r[k] = s[k]
    OBVIOUS
  <2> HIDE DEF r, n
  <2>2. PICK F \in [0 .. n -> V] :
          /\ F[0] = <<>> /\ \A k \in 1 .. n : F[k] = F[k - 1] \o s[k]
          /\ FlattenSeq(s) = F[n]
    BY FlattenSteps DEF n
  <2>3. PICK G \in [0 .. n + 1 -> V] :
          /\ G[0] = <<>> /\ \A k \in 1 .. n + 1 : G[k] = G[k - 1] \o r[k]
          /\ FlattenSeq(r) = G[n + 1]
    <3>1. \E G \in [0 .. Len(r) -> Seq(T)] :
            /\ G[0] = <<>> /\ \A k \in 1 .. Len(r) : G[k] = G[k - 1] \o r[k]
            /\ FlattenSeq(r) = G[Len(r)]
      BY <2>1, FlattenSteps
    <3> HIDE DEF V
    <3> QED BY <2>1, <3>1 DEF V
  <2> HIDE DEF V
  <2> DEFINE S == {m \in Nat : m <= n => F[m] = G[m]}
  <2>4. 0 \in S
    BY <2>2, <2>3
  <2>5. ASSUME NEW m \in Nat, m \in S PROVE m + 1 \in S
    <3> SUFFICES ASSUME m + 1 <= n PROVE F[m + 1] = G[m + 1]
      OBVIOUS
    <3>1. m + 1 \in 1 .. n /\ m + 1 \in 1 .. n + 1 /\ (m + 1) - 1 = m /\ m <= n
      <4>1. n \in Nat
        BY <2>1
      <4> QED BY <4>1
    <3>2. F[m] = G[m]
      BY <2>5, <3>1
    <3> QED BY <2>1, <2>2, <2>3, <3>1, <3>2
  <2> HIDE DEF S
  <2>6. F[n] = G[n]
    <3>1. n \in Nat /\ n <= n
      BY <2>1
    <3>2. n \in S
      BY <2>4, <2>5, <3>1, Induction
    <3> QED BY <3>1, <3>2 DEF S
  <2>7. G[n + 1] = G[n] \o t
    <3>1. n + 1 \in 1 .. n + 1 /\ (n + 1) - 1 = n
      BY <2>1
    <3> QED BY <2>1, <2>3, <3>1
  <2> QED BY <2>2, <2>3, <2>6, <2>7 DEF r
<1> QED BY <1>1, <1>2, <1>3

(* The beginnings of a sequence. *)
LEMMA Beginnings ==
  ASSUME NEW S, NEW s \in Seq(S)
  PROVE  /\ SubSeq(s, 1, 0) = <<>> /\ SubSeq(s, 1, Len(s)) = s
         /\ \A m \in 0 .. Len(s) : SubSeq(s, 1, m) \in Seq(S) /\ Len(SubSeq(s, 1, m)) = m
         /\ \A m \in 1 .. Len(s) : SubSeq(s, 1, m) = Append(SubSeq(s, 1, m - 1), s[m])
<1>1. SubSeq(s, 1, 0) = <<>>
  BY SubSeqEmpty
<1>2. SubSeq(s, 1, Len(s)) = s
  BY SubSeqFull
<1>3. ASSUME NEW m \in 0 .. Len(s) PROVE SubSeq(s, 1, m) \in Seq(S) /\ Len(SubSeq(s, 1, m)) = m
  <2>1. \A k \in 1 .. m : s[k] \in S
    OBVIOUS
  <2>2. m \in Int /\ 1 \in Int /\ (1 <= m => m - 1 + 1 = m) /\ (~(1 <= m) => m = 0)
    OBVIOUS
  <2> QED BY <2>1, <2>2, SubSeqProperties
<1>4. ASSUME NEW m \in 1 .. Len(s) PROVE SubSeq(s, 1, m) = Append(SubSeq(s, 1, m - 1), s[m])
  <2>1. 1 \in 1 .. Len(s) /\ m \in 1 .. Len(s) /\ m - 1 \in 0 .. Len(s) /\ s[m] \in S
    OBVIOUS
  <2>2. SubSeq(s, 1, m) = SubSeq(s, 1, m - 1) \o <<s[m]>>
    BY <2>1, SubSeqRecursiveSecond
  <2>3. SubSeq(s, 1, m - 1) \in Seq(S)
    BY <1>3, <2>1
  <2> QED BY <2>1, <2>2, <2>3, AppendIsConcat
<1> QED BY <1>1, <1>2, <1>3, <1>4

------------------------------------------------------------------------------
(* The text of a line                                                      *)

(* A line as the program reads it: there is a command, and at most one     *)
(* space before each; a line with two repeats has no meaning.              *)
FitLine(l) ==
  /\ l \in Seq(Command) /\ l # <<>>
  /\ \A k \in DOMAIN l : l[k].pad \in {0, 1}
  /\ \A j, k \in DOMAIN l : l[j].name = "repeat" /\ l[k].name = "repeat" => j = k

(* The names of commands, and the items a text is made of.                 *)
Names == Basic \cup {"repeat"}

Items == {Word(n) : n \in Names} \cup {Num(a) : a \in Nat} \cup {Char(c) : c \in {" ", ";", "null"}}

(* The words, the numbers and the characters are different.                *)
LEMMA ItemsDiffer ==
  /\ \A n \in Names : /\ Word(n) \in Items
                      /\ Word(n) # Char(" ") /\ Word(n) # Char(";") /\ Word(n) # Nul
  /\ \A a \in Nat : /\ Num(a) \in Items
                    /\ Num(a) # Char(" ") /\ Num(a) # Char(";") /\ Num(a) # Nul
                    /\ "num" \in DOMAIN Num(a) /\ Num(a).num = a
  /\ Char(" ") \in Items /\ Char(";") \in Items /\ Nul \in Items
  /\ Char(" ") # Char(";") /\ Char(" ") # Nul /\ Char(";") # Nul
  /\ \A m, n \in Names : Word(m) = Word(n) <=> m = n
<1>1. \A n, c : Word(n) # Char(c)
  <2> SUFFICES ASSUME NEW n, NEW c PROVE Word(n) # Char(c)
    OBVIOUS
  <2>1. DOMAIN Word(n) = {"word"} /\ DOMAIN Char(c) = {"char"}
    BY DEF Word, Char
  <2> QED BY <2>1
<1>2. \A a, c : Num(a) # Char(c)
  <2> SUFFICES ASSUME NEW a, NEW c PROVE Num(a) # Char(c)
    OBVIOUS
  <2>1. DOMAIN Num(a) = {"num"} /\ DOMAIN Char(c) = {"char"}
    BY DEF Num, Char
  <2> QED BY <2>1
<1>3. \A a : DOMAIN Num(a) = {"num"} /\ Num(a).num = a
  BY DEF Num
<1>4. \A c : Char(c).char = c
  BY DEF Char
<1>5. Char(" ") # Char(";") /\ Char(" ") # Nul /\ Char(";") # Nul
  <2>1. \A c, d : Char(c) = Char(d) => c = d
    <3> SUFFICES ASSUME NEW c, NEW d, Char(c) = Char(d) PROVE c = d
      OBVIOUS
    <3>1. Char(c).char = c /\ Char(d).char = d
      BY <1>4
    <3> QED BY <3>1
  <2>2. " " # ";" /\ " " # "null" /\ ";" # "null"
    OBVIOUS
  <2> QED BY <2>1, <2>2 DEF Nul
<1>6. \A n : Word(n).word = n
  BY DEF Word
<1>7. Char(" ") \in Items /\ Char(";") \in Items /\ Nul \in Items
  BY DEF Items, Nul
<1>8. (\A n \in Names : Word(n) \in Items) /\ (\A a \in Nat : Num(a) \in Items)
  BY DEF Items
<1>9. \A n : Word(n) # Char(" ") /\ Word(n) # Char(";") /\ Word(n) # Nul
  BY <1>1 DEF Nul
<1>10. \A a : Num(a) # Char(" ") /\ Num(a) # Char(";") /\ Num(a) # Nul
  BY <1>2 DEF Nul
<1>11. \A m, n \in Names : Word(m) = Word(n) <=> m = n
  <2> SUFFICES ASSUME NEW m, NEW n, Word(m) = Word(n) PROVE m = n
    OBVIOUS
  <2>1. Word(m).word = m /\ Word(n).word = n
    BY <1>6
  <2> QED BY <2>1
<1>12. \A a : "num" \in DOMAIN Num(a)
  <2>1. \A a : DOMAIN Num(a) = {"num"}
    BY <1>3
  <2> QED BY <2>1
<1> QED BY <1>3, <1>5, <1>7, <1>8, <1>9, <1>10, <1>11, <1>12, Zenon

(* The items of command k of line l, and where they begin in its text.     *)
Piece(l, k) ==
  [p \in 1 .. l[k].pad |-> Char(" ")]
  \o <<Word(l[k].name), Char(" "), Num(l[k].arg)>>
  \o <<IF k = Len(l) THEN Nul ELSE Char(";")>>

Pieces(l) == [k \in DOMAIN l |-> Piece(l, k)]

Start(l, k) == Len(FlattenSeq(SubSeq(Pieces(l), 1, k - 1))) + 1

(* Four items, or five. *)
LEMMA FewItems ==
  ASSUME NEW S, NEW a \in S, NEW b \in S, NEW c \in S, NEW d \in S, NEW x \in S, NEW e, e = <<>>
  PROVE  /\ LET s == e \o <<a, b, c>> \o <<d>>
            IN  /\ s \in Seq(S) /\ Len(s) = 4
                /\ s[1] = a /\ s[2] = b /\ s[3] = c /\ s[4] = d
         /\ LET s == <<x>> \o <<a, b, c>> \o <<d>>
            IN  /\ s \in Seq(S) /\ Len(s) = 5
                /\ s[1] = x /\ s[2] = a /\ s[3] = b /\ s[4] = c /\ s[5] = d
  OBVIOUS

(* What a command is written with. *)
LEMMA PieceIs ==
  ASSUME NEW l, FitLine(l), NEW k \in 1 .. Len(l)
  PROVE  LET s == Piece(l, k)
             p == l[k].pad
         IN  /\ p \in {0, 1} /\ l[k].name \in Names /\ l[k].arg \in Nat
             /\ s \in Seq(Items) /\ Len(s) = p + 4
             /\ p = 1 => s[1] = Char(" ")
             /\ s[p + 1] = Word(l[k].name) /\ s[p + 2] = Char(" ") /\ s[p + 3] = Num(l[k].arg)
             /\ s[p + 4] = IF k = Len(l) THEN Nul ELSE Char(";")
<1> DEFINE a == Word(l[k].name)
           b == Char(" ")
           c == Num(l[k].arg)
           d == IF k = Len(l) THEN Nul ELSE Char(";")
           p == l[k].pad
           e == [q \in 1 .. p |-> b]
<1>1. l \in Seq(Command) /\ k \in DOMAIN l /\ l[k] \in Command
  BY DEF FitLine
<1>2. p \in {0, 1} /\ l[k].name \in Names /\ l[k].arg \in Nat
  BY <1>1 DEF FitLine, Command, Names
<1>3. a \in Items /\ b \in Items /\ c \in Items /\ d \in Items
  BY <1>2, ItemsDiffer
<1>4. Piece(l, k) = e \o <<a, b, c>> \o <<d>>
  BY DEF Piece
<1>5. (p = 0 => e = <<>>) /\ (p = 1 => e = <<b>>)
  <2>1. \A x : [q \in 1 .. 0 |-> x] = <<>> /\ [q \in 1 .. 1 |-> x] = <<x>>
    OBVIOUS
  <2> HIDE DEF b, p
  <2>2. CASE p = 0
    BY <2>1, <2>2
  <2>3. CASE p = 1
    BY <2>1, <2>3
  <2> QED BY <1>2, <2>2, <2>3
<1> HIDE DEF a, b, c, d, p, e
<1>6. CASE p = 0
  <2>1. e = <<>>
    BY <1>5, <1>6
  <2> DEFINE s == e \o <<a, b, c>> \o <<d>>
  <2>2. s \in Seq(Items) /\ Len(s) = 4 /\ s[1] = a /\ s[2] = b /\ s[3] = c /\ s[4] = d
    BY <1>3, <2>1, FewItems
  <2> HIDE DEF s
  <2>3. /\ s \in Seq(Items) /\ Len(s) = p + 4 /\ p # 1
        /\ s[p + 1] = a /\ s[p + 2] = b /\ s[p + 3] = c /\ s[p + 4] = d
    BY <1>6, <2>2
  <2>4. Piece(l, k) = s
    BY <1>4 DEF s
  <2> QED BY <1>2, <2>3, <2>4 DEF a, b, c, d, p
<1>7. CASE p = 1
  <2>1. e = <<b>>
    BY <1>5, <1>7
  <2> DEFINE s == e \o <<a, b, c>> \o <<d>>
             r == <<b>> \o <<a, b, c>> \o <<d>>
  <2>2. r \in Seq(Items) /\ Len(r) = 5 /\ r[1] = b /\ r[2] = a /\ r[3] = b /\ r[4] = c /\ r[5] = d
    <3>1. <<>> = <<>>
      OBVIOUS
    <3> QED BY <1>3, <3>1, FewItems
  <2>3. s = r
    BY <2>1
  <2> HIDE DEF s, r
  <2>4. /\ s \in Seq(Items) /\ Len(s) = p + 4 /\ s[1] = b
        /\ s[p + 1] = a /\ s[p + 2] = b /\ s[p + 3] = c /\ s[p + 4] = d
    BY <1>7, <2>2, <2>3
  <2>5. Piece(l, k) = s
    BY <1>4 DEF s
  <2> QED BY <1>2, <2>4, <2>5 DEF a, b, c, d, p
<1> QED BY <1>2, <1>6, <1>7

(* Where the commands begin. *)
LEMMA StartIs ==
  ASSUME NEW l, FitLine(l)
  PROVE  /\ Len(l) \in Nat /\ Len(l) >= 1 /\ Start(l, 1) = 1
         /\ \A k \in 1 .. Len(l) + 1 : Start(l, k) \in Nat /\ Start(l, k) >= 1
         /\ \A k \in 1 .. Len(l) :
              /\ l[k].pad \in {0, 1}
              /\ FlattenSeq(SubSeq(Pieces(l), 1, k - 1)) \in Seq(Items)
              /\ FlattenSeq(SubSeq(Pieces(l), 1, k)) =
                   FlattenSeq(SubSeq(Pieces(l), 1, k - 1)) \o Piece(l, k)
              /\ Start(l, k + 1) = Start(l, k) + l[k].pad + 4
         /\ TextOf(l) = FlattenSeq(SubSeq(Pieces(l), 1, Len(l)))
         /\ TextOf(l) \in Seq(Items) /\ Len(TextOf(l)) = Start(l, Len(l) + 1) - 1
<1> DEFINE P == Pieces(l)
           n == Len(l)
<1>1. l \in Seq(Command) /\ n \in Nat /\ n >= 1 /\ DOMAIN l = 1 .. n
  BY DEF FitLine
<1>2. \A k \in 1 .. n : Piece(l, k) \in Seq(Items) /\ Len(Piece(l, k)) = l[k].pad + 4 /\ l[k].pad \in {0, 1}
  BY PieceIs
<1>3. P \in Seq(Seq(Items)) /\ Len(P) = n /\ \A k \in 1 .. n : P[k] = Piece(l, k)
  BY <1>1, <1>2 DEF Pieces
<1> HIDE DEF P, n
<1> DEFINE F(m) == FlattenSeq(SubSeq(P, 1, m))
<1>4. \A m \in 0 .. n : SubSeq(P, 1, m) \in Seq(Seq(Items))
  BY <1>3, Beginnings
<1>5. ASSUME NEW m \in 0 .. n PROVE F(m) \in Seq(Items) /\ Len(F(m)) \in Nat
  <2>1. F(m) \in Seq(Items)
    BY <1>4, FlattenAppend
  <2> HIDE DEF F
  <2> QED BY <2>1
<1>6. ASSUME NEW k \in 1 .. n PROVE F(k) = F(k - 1) \o Piece(l, k)
  <2>1. SubSeq(P, 1, k) = Append(SubSeq(P, 1, k - 1), P[k])
    BY <1>3, Beginnings
  <2>2. k - 1 \in 0 .. n
    BY <1>1
  <2>3. SubSeq(P, 1, k - 1) \in Seq(Seq(Items))
    BY <1>4, <2>2
  <2> QED BY <1>2, <1>3, <2>1, <2>3, FlattenAppend
<1>7. F(0) = <<>>
  <2>1. SubSeq(P, 1, 0) = <<>>
    BY <1>3, Beginnings
  <2> QED BY <2>1, FlattenAppend
<1>8. F(n) = TextOf(l)
  <2>1. SubSeq(P, 1, n) = P
    BY <1>3, Beginnings
  <2>2. TextOf(l) = FlattenSeq(P)
    BY DEF TextOf, P, Pieces, Piece
  <2> QED BY <2>1, <2>2
<1>9. \A k : Start(l, k) = Len(F(k - 1)) + 1
  BY DEF Start, P
<1> HIDE DEF F
<1>10. \A k \in 1 .. n + 1 : k - 1 \in 0 .. n
  BY <1>1
<1>11. \A k \in 1 .. n + 1 : Start(l, k) \in Nat /\ Start(l, k) >= 1
  <2> SUFFICES ASSUME NEW k \in 1 .. n + 1 PROVE Start(l, k) \in Nat /\ Start(l, k) >= 1
    OBVIOUS
  <2>1. Len(F(k - 1)) \in Nat
    BY <1>5, <1>10
  <2> QED BY <1>9, <2>1
<1>12. Start(l, 1) = 1
  <2>1. Len(F(0)) = 0
    BY <1>7
  <2>2. 1 - 1 = 0
    OBVIOUS
  <2> QED BY <1>9, <2>1, <2>2
<1>13. ASSUME NEW k \in 1 .. n PROVE Start(l, k + 1) = Start(l, k) + l[k].pad + 4
  <2>1. (k + 1) - 1 = k /\ k - 1 \in 0 .. n
    BY <1>1
  <2>2. \A s, t \in Seq(Items) : Len(s \o t) = Len(s) + Len(t)
    OBVIOUS
  <2>3. Len(F(k)) = Len(F(k - 1)) + Len(Piece(l, k))
    BY <1>2, <1>5, <1>6, <2>1, <2>2
  <2>4. Len(F(k - 1)) \in Nat /\ l[k].pad \in Nat
    BY <1>2, <1>5, <2>1
  <2>5. Start(l, k + 1) = Len(F(k)) + 1 /\ Start(l, k) = Len(F(k - 1)) + 1
    BY <1>9, <2>1
  <2>6. Len(Piece(l, k)) = l[k].pad + 4
    BY <1>2
  <2>7. \A a, b \in Nat : (a + (b + 4)) + 1 = (a + 1) + b + 4
    OBVIOUS
  <2> QED BY <2>3, <2>4, <2>5, <2>6, <2>7
<1>14. TextOf(l) \in Seq(Items) /\ Len(TextOf(l)) = Start(l, n + 1) - 1
  <2>1. n \in 0 .. n /\ (n + 1) - 1 = n
    BY <1>1
  <2>2. Start(l, n + 1) = Len(TextOf(l)) + 1
    BY <1>8, <1>9, <2>1
  <2>3. TextOf(l) \in Seq(Items) /\ Len(TextOf(l)) \in Nat
    BY <1>5, <1>8, <2>1
  <2> QED BY <2>2, <2>3
<1>15. \A k \in 1 .. n : F(k - 1) \in Seq(Items)
  <2>1. \A k \in 1 .. n : k - 1 \in 0 .. n
    BY <1>1
  <2> QED BY <1>5, <2>1
<1> QED BY <1>1, <1>2, <1>6, <1>8, <1>11, <1>12, <1>13, <1>14, <1>15 DEF F, P, n

(* The place of a command's name. *)
At(l, k) == Start(l, k) + l[k].pad

(* The text of line l when c of its commands have been cut at the          *)
(* semicolon behind them and m at the space behind their name.             *)
Laid(str, l, c, m) ==
  /\ str \in Seq(Items) /\ Len(str) = Start(l, Len(l) + 1) - 1
  /\ \A k \in 1 .. Len(l) :
       /\ l[k].pad = 1 => str[Start(l, k)] = Char(" ")
       /\ str[At(l, k)] = Word(l[k].name)
       /\ str[At(l, k) + 1] = IF k <= m THEN Nul ELSE Char(" ")
       /\ str[At(l, k) + 2] = Num(l[k].arg)
       /\ str[At(l, k) + 3] = IF k <= c \/ k = Len(l) THEN Nul ELSE Char(";")

(* Each command has its own part of the text. *)
LEMMA StartOrder ==
  ASSUME NEW l, FitLine(l)
  PROVE  /\ \A k \in 1 .. Len(l) : /\ Start(l, k) \in Nat /\ Start(l, k) >= 1
                                   /\ At(l, k) \in Nat /\ Start(l, k) <= At(l, k)
                                   /\ (l[k].pad = 1 => At(l, k) = Start(l, k) + 1)
                                   /\ (l[k].pad # 1 => At(l, k) = Start(l, k))
                                   /\ At(l, k) + 4 = Start(l, k + 1)
                                   /\ At(l, k) + 3 <= Start(l, Len(l) + 1) - 1
         /\ \A j, k \in 1 .. Len(l) : j < k => At(l, j) + 4 <= Start(l, k)
<1> DEFINE n == Len(l)
<1>1. /\ n \in Nat /\ \A k \in 1 .. n + 1 : Start(l, k) \in Nat /\ Start(l, k) >= 1
      /\ \A k \in 1 .. n : l[k].pad \in {0, 1} /\ Start(l, k + 1) = Start(l, k) + l[k].pad + 4
  BY StartIs
<1> HIDE DEF n
<1>2. ASSUME NEW k \in 1 .. n
      PROVE  /\ Start(l, k) \in Nat /\ Start(l, k) >= 1
             /\ At(l, k) \in Nat /\ Start(l, k) <= At(l, k)
             /\ (l[k].pad = 1 => At(l, k) = Start(l, k) + 1)
             /\ (l[k].pad # 1 => At(l, k) = Start(l, k))
             /\ At(l, k) + 4 = Start(l, k + 1)
             /\ Start(l, k) <= Start(l, k + 1)
  <2>1. k \in 1 .. n + 1
    BY <1>1
  <2>2. Start(l, k) \in Nat /\ Start(l, k) >= 1
    BY <1>1, <2>1
  <2>3. l[k].pad \in {0, 1} /\ Start(l, k + 1) = Start(l, k) + l[k].pad + 4
    BY <1>1
  <2> QED BY <2>2, <2>3 DEF At
<1>3. ASSUME NEW j \in 1 .. n + 1
      PROVE  \A k \in 1 .. n + 1 : j <= k => Start(l, j) <= Start(l, k)
  <2> DEFINE S == {d \in Nat : j + d \in 1 .. n + 1 => Start(l, j) <= Start(l, j + d)}
  <2>1. 0 \in S
    <3>1. j + 0 = j /\ Start(l, j) \in Nat
      BY <1>1
    <3> QED BY <3>1
  <2>2. ASSUME NEW d \in Nat, d \in S PROVE d + 1 \in S
    <3> SUFFICES ASSUME j + (d + 1) \in 1 .. n + 1 PROVE Start(l, j) <= Start(l, j + (d + 1))
      OBVIOUS
    <3>1. j + d \in 1 .. n /\ j + d \in 1 .. n + 1 /\ (j + d) + 1 = j + (d + 1)
      BY <1>1
    <3>2. Start(l, j) <= Start(l, j + d)
      BY <2>2, <3>1
    <3>3. Start(l, j + d) <= Start(l, j + (d + 1))
      BY <1>2, <3>1
    <3>4. Start(l, j) \in Nat /\ Start(l, j + d) \in Nat /\ Start(l, j + (d + 1)) \in Nat
      BY <1>1, <3>1
    <3> QED BY <3>2, <3>3, <3>4
  <2> HIDE DEF S
  <2>3. ASSUME NEW k \in 1 .. n + 1, j <= k PROVE Start(l, j) <= Start(l, k)
    <3>1. k - j \in Nat /\ j + (k - j) = k
      BY <1>1, <2>3
    <3>2. k - j \in S
      BY <2>1, <2>2, <3>1, Induction
    <3> QED BY <3>1, <3>2 DEF S
  <2> QED BY <2>3
<1>4. ASSUME NEW k \in 1 .. n PROVE At(l, k) + 3 <= Start(l, n + 1) - 1
  <2>1. k + 1 \in 1 .. n + 1 /\ n + 1 \in 1 .. n + 1 /\ k + 1 <= n + 1
    BY <1>1
  <2>2. Start(l, k + 1) <= Start(l, n + 1) /\ Start(l, n + 1) \in Nat
    BY <1>1, <1>3, <2>1
  <2> QED BY <1>2, <2>2
<1>5. ASSUME NEW j \in 1 .. n, NEW k \in 1 .. n, j < k PROVE At(l, j) + 4 <= Start(l, k)
  <2>1. j + 1 \in 1 .. n + 1 /\ k \in 1 .. n + 1 /\ j + 1 <= k
    BY <1>1, <1>5
  <2> QED BY <1>2, <1>3, <2>1
<1> QED BY <1>2, <1>4, <1>5 DEF n

(* Places of different commands are different. *)
LEMMA Apart ==
  ASSUME NEW l, FitLine(l), NEW j \in 1 .. Len(l), NEW k \in 1 .. Len(l), j # k
  PROVE  \A x \in Start(l, j) .. At(l, j) + 3, y \in Start(l, k) .. At(l, k) + 3 : x # y
<1>1. /\ Start(l, j) \in Nat /\ At(l, j) \in Nat /\ Start(l, k) \in Nat /\ At(l, k) \in Nat
      /\ (j < k => At(l, j) + 4 <= Start(l, k)) /\ (k < j => At(l, k) + 4 <= Start(l, j))
  BY StartOrder
<1>2. Len(l) \in Nat
  BY StartIs
<1> QED BY <1>1, <1>2

(* What is written at first. *)
LEMMA TextLaid ==
  ASSUME NEW l, FitLine(l)
  PROVE  Laid(TextOf(l), l, 0, 0)
<1> DEFINE n == Len(l)
           F(m) == FlattenSeq(SubSeq(Pieces(l), 1, m))
           Has(m) == \A k \in 1 .. m : \A j \in 1 .. l[k].pad + 4 :
                       F(m)[Start(l, k) - 1 + j] = Piece(l, k)[j]
           S == {m \in Nat : m <= n => Has(m)}
<1>1. n \in Nat /\ n >= 1 /\ F(n) = TextOf(l)
  BY StartIs
<1>2. 0 \in S
  OBVIOUS
<1>3. ASSUME NEW m \in Nat, m \in S PROVE m + 1 \in S
  <2> SUFFICES ASSUME m + 1 <= n PROVE Has(m + 1)
    OBVIOUS
  <2>1. m + 1 \in 1 .. n /\ (m + 1) - 1 = m /\ m <= n
    BY <1>1
  <2>2. /\ F(m) \in Seq(Items) /\ F(m + 1) = F(m) \o Piece(l, m + 1)
        /\ Start(l, m + 1) = Len(F(m)) + 1
    BY <2>1, StartIs DEF Start
  <2>3. Piece(l, m + 1) \in Seq(Items) /\ Len(Piece(l, m + 1)) = l[m + 1].pad + 4
    BY <2>1, PieceIs
  <2>4. Has(m)
    BY <1>3, <2>1
  <2> HIDE DEF F, n
  <2>5. ASSUME NEW k \in 1 .. m + 1, NEW j \in 1 .. l[k].pad + 4
        PROVE  F(m + 1)[Start(l, k) - 1 + j] = Piece(l, k)[j]
    <3> DEFINE s == F(m)
               r == Piece(l, m + 1)
    <3>1. s \in Seq(Items) /\ r \in Seq(Items) /\ Len(s) \in Nat /\ Len(r) \in Nat
      BY <2>2, <2>3
    <3>2. \A x \in 1 .. Len(s) + Len(r) : (s \o r)[x] = IF x <= Len(s) THEN s[x] ELSE r[x - Len(s)]
      BY <3>1, ConcatProperties
    <3>3. Start(l, m + 1) = Len(s) + 1 /\ F(m + 1) = s \o r /\ Len(r) = l[m + 1].pad + 4
      BY <2>2, <2>3
    <3>4. CASE k = m + 1
      <4>1. j \in 1 .. Len(r)
        BY <3>3, <3>4
      <4> DEFINE x == Start(l, k) - 1 + j
      <4>2. x \in 1 .. Len(s) + Len(r) /\ ~(x <= Len(s)) /\ x - Len(s) = j
        BY <3>1, <3>3, <3>4, <4>1
      <4> HIDE DEF x, s, r
      <4>3. F(m + 1)[x] = r[j]
        BY <3>2, <3>3, <4>2
      <4> QED BY <3>4, <4>3 DEF x, r
    <3>5. CASE k # m + 1
      <4>1. k \in 1 .. m /\ k \in 1 .. n /\ k < m + 1
        BY <1>1, <2>1, <3>5
      <4>2. /\ Start(l, k) \in Nat /\ Start(l, k) >= 1 /\ l[k].pad \in {0, 1}
            /\ At(l, k) = Start(l, k) + l[k].pad /\ At(l, k) + 4 <= Start(l, m + 1)
        BY <2>1, <4>1, StartOrder, StartIs DEF n, At
      <4> DEFINE x == Start(l, k) - 1 + j
      <4>3. x \in 1 .. Len(s) + Len(r) /\ x <= Len(s)
        <5>1. \A u, v, e, q, z, a \in Nat : \A d \in 1 .. q + 4 :
                e >= 1 /\ a = e + q /\ a + 4 <= u + 1 => e - 1 + d \in 1 .. u + v /\ e - 1 + d <= u
          OBVIOUS
        <5>2. l[k].pad \in Nat /\ At(l, k) \in Nat
          BY <4>2
        <5>3. At(l, k) + 4 <= Len(s) + 1
          BY <3>3, <4>2
        <5> HIDE DEF s, r
        <5> QED BY <3>1, <4>2, <5>1, <5>2, <5>3
      <4>4. s[x] = Piece(l, k)[j]
        BY <2>4, <4>1
      <4> HIDE DEF x, s, r
      <4>5. F(m + 1)[x] = s[x]
        BY <3>2, <3>3, <4>3
      <4> QED BY <4>4, <4>5 DEF x
    <3> QED BY <3>4, <3>5
  <2> QED BY <2>5
<1> HIDE DEF S, F
<1>4. Has(n)
  <2>1. n \in S /\ n <= n
    BY <1>1, <1>2, <1>3, Induction
  <2> QED BY <2>1 DEF S
<1> HIDE DEF n
<1>5. ASSUME NEW k \in 1 .. n
      PROVE  /\ l[k].pad = 1 => TextOf(l)[Start(l, k)] = Char(" ")
             /\ TextOf(l)[At(l, k)] = Word(l[k].name)
             /\ TextOf(l)[At(l, k) + 1] = Char(" ")
             /\ TextOf(l)[At(l, k) + 2] = Num(l[k].arg)
             /\ TextOf(l)[At(l, k) + 3] = IF k = n THEN Nul ELSE Char(";")
  <2> DEFINE s == Piece(l, k)
             p == l[k].pad
             b == Start(l, k)
             t == TextOf(l)
  <2>1. /\ p \in {0, 1} /\ (p = 1 => s[1] = Char(" "))
        /\ s[p + 1] = Word(l[k].name) /\ s[p + 2] = Char(" ") /\ s[p + 3] = Num(l[k].arg)
        /\ s[p + 4] = IF k = n THEN Nul ELSE Char(";")
    BY PieceIs DEF n
  <2>2. \A j \in 1 .. p + 4 : t[b - 1 + j] = s[j]
    BY <1>1, <1>4
  <2>3. b \in Nat /\ At(l, k) = b + p
    BY StartOrder DEF n, At
  <2> HIDE DEF s, p, b, t
  <2>4. /\ p + 1 \in 1 .. p + 4 /\ p + 2 \in 1 .. p + 4 /\ p + 3 \in 1 .. p + 4 /\ p + 4 \in 1 .. p + 4
        /\ 1 \in 1 .. p + 4
        /\ b - 1 + (p + 1) = b + p /\ b - 1 + (p + 2) = (b + p) + 1 /\ b - 1 + (p + 3) = (b + p) + 2
        /\ b - 1 + (p + 4) = (b + p) + 3 /\ b - 1 + 1 = b
    <3>1. \A q, e \in Nat :
            /\ q + 1 \in 1 .. q + 4 /\ q + 2 \in 1 .. q + 4 /\ q + 3 \in 1 .. q + 4 /\ q + 4 \in 1 .. q + 4
            /\ 1 \in 1 .. q + 4
            /\ e - 1 + (q + 1) = e + q /\ e - 1 + (q + 2) = (e + q) + 1 /\ e - 1 + (q + 3) = (e + q) + 2
            /\ e - 1 + (q + 4) = (e + q) + 3 /\ e - 1 + 1 = e
      OBVIOUS
    <3>2. p \in Nat
      <4>1. p \in {0, 1}
        BY <2>1
      <4> QED BY <4>1
    <3> QED BY <2>3, <3>1, <3>2
  <2>5. /\ t[b] = s[1] /\ t[b + p] = s[p + 1] /\ t[(b + p) + 1] = s[p + 2]
        /\ t[(b + p) + 2] = s[p + 3] /\ t[(b + p) + 3] = s[p + 4]
    BY <2>2, <2>4
  <2> QED BY <2>1, <2>3, <2>5 DEF p, b, t
<1>6. \A k \in 1 .. n : ~(k <= 0)
  BY <1>1
<1> QED BY <1>5, <1>6, StartIs DEF Laid, n

(* One item changed. *)
Changed(S, s, x, v, t) ==
  t \in Seq(S) /\ Len(t) = Len(s) /\ \A y \in 1 .. Len(s) : t[y] = IF y = x THEN v ELSE s[y]

(* What EXCEPT does to a sequence. *)
LEMMA ChangedIs ==
  ASSUME NEW S, NEW s \in Seq(S), NEW x \in 1 .. Len(s), NEW v \in S, NEW t, t = [s EXCEPT ![x] = v]
  PROVE  Changed(S, s, x, v, t)
  BY DEF Changed

(* Cutting command c + 1 off at its semicolon leaves the rest as it is. *)
LEMMA CutEnd ==
  ASSUME NEW l, FitLine(l), NEW str, NEW c \in Nat, NEW m \in Nat, Laid(str, l, c, m),
         c + 1 \in 1 .. Len(l)
  PROVE  Laid([str EXCEPT ![At(l, c + 1) + 3] = Nul], l, c + 1, m)
<1> DEFINE x == At(l, c + 1) + 3
           t == [str EXCEPT ![x] = Nul]
           n == Len(l)
<1>1. str \in Seq(Items) /\ Len(str) = Start(l, n + 1) - 1
  BY DEF Laid
<1>2. x \in 1 .. Len(str) /\ x \in Start(l, c + 1) .. At(l, c + 1) + 3 /\ n \in Nat
  <2>1. /\ Start(l, c + 1) \in Nat /\ Start(l, c + 1) >= 1 /\ At(l, c + 1) \in Nat
        /\ Start(l, c + 1) <= At(l, c + 1) /\ At(l, c + 1) + 3 <= Start(l, n + 1) - 1
    BY StartOrder
  <2>2. n \in Nat /\ Len(str) \in Nat
    BY <1>1, StartIs
  <2> QED BY <1>1, <2>1, <2>2
<1>3. t \in Seq(Items) /\ Len(t) = Len(str) /\ \A y \in 1 .. Len(str) : t[y] = IF y = x THEN Nul ELSE str[y]
  <2>1. t = [str EXCEPT ![x] = Nul]
    OBVIOUS
  <2> HIDE DEF x, t
  <2>2. Nul \in Items
    BY ItemsDiffer
  <2>3. Changed(Items, str, x, Nul, t)
    BY <1>1, <1>2, <2>1, <2>2, ChangedIs, Zenon
  <2> QED BY <2>3 DEF Changed
<1> HIDE DEF x, t
<1>4. ASSUME NEW k \in 1 .. n
      PROVE  /\ l[k].pad = 1 => t[Start(l, k)] = Char(" ")
             /\ t[At(l, k)] = Word(l[k].name)
             /\ t[At(l, k) + 1] = IF k <= m THEN Nul ELSE Char(" ")
             /\ t[At(l, k) + 2] = Num(l[k].arg)
             /\ t[At(l, k) + 3] = IF k <= c + 1 \/ k = n THEN Nul ELSE Char(";")
  <2> DEFINE a == At(l, k)
             b == Start(l, k)
  <2>1. /\ b \in Nat /\ b >= 1 /\ a \in Nat /\ b <= a /\ a + 3 <= Len(str)
        /\ (l[k].pad = 1 => a = b + 1)
    BY <1>1, StartOrder
  <2>2. /\ l[k].pad = 1 => str[b] = Char(" ")
        /\ str[a] = Word(l[k].name)
        /\ str[a + 1] = IF k <= m THEN Nul ELSE Char(" ")
        /\ str[a + 2] = Num(l[k].arg)
        /\ str[a + 3] = IF k <= c \/ k = n THEN Nul ELSE Char(";")
    BY DEF Laid
  <2>3. k = c + 1 => x = a + 3
    BY DEF x
  <2>4. k # c + 1 => \A y \in b .. a + 3 : y # x
    BY <1>2, Apart DEF x
  <2> HIDE DEF a, b
  <2>5. Len(str) \in Nat
    BY <1>1
  <2>6. /\ b \in 1 .. Len(str) /\ a \in 1 .. Len(str) /\ a + 1 \in 1 .. Len(str)
        /\ a + 2 \in 1 .. Len(str) /\ a + 3 \in 1 .. Len(str)
        /\ b \in b .. a + 3 /\ a \in b .. a + 3 /\ a + 1 \in b .. a + 3
        /\ a + 2 \in b .. a + 3 /\ a + 3 \in b .. a + 3
    BY <2>1, <2>5
  <2>7. CASE k = c + 1
    <3>1. x = a + 3 /\ a # x /\ a + 1 # x /\ a + 2 # x /\ b # x
      BY <2>1, <2>3, <2>7
    <3>2. t[b] = str[b] /\ t[a] = str[a] /\ t[a + 1] = str[a + 1] /\ t[a + 2] = str[a + 2] /\ t[a + 3] = Nul
      BY <1>3, <2>6, <3>1
    <3>3. k <= c + 1
      BY <2>7
    <3> QED BY <2>2, <3>2, <3>3 DEF a, b
  <2>8. CASE k # c + 1
    <3>1. a + 3 # x /\ a # x /\ a + 1 # x /\ a + 2 # x /\ b # x
      BY <2>4, <2>6, <2>8
    <3>2. t[b] = str[b] /\ t[a] = str[a] /\ t[a + 1] = str[a + 1] /\ t[a + 2] = str[a + 2] /\ t[a + 3] = str[a + 3]
      BY <1>3, <2>6, <3>1
    <3>3. k <= c + 1 <=> k <= c
      BY <1>2, <2>8
    <3> QED BY <2>2, <3>2, <3>3 DEF a, b
  <2> QED BY <2>7, <2>8
<1>5. Laid(t, l, c + 1, m)
  BY <1>1, <1>3, <1>4 DEF Laid
<1> QED BY <1>5 DEF t, x

(* And so does cutting command m + 1 at the space behind its name. *)
LEMMA CutSpace ==
  ASSUME NEW l, FitLine(l), NEW str, NEW c \in Nat, NEW m \in Nat, Laid(str, l, c, m),
         m + 1 \in 1 .. Len(l)
  PROVE  Laid([str EXCEPT ![At(l, m + 1) + 1] = Nul], l, c, m + 1)
<1> DEFINE x == At(l, m + 1) + 1
           t == [str EXCEPT ![x] = Nul]
           n == Len(l)
<1>1. str \in Seq(Items) /\ Len(str) = Start(l, n + 1) - 1
  BY DEF Laid
<1>2. x \in 1 .. Len(str) /\ x \in Start(l, m + 1) .. At(l, m + 1) + 3 /\ n \in Nat
  <2>1. /\ Start(l, m + 1) \in Nat /\ Start(l, m + 1) >= 1 /\ At(l, m + 1) \in Nat
        /\ Start(l, m + 1) <= At(l, m + 1) /\ At(l, m + 1) + 3 <= Start(l, n + 1) - 1
    BY StartOrder
  <2>2. n \in Nat /\ Len(str) \in Nat
    BY <1>1, StartIs
  <2> QED BY <1>1, <2>1, <2>2
<1>3. t \in Seq(Items) /\ Len(t) = Len(str) /\ \A y \in 1 .. Len(str) : t[y] = IF y = x THEN Nul ELSE str[y]
  <2>1. t = [str EXCEPT ![x] = Nul]
    OBVIOUS
  <2> HIDE DEF x, t
  <2>2. Nul \in Items
    BY ItemsDiffer
  <2>3. Changed(Items, str, x, Nul, t)
    BY <1>1, <1>2, <2>1, <2>2, ChangedIs, Zenon
  <2> QED BY <2>3 DEF Changed
<1> HIDE DEF x, t
<1>4. ASSUME NEW k \in 1 .. n
      PROVE  /\ l[k].pad = 1 => t[Start(l, k)] = Char(" ")
             /\ t[At(l, k)] = Word(l[k].name)
             /\ t[At(l, k) + 1] = IF k <= m + 1 THEN Nul ELSE Char(" ")
             /\ t[At(l, k) + 2] = Num(l[k].arg)
             /\ t[At(l, k) + 3] = IF k <= c \/ k = n THEN Nul ELSE Char(";")
  <2> DEFINE a == At(l, k)
             b == Start(l, k)
  <2>1. /\ b \in Nat /\ b >= 1 /\ a \in Nat /\ b <= a /\ a + 3 <= Len(str)
        /\ (l[k].pad = 1 => a = b + 1)
    BY <1>1, StartOrder
  <2>2. /\ l[k].pad = 1 => str[b] = Char(" ")
        /\ str[a] = Word(l[k].name)
        /\ str[a + 1] = IF k <= m THEN Nul ELSE Char(" ")
        /\ str[a + 2] = Num(l[k].arg)
        /\ str[a + 3] = IF k <= c \/ k = n THEN Nul ELSE Char(";")
    BY DEF Laid
  <2>3. k = m + 1 => x = a + 1
    BY DEF x
  <2>4. k # m + 1 => \A y \in b .. a + 3 : y # x
    BY <1>2, Apart DEF x
  <2> HIDE DEF a, b
  <2>5. Len(str) \in Nat
    BY <1>1
  <2>6. /\ b \in 1 .. Len(str) /\ a \in 1 .. Len(str) /\ a + 1 \in 1 .. Len(str)
        /\ a + 2 \in 1 .. Len(str) /\ a + 3 \in 1 .. Len(str)
        /\ b \in b .. a + 3 /\ a \in b .. a + 3 /\ a + 1 \in b .. a + 3
        /\ a + 2 \in b .. a + 3 /\ a + 3 \in b .. a + 3
    BY <2>1, <2>5
  <2>7. CASE k = m + 1
    <3>1. x = a + 1 /\ a # x /\ a + 3 # x /\ a + 2 # x /\ b # x
      BY <2>1, <2>3, <2>7
    <3>2. t[b] = str[b] /\ t[a] = str[a] /\ t[a + 1] = Nul /\ t[a + 2] = str[a + 2] /\ t[a + 3] = str[a + 3]
      BY <1>3, <2>6, <3>1
    <3>3. k <= m + 1
      BY <2>7
    <3> QED BY <2>2, <3>2, <3>3 DEF a, b
  <2>8. CASE k # m + 1
    <3>1. a + 3 # x /\ a # x /\ a + 1 # x /\ a + 2 # x /\ b # x
      BY <2>4, <2>6, <2>8
    <3>2. t[b] = str[b] /\ t[a] = str[a] /\ t[a + 1] = str[a + 1] /\ t[a + 2] = str[a + 2] /\ t[a + 3] = str[a + 3]
      BY <1>3, <2>6, <3>1
    <3>3. k <= m + 1 <=> k <= m
      BY <1>2, <2>8
    <3> QED BY <2>2, <3>2, <3>3 DEF a, b
  <2> QED BY <2>7, <2>8
<1>5. Laid(t, l, c, m + 1)
  BY <1>1, <1>3, <1>4 DEF Laid
<1> QED BY <1>5 DEF t, x

------------------------------------------------------------------------------
(* strtok on such a text *)

(* The least of a set of numbers. *)
LEMMA MinIs ==
  ASSUME NEW S \in SUBSET Int, NEW x \in S, \A y \in S : x <= y
  PROVE  Min(S) = x
<1>1. \E z \in S : \A y \in S : z <= y
  OBVIOUS
<1>2. Min(S) \in S /\ \A y \in S : Min(S) <= y
  BY <1>1 DEF Min
<1>3. Min(S) <= x /\ x <= Min(S) /\ x \in Int /\ Min(S) \in Int
  BY <1>2
<1> QED BY <1>3

(* A token from first up to the delimiter, or the null, at stop.           *)
Cut(str, d, at, first, stop) ==
  /\ Len(str) \in Nat /\ at \in Nat
  /\ first \in at .. Len(str) /\ str[first] # Char(d) /\ str[first] # Nul
  /\ \A k \in at .. first - 1 : str[k] = Char(d)
  /\ stop \in first .. Len(str) /\ str[stop] \in {Char(d), Nul}
  /\ \A k \in first .. stop - 1 : str[k] \notin {Char(d), Nul}

(* What strtok then returns and writes.                                    *)
TokenCut(w, first, stop) ==
  [token |-> {Place(w, first)},
   save  |-> {Place(w, IF tmp[w][stop] = Nul THEN stop ELSE stop + 1)},
   tmp   |-> [tmp EXCEPT ![w] = [tmp[w] EXCEPT ![stop] = Nul]]]

(* strtok finds it. *)
LEMMA StrtokToken ==
  ASSUME NEW w, NEW d, NEW at, NEW first, NEW stop, Cut(tmp[w], d, at, first, stop)
  PROVE  Strtok(Place(w, at), d) = TokenCut(w, first, stop)
<1> DEFINE str == tmp[w]
<1>0. str = tmp[w] /\ Cut(str, d, at, first, stop)
  OBVIOUS
<1> HIDE DEF str
<1> DEFINE A == {k \in at .. Len(str) : str[k] # Char(d)}
           E == {k \in first .. Len(str) : str[k] \in {Char(d), Nul}}
<1> USE <1>0 DEF Cut
<1>1. Min(A) = first
  <2>1. A \in SUBSET Int /\ first \in A
    OBVIOUS
  <2>2. \A k \in A : first <= k
    <3> SUFFICES ASSUME NEW k \in A, ~(first <= k) PROVE FALSE
      OBVIOUS
    <3>1. k \in at .. first - 1
      OBVIOUS
    <3>2. str[k] # Char(d)
      OBVIOUS
    <3> QED BY <3>1, <3>2
  <2> HIDE DEF A
  <2> QED BY <2>1, <2>2, MinIs
<1>2. Min(E) = stop
  <2>1. E \in SUBSET Int /\ stop \in E
    OBVIOUS
  <2>2. \A k \in E : stop <= k
    <3> SUFFICES ASSUME NEW k \in E, ~(stop <= k) PROVE FALSE
      OBVIOUS
    <3>1. k \in first .. stop - 1
      OBVIOUS
    <3>2. str[k] \in {Char(d), Nul}
      OBVIOUS
    <3> QED BY <3>1, <3>2
  <2> HIDE DEF E
  <2> QED BY <2>1, <2>2, MinIs
<1> HIDE DEF A
<1> DEFINE p == Place(w, at)
<1>3. p.of = w /\ p.at = at
  BY DEF Place
<1> HIDE DEF p
<1>4. Min({k \in p.at .. Len(tmp[p.of]) : tmp[p.of][k] # Char(d)}) = first
  BY <1>1, <1>3 DEF A
<1>5. Min({k \in first .. Len(tmp[p.of]) : tmp[p.of][k] \in {Char(d), Nul}}) = stop
  BY <1>2, <1>3
<1>6. Strtok(p, d) =
           [token |-> {Place(w, first)},
            save  |-> {Place(w, IF str[stop] = Nul THEN stop ELSE stop + 1)},
            tmp   |-> [tmp EXCEPT ![w] = [tmp[w] EXCEPT ![stop] = Nul]]]
  BY <1>3, <1>4, <1>5 DEF Strtok
<1> QED BY <1>6 DEF p, TokenCut

(* At the null there is none. *)
LEMMA StrtokEnd ==
  ASSUME NEW w, NEW str, str = tmp[w], Len(str) \in Nat, NEW d, Char(d) # Nul,
         NEW at \in Nat, at <= Len(str), str[at] = Nul
  PROVE  Strtok(Place(w, at), d) = [token |-> {}, save |-> {Place(w, at)}, tmp |-> tmp]
<1> DEFINE A == {k \in at .. Len(str) : str[k] # Char(d)}
<1>1. Min(A) = at
  <2>1. A \in SUBSET Int /\ at \in A /\ \A k \in A : at <= k
    OBVIOUS
  <2> HIDE DEF A
  <2> QED BY <2>1, MinIs
<1> HIDE DEF A
<1> DEFINE p == Place(w, at)
<1>3. p.of = w /\ p.at = at
  BY DEF Place
<1> HIDE DEF p
<1>4. Min({k \in p.at .. Len(tmp[p.of]) : tmp[p.of][k] # Char(d)}) = at
  BY <1>1, <1>3 DEF A
<1>5. Strtok(p, d) = [token |-> {}, save |-> {Place(w, at)}, tmp |-> tmp]
  BY <1>3, <1>4 DEF Strtok
<1> QED BY <1>5 DEF p

(* The two delimiters strtok is given.                                     *)
Space == " "
Semicolon == ";"

(* They are items of their own. *)
LEMMA DelimitersDiffer ==
  Char(Space) # Char(Semicolon) /\ Char(Space) # Nul /\ Char(Semicolon) # Nul
  BY ItemsDiffer, Zenon DEF Space, Semicolon

(* The items of one command: what strtok finds there.                      *)
HasItems(str, l, c, m, k) ==
  /\ str \in Seq(Items) /\ Len(str) \in Nat
  /\ Start(l, k) \in Nat /\ Start(l, k) >= 1 /\ At(l, k) \in Nat /\ At(l, k) + 3 <= Len(str)
  /\ (At(l, k) = Start(l, k) \/ (At(l, k) = Start(l, k) + 1 /\ str[Start(l, k)] = Char(Space)))
  /\ str[Start(l, k)] # Char(Semicolon) /\ str[Start(l, k)] # Nul
  /\ str[At(l, k)] # Char(Space) /\ str[At(l, k)] # Char(Semicolon) /\ str[At(l, k)] # Nul
  /\ str[At(l, k)] = Word(l[k].name)
  /\ str[At(l, k) + 1] = IF k <= m THEN Nul ELSE Char(Space)
  /\ str[At(l, k) + 2] = Num(l[k].arg)
  /\ str[At(l, k) + 2] # Char(Space) /\ str[At(l, k) + 2] # Char(Semicolon) /\ str[At(l, k) + 2] # Nul
  /\ str[At(l, k) + 3] = IF k <= c \/ k = Len(l) THEN Nul ELSE Char(Semicolon)

(* They are found in a line that is cut so far. *)
LEMMA LaidItems ==
  ASSUME NEW l, FitLine(l), NEW str, NEW c, NEW m, Laid(str, l, c, m), NEW k \in 1 .. Len(l)
  PROVE  HasItems(str, l, c, m, k)
<1> DEFINE a == At(l, k)
           b == Start(l, k)
<1>0. \A s \in Seq(Items) : Len(s) \in Nat
  OBVIOUS
<1>1. str \in Seq(Items) /\ Len(str) = Start(l, Len(l) + 1) - 1 /\ Len(str) \in Nat
  BY <1>0 DEF Laid
<1>2. /\ b \in Nat /\ b >= 1 /\ a \in Nat /\ a + 3 <= Len(str)
      /\ (l[k].pad = 1 => a = b + 1) /\ (l[k].pad # 1 => a = b)
  BY <1>1, StartOrder
<1>3. l[k].name \in Names /\ l[k].arg \in Nat
  BY PieceIs
<1>4. /\ l[k].pad = 1 => str[b] = Char(" ")
      /\ str[a] = Word(l[k].name)
      /\ str[a + 1] = IF k <= m THEN Nul ELSE Char(" ")
      /\ str[a + 2] = Num(l[k].arg)
      /\ str[a + 3] = IF k <= c \/ k = Len(l) THEN Nul ELSE Char(";")
  BY DEF Laid
<1>5. /\ str[a] # Char(" ") /\ str[a] # Char(";") /\ str[a] # Nul
      /\ str[a + 2] # Char(" ") /\ str[a + 2] # Char(";") /\ str[a + 2] # Nul
      /\ Char(" ") # Char(";") /\ Char(" ") # Nul /\ Char(";") # Nul
  BY <1>3, <1>4, ItemsDiffer
<1> HIDE DEF a, b
<1>6. CASE l[k].pad = 1
  <2>1. a = b + 1 /\ str[b] = Char(" ")
    BY <1>2, <1>4, <1>6
  <2>2. str[b] # Char(";") /\ str[b] # Nul
    BY <1>5, <2>1
  <2> QED BY <1>1, <1>2, <1>4, <1>5, <2>1, <2>2, Zenon DEF a, b, HasItems, Space, Semicolon
<1>7. CASE l[k].pad # 1
  <2>1. a = b
    BY <1>2, <1>7
  <2>2. str[b] # Char(";") /\ str[b] # Nul
    BY <1>5, <2>1
  <2> QED BY <1>1, <1>2, <1>4, <1>5, <2>1, <2>2, Zenon DEF a, b, HasItems, Space, Semicolon
<1> QED BY <1>6, <1>7

(* Where strtok goes on behind command k.                                  *)
Behind(l, k) == IF k = Len(l) THEN Start(l, k + 1) - 1 ELSE Start(l, k + 1)

(* What strtok does when it cuts command k off, when nothing is left, when *)
(* it cuts the name, and when it takes the argument.                       *)
SplitResult(w, l, k) ==
  [token |-> {Place(w, Start(l, k))},
   save  |-> {Place(w, Behind(l, k))},
   tmp   |-> [tmp EXCEPT ![w] = [tmp[w] EXCEPT ![At(l, k) + 3] = Nul]]]

EndResult(w, at) == [token |-> {}, save |-> {Place(w, at)}, tmp |-> tmp]

NameResult(w, l, k) ==
  [token |-> {Place(w, At(l, k))},
   save  |-> {Place(w, At(l, k) + 2)},
   tmp   |-> [tmp EXCEPT ![w] = [tmp[w] EXCEPT ![At(l, k) + 1] = Nul]]]

ArgResult(w, l, k) ==
  [token |-> {Place(w, At(l, k) + 2)}, save |-> {Place(w, At(l, k) + 3)}, tmp |-> tmp]

(* Command k is cut off at its semicolon. *)
LEMMA SplitToken ==
  ASSUME NEW w, NEW l, FitLine(l), NEW k \in 1 .. Len(l), NEW c, Laid(tmp[w], l, c, 0), ~(k <= c)
  PROVE  Strtok(Place(w, Start(l, k)), Semicolon) = SplitResult(w, l, k)
<1> DEFINE a == At(l, k)
           b == Start(l, k)
           str == tmp[w]
<1>1. /\ str \in Seq(Items) /\ Len(str) \in Nat
      /\ b \in Nat /\ b >= 1 /\ a \in Nat /\ a + 3 <= Len(str)
      /\ (a = b \/ a = b + 1)
      /\ str[b] # Char(Semicolon) /\ str[b] # Nul
      /\ str[a] # Char(Semicolon) /\ str[a] # Nul
      /\ str[a + 1] = Char(Space)
      /\ str[a + 2] # Char(Semicolon) /\ str[a + 2] # Nul
      /\ str[a + 3] = IF k = Len(l) THEN Nul ELSE Char(Semicolon)
  <2>1. HasItems(str, l, c, 0, k)
    BY LaidItems, Zenon
  <2>2. ~(k <= 0)
    <3>1. Len(l) \in Nat
      BY StartIs
    <3> QED BY <3>1
  <2> HIDE DEF str
  <2> QED BY <2>1, <2>2, Zenon DEF HasItems
<1>2. a + 4 = Start(l, k + 1)
  BY StartOrder
<1>3. Char(Space) # Nul /\ Char(Semicolon) # Nul /\ Char(Space) # Char(Semicolon)
  BY DelimitersDiffer
<1> HIDE DEF a, b, str
<1> DEFINE N == Len(str)
<1>0. b \in Nat /\ b >= 1 /\ a \in Nat /\ a + 3 <= N /\ (a = b \/ a = b + 1) /\ N \in Nat
  BY <1>1, Zenon
<1> HIDE DEF N
<1>4. b \in b .. N /\ a + 3 \in b .. N
  BY <1>0
<1>5. \A j \in b .. (a + 3) - 1 : str[j] \notin {Char(Semicolon), Nul}
  <2>1. \A j \in b .. (a + 3) - 1 : j = b \/ j = a \/ j = a + 1 \/ j = a + 2
    BY <1>0
  <2> SUFFICES ASSUME NEW j \in b .. (a + 3) - 1 PROVE str[j] # Char(Semicolon) /\ str[j] # Nul
    OBVIOUS
  <2> QED BY <1>1, <1>3, <2>1
<1>6. \A j \in b .. b - 1 : str[j] = Char(Semicolon)
  <2>1. ~(\E j \in b .. b - 1 : TRUE)
    BY <1>0
  <2> QED BY <2>1
<1>7. str[a + 3] \in {Char(Semicolon), Nul}
  BY <1>1
<1>8. Strtok(Place(w, b), Semicolon) =
           [token |-> {Place(w, b)},
            save  |-> {Place(w, IF str[a + 3] = Nul THEN a + 3 ELSE (a + 3) + 1)},
            tmp   |-> [tmp EXCEPT ![w] = [str EXCEPT ![a + 3] = Nul]]]
  <2>2. str = tmp[w] /\ Len(str) \in Nat
    BY <1>1 DEF str
  <2>3. b \in Nat /\ b \in b .. Len(str) /\ a + 3 \in b .. Len(str)
    BY <1>0, <1>4, Zenon DEF N
  <2>4. str[b] # Char(Semicolon) /\ str[b] # Nul
    BY <1>1
  <2> HIDE DEF N
  <2>5. Cut(tmp[w], Semicolon, b, b, a + 3)
    BY <1>5, <1>6, <1>7, <2>2, <2>3, <2>4, Zenon DEF Cut
  <2>6. Strtok(Place(w, b), Semicolon) = TokenCut(w, b, a + 3)
    BY <2>5, StrtokToken
  <2> QED BY <2>2, <2>6 DEF TokenCut
<1>9. (IF str[a + 3] = Nul THEN a + 3 ELSE (a + 3) + 1) = IF k = Len(l) THEN Start(l, k + 1) - 1 ELSE Start(l, k + 1)
  <2>1. (a + 3) + 1 = Start(l, k + 1) /\ a + 3 = Start(l, k + 1) - 1
    BY <1>0, <1>2
  <2> QED BY <1>1, <1>3, <2>1
<1> QED BY <1>8, <1>9 DEF a, b, str, SplitResult, Behind

(* Behind the last command there is none. *)
LEMMA SplitEnd ==
  ASSUME NEW w, NEW l, FitLine(l), NEW c, NEW m, Laid(tmp[w], l, c, m)
  PROVE  LET at == Start(l, Len(l) + 1) - 1
         IN  Strtok(Place(w, at), Semicolon) = EndResult(w, at)
<1> DEFINE n == Len(l)
           a == At(l, n)
           str == tmp[w]
<1>1. n \in 1 .. Len(l)
  BY StartIs
<1>2. Len(str) \in Nat /\ a \in Nat /\ a + 3 <= Len(str) /\ str[a + 3] = Nul
  <2>1. HasItems(str, l, c, m, n)
    BY <1>1, LaidItems, Zenon
  <2> HIDE DEF str
  <2> QED BY <2>1, Zenon DEF HasItems
<1>3. a + 4 = Start(l, n + 1)
  BY <1>1, StartOrder
<1>4. Char(Semicolon) # Nul
  BY DelimitersDiffer
<1> HIDE DEF n, a, str
<1>5. a + 3 = Start(l, n + 1) - 1 /\ a + 3 \in Nat
  <2>1. a \in Nat
    BY <1>2, Zenon
  <2> QED BY <1>3, <2>1
<1>6. Strtok(Place(w, a + 3), Semicolon) = [token |-> {}, save |-> {Place(w, a + 3)}, tmp |-> tmp]
  BY <1>2, <1>4, <1>5, StrtokEnd DEF str
<1> QED BY <1>5, <1>6 DEF n, EndResult

(* The name of command k is cut off at the space. *)
LEMMA NameToken ==
  ASSUME NEW w, NEW l, FitLine(l), NEW k \in 1 .. Len(l), NEW c, NEW m, Laid(tmp[w], l, c, m), ~(k <= m)
  PROVE  Strtok(Place(w, Start(l, k)), Space) = NameResult(w, l, k)
<1> DEFINE a == At(l, k)
           b == Start(l, k)
           str == tmp[w]
<1>1. /\ str \in Seq(Items) /\ Len(str) \in Nat
      /\ b \in Nat /\ b >= 1 /\ a \in Nat /\ a + 3 <= Len(str)
      /\ (a = b \/ (a = b + 1 /\ str[b] = Char(Space)))
      /\ str[a] # Char(Space) /\ str[a] # Nul
      /\ str[a + 1] = Char(Space)
  <2>1. HasItems(str, l, c, m, k)
    BY LaidItems, Zenon
  <2> HIDE DEF str
  <2> QED BY <2>1, Zenon DEF HasItems
<1>3. Char(Space) # Nul
  BY DelimitersDiffer
<1> HIDE DEF a, b, str
<1> DEFINE N == Len(str)
<1>0. b \in Nat /\ b >= 1 /\ a \in Nat /\ a + 3 <= N /\ (a = b \/ a = b + 1) /\ N \in Nat
  BY <1>1, Zenon
<1> HIDE DEF N
<1>4. a \in b .. N /\ a + 1 \in a .. N /\ (a + 1) + 1 = a + 2
  BY <1>0
<1>5. \A j \in a .. (a + 1) - 1 : str[j] \notin {Char(Space), Nul}
  <2>1. \A j \in a .. (a + 1) - 1 : j = a
    BY <1>0
  <2> QED BY <1>1, <2>1
<1>6. \A j \in b .. a - 1 : str[j] = Char(Space)
  <2>1. \A j \in b .. a - 1 : j = b /\ a # b
    BY <1>0
  <2> QED BY <1>1, <2>1
<1>8. Strtok(Place(w, b), Space) =
           [token |-> {Place(w, a)},
            save  |-> {Place(w, IF str[a + 1] = Nul THEN a + 1 ELSE (a + 1) + 1)},
            tmp   |-> [tmp EXCEPT ![w] = [str EXCEPT ![a + 1] = Nul]]]
  <2>1. str[a + 1] \in {Char(Space), Nul}
    BY <1>1
  <2>2. str = tmp[w] /\ Len(str) \in Nat
    BY <1>1 DEF str
  <2>3. b \in Nat /\ a \in b .. Len(str) /\ a + 1 \in a .. Len(str)
    BY <1>0, <1>4, Zenon DEF N
  <2>4. str[a] # Char(Space) /\ str[a] # Nul
    BY <1>1
  <2> HIDE DEF N
  <2>5. Cut(tmp[w], Space, b, a, a + 1)
    BY <1>5, <1>6, <2>1, <2>2, <2>3, <2>4, Zenon DEF Cut
  <2>6. Strtok(Place(w, b), Space) = TokenCut(w, a, a + 1)
    BY <2>5, StrtokToken
  <2> QED BY <2>2, <2>6 DEF TokenCut
<1>9. (IF str[a + 1] = Nul THEN a + 1 ELSE (a + 1) + 1) = a + 2
  BY <1>1, <1>3, <1>4, Zenon
<1> QED BY <1>8, <1>9 DEF a, b, str, NameResult

(* Its argument ends where the command ends. *)
LEMMA ArgToken ==
  ASSUME NEW w, NEW l, FitLine(l), NEW k \in 1 .. Len(l), NEW c, NEW m, Laid(tmp[w], l, c, m), k <= c,
         tmp = [v \in Workers |-> tmp[v]], w \in Workers
  PROVE  Strtok(Place(w, At(l, k) + 2), Space) = ArgResult(w, l, k)
<1> DEFINE a == At(l, k)
           str == tmp[w]
<1>1. /\ str \in Seq(Items) /\ Len(str) \in Nat
      /\ a \in Nat /\ a + 3 <= Len(str)
      /\ str[a + 2] # Char(Space) /\ str[a + 2] # Nul
      /\ str[a + 3] = Nul
  <2>1. HasItems(str, l, c, m, k)
    BY LaidItems, Zenon
  <2> HIDE DEF str
  <2> QED BY <2>1, Zenon DEF HasItems
<1> HIDE DEF a, str
<1> DEFINE N == Len(str)
<1>0. a \in Nat /\ a + 3 <= N /\ N \in Nat
  BY <1>1, Zenon
<1> HIDE DEF N
<1>4. a + 2 \in Nat /\ a + 2 \in a + 2 .. N /\ a + 3 \in a + 2 .. N
  BY <1>0
<1>5. \A j \in a + 2 .. (a + 3) - 1 : str[j] \notin {Char(Space), Nul}
  <2>1. \A j \in a + 2 .. (a + 3) - 1 : j = a + 2
    BY <1>0
  <2> QED BY <1>1, <2>1
<1>6. \A j \in a + 2 .. (a + 2) - 1 : str[j] = Char(Space)
  <2>1. ~(\E j \in a + 2 .. (a + 2) - 1 : TRUE)
    BY <1>0
  <2> QED BY <2>1
<1>8. Strtok(Place(w, a + 2), Space) =
           [token |-> {Place(w, a + 2)},
            save  |-> {Place(w, IF str[a + 3] = Nul THEN a + 3 ELSE (a + 3) + 1)},
            tmp   |-> [tmp EXCEPT ![w] = [str EXCEPT ![a + 3] = Nul]]]
  <2>1. str[a + 3] \in {Char(Space), Nul}
    BY <1>1
  <2>2. str = tmp[w] /\ Len(str) \in Nat
    BY <1>1 DEF str
  <2>3. a + 2 \in Nat /\ a + 2 \in a + 2 .. Len(str) /\ a + 3 \in a + 2 .. Len(str)
    BY <1>0, <1>4, Zenon DEF N
  <2>4. str[a + 2] # Char(Space) /\ str[a + 2] # Nul
    BY <1>1
  <2> HIDE DEF N
  <2>5. Cut(tmp[w], Space, a + 2, a + 2, a + 3)
    BY <1>5, <1>6, <2>1, <2>2, <2>3, <2>4, Zenon DEF Cut
  <2>6. Strtok(Place(w, a + 2), Space) = TokenCut(w, a + 2, a + 3)
    BY <2>5, StrtokToken
  <2> QED BY <2>2, <2>6 DEF TokenCut
<1>9. [tmp EXCEPT ![w] = [str EXCEPT ![a + 3] = Nul]] = tmp
  <2>1. \A s \in Seq(Items) : \A y : s[y] = Nul => [s EXCEPT ![y] = Nul] = s
    OBVIOUS
  <2>2. [str EXCEPT ![a + 3] = Nul] = str
    BY <1>1, <2>1
  <2> QED BY <2>2 DEF str
<1> QED BY <1>1, <1>8, <1>9 DEF a, ArgResult

------------------------------------------------------------------------------
(* What run_job has when it has cut its line                               *)

(* The elements of a set of one, and of none, as a sequence. *)
LEMMA OneItem ==
  /\ SetToSeq({}) = <<>>
  /\ \A x : SetToSeq({x}) = <<x>> /\ (CHOOSE p \in {x} : TRUE) = x
<1>1. SetToSeq({}) = <<>>
  <2>1. Cardinality({}) = 0
    BY FS_EmptySet
  <2>2. [1 .. 0 -> {}] = {<<>>} /\ IsInjective(<<>>)
    <3>1. \A f \in [1 .. 0 -> {}] : f = <<>>
      OBVIOUS
    <3>2. <<>> \in [1 .. 0 -> {}] /\ DOMAIN <<>> = {}
      OBVIOUS
    <3>3. IsInjective(<<>>)
      BY <3>2 DEF IsInjective
    <3> QED BY <3>1, <3>2, <3>3
  <2>3. \E f \in [1 .. 0 -> {}] : IsInjective(f)
    BY <2>2
  <2>4. SetToSeq({}) \in [1 .. 0 -> {}]
    BY <2>1, <2>3 DEF SetToSeq
  <2> QED BY <2>2, <2>4
<1>2. ASSUME NEW x PROVE SetToSeq({x}) = <<x>>
  <2>1. Cardinality({x}) = 1
    BY FS_Singleton
  <2>2. <<x>> \in [1 .. 1 -> {x}] /\ IsInjective(<<x>>)
    BY DEF IsInjective
  <2>3. SetToSeq({x}) \in [1 .. 1 -> {x}]
    BY <2>1, <2>2 DEF SetToSeq
  <2>4. \A f \in [1 .. 1 -> {x}] : f = <<x>>
    OBVIOUS
  <2> QED BY <2>3, <2>4
<1>3. \A x : (CHOOSE p \in {x} : TRUE) = x
  OBVIOUS
<1> QED BY <1>1, <1>2, <1>3

(* The first c commands of line l and the first m arguments, as run_job    *)
(* keeps them.                                                             *)
Places(w, l, c) == [k \in 1 .. c |-> Place(w, Start(l, k))]
Args(l, m)      == [k \in 1 .. m |-> l[k].arg]

(* One more. *)
LEMMA OneMore ==
  ASSUME NEW w, NEW l, NEW c \in Nat
  PROVE  /\ Places(w, l, 0) = <<>> /\ Args(l, 0) = <<>>
         /\ Len(Places(w, l, c)) = c /\ Len(Args(l, c)) = c
         /\ \A k \in 1 .. c : Places(w, l, c)[k] = Place(w, Start(l, k)) /\ Args(l, c)[k] = l[k].arg
         /\ Places(w, l, c) \o <<Place(w, Start(l, c + 1))>> = Places(w, l, c + 1)
         /\ Append(Args(l, c), l[c + 1].arg) = Args(l, c + 1)
<1> DEFINE f(k) == Place(w, Start(l, k))
           g(k) == l[k].arg
<1>1. Places(w, l, 0) = <<>> /\ Args(l, 0) = <<>>
  BY DEF Places, Args
<1>2. /\ Places(w, l, c) = [k \in 1 .. c |-> f(k)] /\ Places(w, l, c + 1) = [k \in 1 .. c + 1 |-> f(k)]
      /\ Args(l, c) = [k \in 1 .. c |-> g(k)] /\ Args(l, c + 1) = [k \in 1 .. c + 1 |-> g(k)]
  BY DEF Places, Args
<1> HIDE DEF f, g
<1>3. /\ Len(Places(w, l, c)) = c /\ Len(Args(l, c)) = c
      /\ \A k \in 1 .. c : Places(w, l, c)[k] = f(k) /\ Args(l, c)[k] = g(k)
  BY <1>2
<1>4. [k \in 1 .. c |-> f(k)] \o <<f(c + 1)>> = [k \in 1 .. c + 1 |-> f(k)]
  OBVIOUS
<1>5. Append([k \in 1 .. c |-> g(k)], g(c + 1)) = [k \in 1 .. c + 1 |-> g(k)]
  OBVIOUS
<1> QED BY <1>1, <1>2, <1>3, <1>4, <1>5 DEF f, g

(* What the variables are.                                                 *)
Shape ==
  /\ line \in [Workers -> Lines]
  /\ tmp = [w \in Workers |-> tmp[w]]
  /\ pc \in [Workers -> {"split", "more", "name", "arg", "once", "round", "again", "done", "crashed"}]
  /\ commands = [w \in Workers |-> commands[w]]
  /\ args = [w \in Workers |-> args[w]]
  /\ i = [w \in Workers |-> i[w]]
  /\ repeats = [w \in Workers |-> repeats[w]]
  /\ repeatAt = [w \in Workers |-> repeatAt[w]]
  /\ executed = [w \in Workers |-> executed[w]]

(* One more command is cut off. *)
LEMMA SplitCuts ==
  ASSUME Shape, NEW w \in Workers, NEW l, l = line[w], FitLine(l), NEW c \in Nat, c + 1 \in 1 .. Len(l),
         Laid(tmp[w], l, c, 0), commands[w] = Places(w, l, c), Split(w),
         Place(w, Start(l, c + 1)) = IF pc[w] = "split" THEN Place(w, 1) ELSE Saved
  PROVE  /\ pc' = [pc EXCEPT ![w] = "more"] /\ save' = {Place(w, Behind(l, c + 1))}
         /\ \E s \in Seq(Items) : tmp' = [tmp EXCEPT ![w] = s] /\ Laid(s, l, c + 1, 0)
         /\ commands' = [commands EXCEPT ![w] = Places(w, l, c + 1)]
<1> DEFINE p == IF pc[w] = "split" THEN Place(w, 1) ELSE Saved
           r == Strtok(p, Semicolon)
           s == [tmp[w] EXCEPT ![At(l, c + 1) + 3] = Nul]
           P == Place(w, Start(l, c + 1))
           Q == Place(w, Behind(l, c + 1))
<1>1. /\ tmp' = r.tmp /\ save' = r.save
      /\ commands' = [commands EXCEPT ![w] = commands[w] \o SetToSeq(r.token)]
      /\ pc' = [pc EXCEPT ![w] = IF r.token = {} THEN "name" ELSE "more"]
  BY Zenon DEF Split, Semicolon
<1>2. ~(c + 1 <= c)
  OBVIOUS
<1>3. Strtok(P, Semicolon) = [token |-> {P}, save |-> {Q}, tmp |-> [tmp EXCEPT ![w] = s]]
  <2>1. PICK k \in 1 .. Len(l) : k = c + 1
    OBVIOUS
  <2>2. ~(k <= c)
    BY <1>2, <2>1
  <2>3. Strtok(Place(w, Start(l, k)), Semicolon) = SplitResult(w, l, k)
    BY <2>2, SplitToken
  <2> QED BY <2>1, <2>3 DEF SplitResult
<1>4. P = p
  OBVIOUS
<1>5. Laid(s, l, c + 1, 0) /\ s \in Seq(Items)
  <2>1. Laid(s, l, c + 1, 0)
    BY CutEnd
  <2> HIDE DEF s
  <2> QED BY <2>1 DEF Laid
<1> HIDE DEF p, s, Q
<1>6. r = [token |-> {P}, save |-> {Q}, tmp |-> [tmp EXCEPT ![w] = s]]
  BY <1>3, <1>4
<1> HIDE DEF r, P
<1>7. r.token = {P} /\ r.save = {Q} /\ r.tmp = [tmp EXCEPT ![w] = s]
  BY <1>6
<1>8. r.token # {} /\ SetToSeq(r.token) = <<P>>
  BY <1>7, OneItem
<1>9. commands[w] \o <<P>> = Places(w, l, c + 1)
  BY OneMore DEF P
<1> QED BY <1>1, <1>5, <1>7, <1>8, <1>9 DEF Q

(* Behind the last command the cutting at the semicolons ends.             *)
LEMMA SplitEnds ==
  ASSUME Shape, NEW w \in Workers, NEW l, l = line[w], FitLine(l), Laid(tmp[w], l, Len(l), 0), Split(w),
         pc[w] = "more", save = {Place(w, Behind(l, Len(l)))}
  PROVE  pc' = [pc EXCEPT ![w] = "name"] /\ tmp' = tmp /\ commands' = commands
<1> DEFINE p == IF pc[w] = "split" THEN Place(w, 1) ELSE Saved
           r == Strtok(p, Semicolon)
           Q == Place(w, Start(l, Len(l) + 1) - 1)
<1>1. /\ tmp' = r.tmp
      /\ commands' = [commands EXCEPT ![w] = commands[w] \o SetToSeq(r.token)]
      /\ pc' = [pc EXCEPT ![w] = IF r.token = {} THEN "name" ELSE "more"]
  BY Zenon DEF Split, Semicolon
<1>2. Strtok(Q, Semicolon) = [token |-> {}, save |-> {Q}, tmp |-> tmp]
  BY SplitEnd DEF EndResult
<1>3. p = Q
  <2>1. save = {Q}
    BY DEF Behind
  <2> HIDE DEF Q
  <2> QED BY <2>1, OneItem DEF Saved
<1> HIDE DEF p, Q
<1>4. r = [token |-> {}, save |-> {Q}, tmp |-> tmp]
  BY <1>2, <1>3
<1> HIDE DEF r
<1>5. r.token = {} /\ r.tmp = tmp /\ SetToSeq(r.token) = <<>>
  <2>1. r.token = {} /\ r.tmp = tmp
    BY <1>4
  <2> QED BY <2>1, OneItem
<1>6. commands' = commands
  <2>1. commands[w] \o <<>> = commands[w]
    OBVIOUS
  <2> QED BY <1>1, <1>5, <2>1 DEF Shape
<1> QED BY <1>1, <1>5, <1>6

(* The name of a command is cut off. *)
LEMMA NameCuts ==
  ASSUME Shape, NEW w \in Workers, NEW l, l = line[w], FitLine(l), NEW k \in 1 .. Len(l), i[w] = k,
         Laid(tmp[w], l, Len(l), k - 1), commands[w] = Places(w, l, Len(l)), CutName(w)
  PROVE  /\ pc' = [pc EXCEPT ![w] = "arg"] /\ save' = {Place(w, At(l, k) + 2)}
         /\ \E s \in Seq(Items) : tmp' = [tmp EXCEPT ![w] = s] /\ Laid(s, l, Len(l), k)
<1> DEFINE r == Strtok(commands[w][i[w]], Space)
           s == [tmp[w] EXCEPT ![At(l, k) + 1] = Nul]
           Q == Place(w, At(l, k) + 2)
<1>1. tmp' = r.tmp /\ save' = r.save /\ pc' = [pc EXCEPT ![w] = "arg"]
  BY Zenon DEF CutName, Space
<1>2. Len(l) \in Nat /\ ~(k <= k - 1) /\ k - 1 \in Nat /\ (k - 1) + 1 = k
  <2>1. Len(l) \in Nat
    BY StartIs
  <2> QED BY <2>1
<1>3. Strtok(Place(w, Start(l, k)), Space) = NameResult(w, l, k)
  BY <1>2, NameToken
<1>4. commands[w][i[w]] = Place(w, Start(l, k))
  <2>1. \A j \in 1 .. Len(l) : Places(w, l, Len(l))[j] = Place(w, Start(l, j))
    BY DEF Places
  <2> QED BY <2>1
<1>5. Laid(s, l, Len(l), k) /\ s \in Seq(Items)
  <2>0. PICK m \in Nat : m = k - 1 /\ m + 1 = k
    BY <1>2
  <2>1. Laid([tmp[w] EXCEPT ![At(l, m + 1) + 1] = Nul], l, Len(l), m + 1)
    BY <1>2, <2>0, CutSpace
  <2>2. Laid(s, l, Len(l), k)
    BY <2>0, <2>1
  <2> HIDE DEF s
  <2> QED BY <2>2 DEF Laid
<1> HIDE DEF s, Q
<1>6. r = [token |-> {Place(w, At(l, k))}, save |-> {Q}, tmp |-> [tmp EXCEPT ![w] = s]]
  BY <1>3, <1>4 DEF NameResult, s, Q
<1> HIDE DEF r
<1>7. r.save = {Q} /\ r.tmp = [tmp EXCEPT ![w] = s]
  BY <1>6
<1> QED BY <1>1, <1>5, <1>7 DEF Q

(* ... and its argument read. *)
LEMMA ArgCuts ==
  ASSUME Shape, NEW w \in Workers, NEW l, l = line[w], FitLine(l), NEW k \in 1 .. Len(l), i[w] = k,
         Laid(tmp[w], l, Len(l), k), save = {Place(w, At(l, k) + 2)},
         args[w] = Args(l, k - 1), CutArg(w)
  PROVE  /\ pc' = [pc EXCEPT ![w] = "name"] /\ tmp' = tmp
         /\ i' = [i EXCEPT ![w] = k + 1] /\ args' = [args EXCEPT ![w] = Args(l, k)]
<1> DEFINE P == Place(w, At(l, k) + 2)
           r == Strtok(Saved, Space)
           v == Atoi(CHOOSE p \in r.token : TRUE)
<1>1. /\ tmp' = r.tmp
      /\ IF r.token = {}
         THEN pc' = [pc EXCEPT ![w] = "crashed"] /\ UNCHANGED <<args, i>>
         ELSE /\ args' = [args EXCEPT ![w] = Append(args[w], v)]
              /\ i' = [i EXCEPT ![w] = i[w] + 1]
              /\ pc' = [pc EXCEPT ![w] = "name"]
  BY Zenon DEF CutArg, Space
<1>2. Len(l) \in Nat /\ k \in Nat /\ k - 1 \in Nat /\ (k - 1) + 1 = k /\ k <= Len(l)
  <2>1. Len(l) \in Nat
    BY StartIs
  <2> QED BY <2>1
<1>3. Strtok(P, Space) = ArgResult(w, l, k)
  <2>1. tmp = [u \in Workers |-> tmp[u]]
    BY DEF Shape
  <2> QED BY <1>2, <2>1, ArgToken
<1>4. Saved = P
  <2> HIDE DEF P
  <2>1. save = {P}
    BY DEF P
  <2> QED BY <2>1, OneItem DEF Saved
<1>5. r = [token |-> {P}, save |-> {Place(w, At(l, k) + 3)}, tmp |-> tmp]
  BY <1>3, <1>4 DEF ArgResult
<1>6. Atoi(P) = l[k].arg
  <2>1. HasItems(tmp[w], l, Len(l), k, k)
    BY LaidItems
  <2>2. tmp[w][At(l, k) + 2] = Num(l[k].arg)
    BY <2>1, Zenon DEF HasItems
  <2>3. P.of = w /\ P.at = At(l, k) + 2
    BY DEF Place
  <2> HIDE DEF P
  <2>4. Item(P) = Num(l[k].arg)
    BY <2>2, <2>3 DEF Item
  <2>5. l[k].arg \in Nat
    BY PieceIs
  <2>6. "num" \in DOMAIN Num(l[k].arg) /\ Num(l[k].arg).num = l[k].arg
    BY <2>5, ItemsDiffer
  <2> QED BY <2>4, <2>6 DEF Atoi
<1> HIDE DEF r, P
<1>7. r.token = {P} /\ r.tmp = tmp
  BY <1>5
<1>8. v = l[k].arg /\ r.token # {}
  BY <1>6, <1>7, OneItem
<1>9. Append(args[w], l[k].arg) = Args(l, k)
  <2>1. PICK m \in Nat : m = k - 1 /\ m + 1 = k
    BY <1>2
  <2>2. Append(Args(l, m), l[m + 1].arg) = Args(l, m + 1)
    BY <2>1, OneMore
  <2> QED BY <2>1, <2>2
<1> HIDE DEF v
<1> QED BY <1>1, <1>7, <1>8, <1>9

(* When all is cut a piece spells the name of its command. *)
LEMMA SpelledIs ==
  ASSUME NEW w \in Workers, NEW l, FitLine(l), NEW k \in 1 .. Len(l),
         Laid(tmp[w], l, Len(l), Len(l)), commands[w] = Places(w, l, Len(l))
  PROVE  /\ commands[w][k] = Place(w, Start(l, k))
         /\ \A name \in Names : Spelled(commands[w][k], name) <=> name = l[k].name
<1> DEFINE P == Place(w, Start(l, k))
           A == Place(w, At(l, k))
           Z == Place(w, At(l, k) + 1)
           q == IF Item(P) = Char(" ") THEN Beyond(P) ELSE P
<1>1. Len(l) \in Nat /\ k <= Len(l)
  <2>1. Len(l) \in Nat
    BY StartIs
  <2> QED BY <2>1
<1>2. commands[w][k] = P
  <2>1. \A j \in 1 .. Len(l) : Places(w, l, Len(l))[j] = Place(w, Start(l, j))
    BY DEF Places
  <2> QED BY <2>1
<1>3. \A x : Place(w, x).of = w /\ Place(w, x).at = x
  BY DEF Place
<1>4. \A x : Item(Place(w, x)) = tmp[w][x] /\ Beyond(Place(w, x)) = Place(w, x + 1)
  BY <1>3 DEF Item, Beyond
<1>5. HasItems(tmp[w], l, Len(l), Len(l), k)
  BY LaidItems
<1>6. /\ (At(l, k) = Start(l, k) \/ (At(l, k) = Start(l, k) + 1 /\ tmp[w][Start(l, k)] = Char(Space)))
      /\ tmp[w][At(l, k)] # Char(Space) /\ tmp[w][At(l, k)] = Word(l[k].name)
      /\ tmp[w][At(l, k) + 1] = Nul
  BY <1>1, <1>5, Zenon DEF HasItems
<1>7. q = A
  <2> DEFINE u == IF Item(P) = Char(Space) THEN Beyond(P) ELSE P
  <2>1. CASE At(l, k) = Start(l, k)
    <3>1. Item(P) # Char(Space)
      BY <1>4, <1>6, <2>1
    <3> QED BY <2>1, <3>1, Zenon DEF Space
  <2>2. CASE At(l, k) = Start(l, k) + 1 /\ tmp[w][Start(l, k)] = Char(Space)
    <3>1. Item(P) = Char(Space) /\ Beyond(P) = A
      BY <1>4, <2>2
    <3> QED BY <3>1, Zenon DEF Space
  <2> QED BY <1>6, <2>1, <2>2
<1>8. \A name : Spelled(P, name) <=> (Item(q) = Word(name) /\ Item(Beyond(q)) = Nul)
  BY Zenon DEF Spelled
<1> HIDE DEF q
<1>9. Item(q) = Word(l[k].name) /\ Item(Beyond(q)) = Nul
  BY <1>4, <1>6, <1>7
<1>10. l[k].name \in Names
  BY PieceIs
<1>11. \A name \in Names : Word(l[k].name) = Word(name) <=> l[k].name = name
  BY <1>10, ItemsDiffer
<1> HIDE DEF P
<1> QED BY <1>2, <1>8, <1>9, <1>11 DEF P

(* What is executed of a piece. *)
LEMMA ExecuteIs ==
  ASSUME Shape, NEW w \in Workers, NEW l, FitLine(l), NEW k \in 1 .. Len(l), i[w] = k,
         Laid(tmp[w], l, Len(l), Len(l)), commands[w] = Places(w, l, Len(l)), args[w] = Args(l, Len(l)),
         Execute(w), l[k].name # "repeat"
  PROVE  executed' = [executed EXCEPT ![w] = executed[w] \o <<[name |-> l[k].name, arg |-> l[k].arg]>>]
<1> DEFINE called == {n \in Basic : Spelled(commands[w][i[w]], n)}
           S == {[name |-> n, arg |-> args[w][i[w]]] : n \in called}
<1>1. executed' = [executed EXCEPT ![w] = executed[w] \o SetToSeq(S)]
  BY Zenon DEF Execute
<1>2. l[k].name \in Names
  BY PieceIs
<1>3. called = {l[k].name}
  <2>1. \A name \in Names : Spelled(commands[w][k], name) <=> name = l[k].name
    BY SpelledIs
  <2>2. l[k].name \in Basic /\ Basic \subseteq Names
    BY <1>2 DEF Names
  <2> QED BY <2>1, <2>2
<1>4. args[w][k] = l[k].arg
  <2>1. Len(l) \in Nat
    BY StartIs
  <2> QED BY <2>1, OneMore
<1> HIDE DEF called
<1>5. S = {[name |-> l[k].name, arg |-> l[k].arg]}
  BY <1>3, <1>4
<1> HIDE DEF S
<1>6. SetToSeq(S) = <<[name |-> l[k].name, arg |-> l[k].arg]>>
  BY <1>5, OneItem
<1> QED BY <1>1, <1>6

------------------------------------------------------------------------------
(* What a line means, command by command and round by round                *)

(* A call of a basic command, as it is recorded in executed.               *)
Calls == [name : Names, arg : Nat]
Call(l, k) == [name |-> l[k].name, arg |-> l[k].arg]

(* The commands behind command r up to command k; that part d times.       *)
Body(l, r, k)   == Called(SubSeq(l, r + 1, k))
Rounds(l, r, d) == FlattenSeq([x \in 1 .. d |-> Body(l, r, Len(l))])

(* One command more, and the whole in two parts. *)
LEMMA BodyIs ==
  ASSUME NEW l, FitLine(l)
  PROVE  /\ \A r \in 0 .. Len(l) : Body(l, r, r) = <<>>
         /\ \A r, k \in 0 .. Len(l) : r <= k => Body(l, r, k) \in Seq(Calls)
         /\ \A r \in 0 .. Len(l), k \in 1 .. Len(l) : r < k =>
              Body(l, r, k) = Body(l, r, k - 1) \o <<Call(l, k)>>
         /\ \A r, k, m \in 0 .. Len(l) : r <= k /\ k <= m => Body(l, r, m) = Body(l, r, k) \o Body(l, k, m)
         /\ Called(l) = Body(l, 0, Len(l))
<1> DEFINE n == Len(l)
           g == [k \in 1 .. n |-> Call(l, k)]
<1>1. l \in Seq(Command) /\ n \in Nat /\ n >= 1 /\ DOMAIN l = 1 .. n
  BY DEF FitLine
<1>2. \A k \in 1 .. n : l[k] \in Command /\ l[k].name \in Names /\ l[k].arg \in Nat /\ Call(l, k) \in Calls
  <2>1. ASSUME NEW k \in 1 .. n PROVE l[k] \in Command /\ l[k].name \in Names /\ l[k].arg \in Nat
    <3>1. l[k].name \in Names /\ l[k].arg \in Nat
      BY PieceIs
    <3>2. l[k] \in Command
      BY <1>1
    <3> QED BY <3>1, <3>2
  <2> QED BY <2>1 DEF Call, Calls
<1>3. ASSUME NEW r \in 0 .. n, NEW k \in 0 .. n, r <= k
      PROVE  Body(l, r, k) = [j \in 1 .. k - r |-> g[r + j]]
  <2>1. \A j \in 1 .. k - r : r + j \in 1 .. n /\ (r + 1) + j - 1 = r + j
    BY <1>1, <1>3
  <2>2. /\ SubSeq(l, r + 1, k) = [j \in 1 .. k - r |-> l[r + j]]
    <3>1. /\ k - (r + 1) + 1 = k - r /\ r + 1 \in Int /\ k \in Int /\ k - r \in Nat
          /\ (r + 1 <= k => k - (r + 1) + 1 = k - r) /\ (~(r + 1 <= k) => k - r = 0)
      BY <1>1, <1>3
    <3>2. \A j \in r + 1 .. k : l[j] \in Command
      <4>1. \A j \in r + 1 .. k : j \in 1 .. n
        BY <1>1
      <4> QED BY <1>1, <4>1
    <3> DEFINE q == SubSeq(l, r + 1, k)
    <3>3. q \in Seq(Command) /\ Len(q) = k - r /\ \A j \in 1 .. k - r : q[j] = l[(r + 1) + j - 1]
      <4>1. /\ q \in Seq(Command) /\ Len(q) = IF r + 1 <= k THEN k - (r + 1) + 1 ELSE 0
            /\ \A j \in 1 .. k - (r + 1) + 1 : q[j] = l[(r + 1) + j - 1]
        BY <3>1, <3>2, SubSeqProperties
      <4> HIDE DEF q
      <4> QED BY <3>1, <4>1
    <3> HIDE DEF n, q
    <3>4. DOMAIN q = 1 .. k - r /\ q = [j \in DOMAIN q |-> q[j]]
      BY <3>3
    <3>5. \A j \in 1 .. k - r : q[j] = l[r + j]
      BY <2>1, <3>3
    <3>6. q = [j \in 1 .. k - r |-> l[r + j]]
      BY <3>4, <3>5
    <3> QED BY <3>6 DEF q
  <2> DEFINE s == [j \in 1 .. k - r |-> l[r + j]]
  <2>3. Called(s) = [j \in 1 .. k - r |-> Call(l, r + j)]
    <3>1. DOMAIN s = 1 .. k - r /\ \A j \in 1 .. k - r : s[j] = l[r + j]
      OBVIOUS
    <3> HIDE DEF s
    <3>2. Called(s) = [j \in DOMAIN s |-> [name |-> s[j].name, arg |-> s[j].arg]]
      BY DEF Called
    <3> QED BY <3>1, <3>2 DEF Call
  <2>4. \A j \in 1 .. k - r : g[r + j] = Call(l, r + j)
    BY <2>1
  <2> HIDE DEF g, s
  <2> QED BY <2>2, <2>3, <2>4 DEF Body, s
<1>4. \A k \in 1 .. n : g[k] \in Calls /\ g[k] = Call(l, k)
  BY <1>2
<1> HIDE DEF n, g
<1>5. \A r \in 0 .. n : Body(l, r, r) = <<>>
  <2>1. \A r \in 0 .. n : r - r = 0 /\ r <= r
    BY <1>1
  <2>2. \A r \in 0 .. n : [j \in 1 .. 0 |-> g[r + j]] = <<>>
    OBVIOUS
  <2> QED BY <1>3, <2>1, <2>2
<1>6. \A r, k \in 0 .. n : r <= k => Body(l, r, k) \in Seq(Calls)
  <2> SUFFICES ASSUME NEW r \in 0 .. n, NEW k \in 0 .. n, r <= k PROVE Body(l, r, k) \in Seq(Calls)
    OBVIOUS
  <2>1. k - r \in Nat /\ \A j \in 1 .. k - r : r + j \in 1 .. n
    BY <1>1
  <2>2. \A j \in 1 .. k - r : g[r + j] \in Calls
    BY <1>4, <2>1
  <2>3. [j \in 1 .. k - r |-> g[r + j]] \in Seq(Calls)
    BY <2>1, <2>2
  <2> QED BY <1>3, <2>3
<1>7. ASSUME NEW r \in 0 .. n, NEW k \in 1 .. n, r < k
      PROVE  Body(l, r, k) = Body(l, r, k - 1) \o <<Call(l, k)>>
  <2>1. k - 1 \in 0 .. n /\ k \in 0 .. n /\ r <= k /\ r <= k - 1 /\ (k - 1) - r \in Nat /\ k - r = ((k - 1) - r) + 1
        /\ r + (((k - 1) - r) + 1) = k
    BY <1>1, <1>7
  <2> DEFINE m == (k - 1) - r
             h(j) == g[r + j]
  <2>2. Body(l, r, k) = [j \in 1 .. m + 1 |-> h(j)] /\ Body(l, r, k - 1) = [j \in 1 .. m |-> h(j)]
    BY <1>3, <2>1
  <2>3. h(m + 1) = Call(l, k)
    BY <1>4, <2>1
  <2>4. m \in Nat
    BY <2>1
  <2> HIDE DEF m, h
  <2>5. [j \in 1 .. m |-> h(j)] \o <<h(m + 1)>> = [j \in 1 .. m + 1 |-> h(j)]
    BY <2>4
  <2> QED BY <2>2, <2>3, <2>5
<1>8. ASSUME NEW r \in 0 .. n, NEW k \in 0 .. n, NEW m \in 0 .. n, r <= k, k <= m
      PROVE  Body(l, r, m) = Body(l, r, k) \o Body(l, k, m)
  <2>1. r <= m /\ k - r \in Nat /\ m - k \in Nat /\ m - r = (k - r) + (m - k)
    BY <1>1, <1>8
  <2> DEFINE a == k - r
             b == m - k
             h(j) == g[r + j]
  <2>2. Body(l, r, m) = [j \in 1 .. a + b |-> h(j)] /\ Body(l, r, k) = [j \in 1 .. a |-> h(j)]
    BY <1>3, <1>8, <2>1
  <2>3. Body(l, k, m) = [j \in 1 .. b |-> h(a + j)]
    <3>1. \A j \in 1 .. b : k + j = r + (a + j)
      BY <1>1
    <3>2. Body(l, k, m) = [j \in 1 .. b |-> g[k + j]]
      BY <1>3, <1>8, <2>1
    <3> QED BY <3>1, <3>2
  <2>4. a \in Nat /\ b \in Nat
    BY <2>1
  <2> HIDE DEF a, b, h
  <2>5. [j \in 1 .. a + b |-> h(j)] = [j \in 1 .. a |-> h(j)] \o [j \in 1 .. b |-> h(a + j)]
    BY <2>4
  <2> QED BY <2>2, <2>3, <2>5
<1>9. Called(l) = Body(l, 0, n)
  <2>1. SubSeq(l, 0 + 1, n) = l
    BY <1>1, SubSeqFull DEF n
  <2> QED BY <2>1 DEF Body
<1> QED BY <1>5, <1>6, <1>7, <1>8, <1>9 DEF n

(* One round more, and those that are left. *)
LEMMA RoundsAre ==
  ASSUME NEW l, FitLine(l), NEW r \in 0 .. Len(l)
  PROVE  /\ Rounds(l, r, 0) = <<>>
         /\ \A d \in Nat : Rounds(l, r, d) \in Seq(Calls)
         /\ \A d \in Nat : Rounds(l, r, d + 1) = Rounds(l, r, d) \o Body(l, r, Len(l))
         /\ \A d, m \in Nat : \E rest \in Seq(Calls) : Rounds(l, r, d + m) = Rounds(l, r, d) \o rest
<1> DEFINE B == Body(l, r, Len(l))
           R(d) == Rounds(l, r, d)
           P(d) == [x \in 1 .. d |-> B]
<1>1. B \in Seq(Calls)
  <2>1. Len(l) \in Nat
    BY StartIs
  <2> QED BY <2>1, BodyIs
<1>2. \A d : R(d) = FlattenSeq(P(d))
  BY DEF Rounds
<1> HIDE DEF B, R
<1>3. \A d \in Nat : P(d) \in Seq(Seq(Calls)) /\ P(d + 1) = Append(P(d), B) /\ P(0) = <<>>
  BY <1>1
<1> HIDE DEF P
<1>4. R(0) = <<>>
  BY <1>2, <1>3, FlattenAppend
<1>5. \A d \in Nat : R(d) \in Seq(Calls)
  BY <1>2, <1>3, FlattenAppend
<1>6. \A d \in Nat : R(d + 1) = R(d) \o B
  <2> SUFFICES ASSUME NEW d \in Nat PROVE R(d + 1) = R(d) \o B
    OBVIOUS
  <2>1. P(d) \in Seq(Seq(Calls)) /\ P(d + 1) = Append(P(d), B)
    BY <1>3
  <2>2. FlattenSeq(Append(P(d), B)) = FlattenSeq(P(d)) \o B
    BY <1>1, <2>1, FlattenAppend
  <2> QED BY <1>2, <2>1, <2>2
<1>7. ASSUME NEW d \in Nat PROVE \A m \in Nat : \E rest \in Seq(Calls) : R(d + m) = R(d) \o rest
  <2> DEFINE S == {m \in Nat : \E rest \in Seq(Calls) : R(d + m) = R(d) \o rest}
  <2>1. 0 \in S
    <3>1. d + 0 = d /\ <<>> \in Seq(Calls) /\ R(d) \in Seq(Calls)
      BY <1>5
    <3>2. \A s \in Seq(Calls) : s \o <<>> = s
      OBVIOUS
    <3> QED BY <3>1, <3>2
  <2>2. ASSUME NEW m \in Nat, m \in S PROVE m + 1 \in S
    <3>1. PICK rest \in Seq(Calls) : R(d + m) = R(d) \o rest
      BY <2>2
    <3>2. d + m \in Nat /\ d + (m + 1) = (d + m) + 1
      OBVIOUS
    <3>3. R(d + (m + 1)) = (R(d) \o rest) \o B
      BY <1>6, <3>1, <3>2
    <3>4. \A u, v \in Seq(Calls) : u \o v \in Seq(Calls)
      BY ConcatProperties
    <3>5. \A u, v, x \in Seq(Calls) : (u \o v) \o x = u \o (v \o x)
      BY ConcatAssociative
    <3>6. R(d) \in Seq(Calls)
      BY <1>5
    <3>7. rest \o B \in Seq(Calls) /\ R(d + (m + 1)) = R(d) \o (rest \o B)
      BY <1>1, <3>3, <3>4, <3>5, <3>6
    <3>8. \E t \in Seq(Calls) : R(d + (m + 1)) = R(d) \o t
      BY <3>7
    <3> QED BY <3>8
  <2> HIDE DEF S
  <2>3. Nat \subseteq S
    BY <2>1, <2>2, Induction
  <2> QED BY <2>3 DEF S
<1> QED BY <1>4, <1>5, <1>6, <1>7 DEF R, B

(* The meaning in these terms. *)
LEMMA MeaningIs ==
  ASSUME NEW l, FitLine(l)
  PROVE  /\ (\A k \in 1 .. Len(l) : l[k].name # "repeat") => Meaning(l) = Body(l, 0, Len(l))
         /\ \A r \in 1 .. Len(l) : l[r].name = "repeat" =>
              Meaning(l) = Body(l, 0, r - 1) \o Rounds(l, r, l[r].arg)
<1> DEFINE at == {k \in DOMAIN l : l[k].name = "repeat"}
<1>1. DOMAIN l = 1 .. Len(l) /\ Len(l) \in Nat
  BY DEF FitLine
<1>2. ASSUME \A k \in 1 .. Len(l) : l[k].name # "repeat" PROVE Meaning(l) = Body(l, 0, Len(l))
  <2>1. at = {}
    BY <1>1, <1>2
  <2>2. Called(l) = Body(l, 0, Len(l))
    BY BodyIs
  <2> QED BY <2>1, <2>2 DEF Meaning
<1>3. ASSUME NEW r \in 1 .. Len(l), l[r].name = "repeat"
      PROVE  Meaning(l) = Body(l, 0, r - 1) \o Rounds(l, r, l[r].arg)
  <2>1. at = {r}
    BY <1>1, <1>3 DEF FitLine
  <2>2. Min(at) = r
    <3>1. at \in SUBSET Int /\ r \in at /\ \A y \in at : r <= y
      BY <1>1, <2>1
    <3> HIDE DEF at
    <3> QED BY <3>1, MinIs
  <2>3. Body(l, 0, r - 1) = Called(SubSeq(l, 1, r - 1))
    <3>1. 0 + 1 = 1
      OBVIOUS
    <3> QED BY <3>1 DEF Body
  <2>4. Rounds(l, r, l[r].arg) = FlattenSeq([x \in 1 .. l[r].arg |-> Called(SubSeq(l, r + 1, Len(l)))])
    BY DEF Rounds, Body
  <2>5. at # {}
    BY <2>1
  <2> HIDE DEF at
  <2>6. Meaning(l) = Called(SubSeq(l, 1, r - 1))
                       \o FlattenSeq([x \in 1 .. l[r].arg |-> Called(SubSeq(l, r + 1, Len(l)))])
    BY <2>2, <2>5 DEF Meaning, at
  <2> QED BY <2>3, <2>4, <2>6
<1> QED BY <1>2, <1>3

------------------------------------------------------------------------------
(* Where a worker is in its line                                           *)

(* What is cut of the line before the commands are executed.               *)
Parse(w) ==
  /\ pc[w] = "split" =>
       Laid(tmp[w], line[w], 0, 0) /\ commands[w] = <<>> /\ args[w] = <<>> /\ i[w] = 1
  /\ pc[w] = "more" =>
       /\ args[w] = <<>> /\ i[w] = 1
       /\ \E c \in 1 .. Len(line[w]) :
            /\ Laid(tmp[w], line[w], c, 0) /\ commands[w] = Places(w, line[w], c)
            /\ save = {Place(w, Behind(line[w], c))}
  /\ pc[w] = "name" =>
       /\ i[w] \in 1 .. Len(line[w]) + 1 /\ args[w] = Args(line[w], i[w] - 1)
       /\ Laid(tmp[w], line[w], Len(line[w]), i[w] - 1)
  /\ pc[w] = "arg" =>
       /\ i[w] \in 1 .. Len(line[w]) /\ args[w] = Args(line[w], i[w] - 1)
       /\ Laid(tmp[w], line[w], Len(line[w]), i[w]) /\ save = {Place(w, At(line[w], i[w]) + 2)}
  /\ pc[w] \notin {"split", "more"} => commands[w] = Places(w, line[w], Len(line[w]))
  /\ pc[w] \in {"once", "round", "again", "done"} =>
       Laid(tmp[w], line[w], Len(line[w]), Len(line[w])) /\ args[w] = Args(line[w], Len(line[w]))

(* Command r of line l is the repeat, and d rounds have begun; of a worker *)
(* at `at', at command k, with `left' rounds left, that has executed `ex'. *)
Round(l, at, k, left, mark, ex, r, d) ==
  /\ l[r].name = "repeat" /\ mark = r /\ left = l[r].arg - d
  /\ at = "again" =>
       /\ d >= 1 /\ k \in r + 1 .. Len(l) + 1
       /\ ex = (Body(l, 0, r - 1) \o Rounds(l, r, d - 1)) \o Body(l, r, k - 1)
  /\ at # "again" => ex = Body(l, 0, r - 1) \o Rounds(l, r, d)

(* Such a worker while it cuts, before the repeat, in a round, and at the  *)
(* end.                                                                    *)
NoRepeatIn(l) == \A k \in 1 .. Len(l) : l[k].name # "repeat"

Executing(l, at, k, left, mark, ex) ==
  /\ at \in {"split", "more", "name", "arg"} => ex = <<>> /\ left = 0
  /\ at = "once" =>
       /\ k \in 1 .. Len(l) + 1 /\ left = 0
       /\ \A j \in 1 .. k - 1 : l[j].name # "repeat"
       /\ ex = Body(l, 0, k - 1)
  /\ at \in {"round", "again", "done"} =>
       \/ NoRepeatIn(l) /\ at # "again" /\ left = 0 /\ ex = Body(l, 0, Len(l))
       \/ \E r \in 1 .. Len(l) : \E d \in 0 .. l[r].arg : Round(l, at, k, left, mark, ex, r, d)
  /\ at = "done" => left = 0

(* What is executed of the line.                                           *)
Executes(w) == Executing(line[w], pc[w], i[w], repeats[w], repeatAt[w], executed[w])

(* Nobody cuts at the same time as a worker that is not mixed up.          *)
Clean == Workers \ mixed

Alone == \A w \in Clean : w \in Cutting => Cutting = {w}

(* The pieces s are in the copies of mixed-up workers.                     *)
Inside(s, m) == \E S : s \in Seq(S) /\ \A p \in S : p.of \in m

(* Such workers have begun to cut, and cut in their own copies only.       *)
Confined ==
  /\ mixed \subseteq Workers
  /\ \A w \in mixed : pc[w] # "split"
  /\ \A w \in mixed \cap Cutting :
       /\ i[w] \in Nat \ {0} /\ Inside(commands[w], mixed)
       /\ \E p : save = {p} /\ p.of \in mixed

(* Together, what every step of run_job preserves.                         *)
RunInv ==
  /\ Shape /\ Alone /\ Confined
  /\ \A w \in Clean : pc[w] # "crashed" /\ Parse(w) /\ Executes(w)

(* Every line is fit to be cut.                                            *)
FitLines == \A l \in Lines : FitLine(l)

(* All but worker w stay where they are.                                   *)
Elsewhere(w) ==
  /\ line' = line
  /\ \A v \in Workers \ {w} :
       /\ tmp'[v] = tmp[v] /\ pc'[v] = pc[v] /\ commands'[v] = commands[v] /\ args'[v] = args[v]
       /\ i'[v] = i[v] /\ repeats'[v] = repeats[v] /\ repeatAt'[v] = repeatAt[v]
       /\ executed'[v] = executed[v]

(* It is enough to look at the worker that moves.                          *)
LEMMA OneMoves ==
  ASSUME RunInv, NEW w \in Workers, w \in Clean, mixed' = mixed,
         Shape', Elsewhere(w), pc'[w] # "crashed", Parse(w)', Executes(w)',
         save' = save \/ Cutting \subseteq {w}, Cutting' \subseteq Cutting \cup {w},
         w \in Cutting' \ Cutting => Cutting = {}
  PROVE  RunInv'
<1>0. Clean' = Clean /\ \A v \in mixed : v \in Workers \ {w}
  BY DEF Clean, RunInv, Confined
<1>1. Alone'
  <2> SUFFICES ASSUME NEW v \in Clean, v \in Cutting' PROVE Cutting' = {v}
    BY <1>0 DEF Alone
  <2>1. Alone
    BY DEF RunInv
  <2>2. CASE v \in Cutting
    <3>1. Cutting = {v}
      BY <2>1, <2>2 DEF Alone
    <3>2. w = v \/ w \notin Cutting'
      BY <3>1
    <3> QED BY <3>1, <3>2
  <2>3. CASE v \notin Cutting
    <3>1. v = w /\ Cutting = {}
      BY <2>3
    <3> QED BY <3>1
  <2> QED BY <2>2, <2>3
<1>3. Confined'
  <2>1. Confined
    BY DEF RunInv
  <2>2. mixed' \subseteq Workers /\ \A v \in mixed' : pc'[v] # "split"
    BY <1>0, <2>1 DEF Confined, Elsewhere
  <2>3. ASSUME NEW v \in mixed' \cap Cutting'
        PROVE  /\ i'[v] \in Nat \ {0} /\ Inside(commands'[v], mixed')
               /\ \E p : save' = {p} /\ p.of \in mixed'
    <3>1. v \in mixed \cap Cutting /\ v # w
      BY <1>0, <2>3
    <3>2. ~(Cutting \subseteq {w})
      BY <3>1
    <3>3. i'[v] = i[v] /\ commands'[v] = commands[v] /\ save' = save
      BY <1>0, <3>1, <3>2 DEF Elsewhere
    <3> QED BY <2>1, <3>1, <3>3 DEF Confined
  <2> QED BY <2>2, <2>3 DEF Confined
<1>2. ASSUME NEW v \in Clean PROVE pc'[v] # "crashed" /\ Parse(v)' /\ Executes(v)'
  <2>1. CASE v = w
    BY <2>1
  <2>2. CASE v # w
    <3>1. pc[v] # "crashed" /\ Parse(v) /\ Executes(v)
      BY DEF RunInv
    <3>2. /\ line'[v] = line[v] /\ tmp'[v] = tmp[v] /\ pc'[v] = pc[v] /\ commands'[v] = commands[v]
          /\ args'[v] = args[v] /\ i'[v] = i[v] /\ repeats'[v] = repeats[v] /\ repeatAt'[v] = repeatAt[v]
          /\ executed'[v] = executed[v]
      BY <2>2 DEF Elsewhere, Clean
    <3>3. pc[v] \in {"more", "arg"} => save' = save
      BY <2>2 DEF Cutting, Clean
    <3>4. Executes(v)'
      BY <3>1, <3>2 DEF Executes
    <3>5. Parse(v)'
      BY <3>1, <3>2, <3>3 DEF Parse
    <3> QED BY <3>1, <3>2, <3>4, <3>5
  <2> QED BY <2>1, <2>2
<1> QED BY <1>0, <1>1, <1>2, <1>3 DEF RunInv

(* The line of such a worker is fit. *)
LEMMA LineFits ==
  ASSUME RunInv, FitLines, NEW w \in Workers, w \in Clean
  PROVE  /\ FitLine(line[w]) /\ Len(line[w]) \in Nat /\ Len(line[w]) >= 1
         /\ Shape /\ Parse(w) /\ Executes(w)
<1>1. FitLine(line[w])
  BY DEF RunInv, FitLines, Shape
<1>2. Len(line[w]) \in Nat /\ Len(line[w]) >= 1
  BY <1>1, StartIs
<1> QED BY <1>1, <1>2 DEF RunInv

(* A command more is cut off. *)
LEMMA SplitMore ==
  ASSUME RunInv, FitLines, NEW w \in Workers, w \in Clean, mixed' = mixed, Split(w), pc[w] = "split" => Cutting = {},
         NEW c \in Nat, c + 1 \in 1 .. Len(line[w]),
         Laid(tmp[w], line[w], c, 0), commands[w] = Places(w, line[w], c),
         Place(w, Start(line[w], c + 1)) = IF pc[w] = "split" THEN Place(w, 1) ELSE Saved
  PROVE  RunInv'
<1> DEFINE l == line[w]
<1>1. FitLine(l) /\ Len(l) \in Nat /\ Shape /\ Parse(w) /\ Executes(w)
  BY LineFits
<1>2. pc[w] \in {"split", "more"} /\ UNCHANGED <<line, args, i, repeats, repeatAt, executed>>
  BY Zenon DEF Split
<1>3. /\ pc' = [pc EXCEPT ![w] = "more"] /\ save' = {Place(w, Behind(l, c + 1))}
      /\ \E s \in Seq(Items) : tmp' = [tmp EXCEPT ![w] = s] /\ Laid(s, l, c + 1, 0)
      /\ commands' = [commands EXCEPT ![w] = Places(w, l, c + 1)]
  <2>1. /\ l = line[w] /\ c + 1 \in 1 .. Len(l) /\ Laid(tmp[w], l, c, 0) /\ commands[w] = Places(w, l, c)
        /\ Place(w, Start(l, c + 1)) = IF pc[w] = "split" THEN Place(w, 1) ELSE Saved
    OBVIOUS
  <2> HIDE DEF l
  <2> QED BY <1>1, <2>1, SplitCuts
<1> HIDE DEF l
<1>4. PICK s \in Seq(Items) : tmp' = [tmp EXCEPT ![w] = s] /\ Laid(s, l, c + 1, 0)
  BY <1>3
<1>5. Shape'
  BY <1>1, <1>2, <1>3, <1>4 DEF Shape
<1>6. Elsewhere(w)
  BY <1>1, <1>2, <1>3, <1>4 DEF Shape, Elsewhere
<1>7. /\ line'[w] = l /\ tmp'[w] = s /\ pc'[w] = "more" /\ commands'[w] = Places(w, l, c + 1)
      /\ args'[w] = args[w] /\ i'[w] = i[w] /\ repeats'[w] = repeats[w] /\ repeatAt'[w] = repeatAt[w]
      /\ executed'[w] = executed[w]
  BY <1>1, <1>2, <1>3, <1>4 DEF Shape, l
<1>8. Parse(w)'
  <2>1. args[w] = <<>> /\ i[w] = 1
    BY <1>1, <1>2 DEF Parse
  <2>2. c + 1 \in 1 .. Len(l)
    BY DEF l
  <2>3. \E x \in 1 .. Len(l) :
            /\ Laid(s, l, x, 0) /\ commands'[w] = Places(w, l, x) /\ save' = {Place(w, Behind(l, x))}
    BY <1>3, <1>4, <1>7, <2>2
  <2> QED BY <1>7, <2>1, <2>3 DEF Parse
<1>9. Executes(w)'
  <2>1. executed[w] = <<>> /\ repeats[w] = 0
    BY <1>1, <1>2 DEF Executes, Executing
  <2> QED BY <1>7, <2>1 DEF Executes, Executing
<1>10. Cutting \subseteq {w} /\ Cutting' \subseteq Cutting \cup {w} /\ (w \in Cutting' \ Cutting => Cutting = {})
  <2>1. w \in Cutting \/ Cutting = {}
    BY <1>2 DEF Cutting
  <2>2. Cutting' \subseteq Cutting \cup {w}
    BY <1>6 DEF Cutting, Elsewhere
  <2> QED BY <2>1, <2>2 DEF RunInv, Alone
<1> QED BY <1>5, <1>6, <1>7, <1>8, <1>9, <1>10, OneMoves

(* strtok at the semicolons. *)
LEMMA SplitRuns ==
  ASSUME RunInv, FitLines, NEW w \in Workers, w \in Clean, mixed' = mixed, Split(w), pc[w] = "split" => Cutting = {}
  PROVE  RunInv'
<1> DEFINE l == line[w]
<1>1. FitLine(l) /\ Len(l) \in Nat /\ Len(l) >= 1 /\ Shape /\ Parse(w) /\ Executes(w)
  BY LineFits
<1>2. pc[w] \in {"split", "more"} /\ UNCHANGED <<line, args, i, repeats, repeatAt, executed>>
  BY Zenon DEF Split
<1>3. CASE pc[w] = "split"
  <2>1. Laid(tmp[w], l, 0, 0) /\ commands[w] = <<>>
    BY <1>1, <1>3 DEF Parse
  <2>2. Places(w, l, 0) = <<>>
    BY OneMore
  <2>3. Start(l, 1) = 1 /\ 0 + 1 = 1 /\ 0 + 1 \in 1 .. Len(l)
    BY <1>1, StartIs
  <2>4. Place(w, Start(l, 0 + 1)) = IF pc[w] = "split" THEN Place(w, 1) ELSE Saved
    BY <1>3, <2>3
  <2> QED BY <2>1, <2>2, <2>3, <2>4, SplitMore
<1>4. CASE pc[w] = "more"
  <2>1. PICK c \in 1 .. Len(l) :
            /\ Laid(tmp[w], l, c, 0) /\ commands[w] = Places(w, l, c)
            /\ save = {Place(w, Behind(l, c))}
    BY <1>1, <1>4 DEF Parse
  <2>2. CASE c # Len(l)
    <3>1. c \in Nat /\ c + 1 \in 1 .. Len(l) /\ Behind(l, c) = Start(l, c + 1)
      BY <1>1, <2>2 DEF Behind
    <3>2. Saved = Place(w, Start(l, c + 1))
      BY <2>1, <3>1, OneItem DEF Saved
    <3>3. Place(w, Start(l, c + 1)) = IF pc[w] = "split" THEN Place(w, 1) ELSE Saved
      BY <1>4, <3>2
    <3> QED BY <2>1, <3>1, <3>3, SplitMore
  <2>3. CASE c = Len(l)
    <3>1. pc' = [pc EXCEPT ![w] = "name"] /\ tmp' = tmp /\ commands' = commands
      BY <1>1, <1>4, <2>1, <2>3, SplitEnds
    <3> HIDE DEF l
    <3>2. Shape'
      BY <1>1, <1>2, <3>1 DEF Shape
    <3>3. Elsewhere(w)
      BY <1>1, <1>2, <3>1 DEF Shape, Elsewhere
    <3>4. pc'[w] = "name"
      BY <1>1, <3>1 DEF Shape
    <3>5. Parse(w)'
      <4>1. args[w] = <<>> /\ i[w] = 1 /\ Args(l, 0) = <<>>
        BY <1>1, <1>4, OneMore DEF Parse
      <4>2. 1 \in 1 .. Len(l) + 1 /\ 1 - 1 = 0
        BY <1>1
      <4>3. Args(l, 1 - 1) = <<>> /\ Laid(tmp[w], l, Len(l), 1 - 1) /\ commands[w] = Places(w, l, Len(l))
        BY <2>1, <2>3, <4>1, <4>2
      <4> QED BY <1>2, <3>1, <3>4, <4>1, <4>2, <4>3 DEF Parse, l
    <3>6. Executes(w)'
      <4>1. executed[w] = <<>> /\ repeats[w] = 0
        BY <1>1, <1>4 DEF Executes, Executing
      <4> QED BY <1>2, <3>4, <4>1 DEF Executes, Executing
    <3>7. w \in Cutting /\ Cutting \subseteq {w} /\ Cutting' \subseteq Cutting \cup {w}
      <4>1. w \in Cutting
        BY <1>4 DEF Cutting
      <4>2. Cutting' \subseteq Cutting \cup {w}
        BY <3>3 DEF Cutting, Elsewhere
      <4> QED BY <4>1, <4>2 DEF RunInv, Alone
    <3> QED BY <3>2, <3>3, <3>4, <3>5, <3>6, <3>7, OneMoves
  <2> QED BY <2>2, <2>3
<1> QED BY <1>2, <1>3, <1>4

(* strtok at the first space of a command. *)
LEMMA NameRuns ==
  ASSUME RunInv, FitLines, NEW w \in Workers, w \in Clean, mixed' = mixed, CutName(w)
  PROVE  RunInv'
<1> DEFINE l == line[w]
           k == i[w]
<1>1. FitLine(l) /\ Len(l) \in Nat /\ Len(l) >= 1 /\ Shape /\ Parse(w) /\ Executes(w)
  BY LineFits
<1>2. pc[w] = "name" /\ k <= Len(commands[w]) /\ UNCHANGED <<line, commands, args, i, repeats, repeatAt, executed>>
  BY Zenon DEF CutName
<1>3. /\ k \in 1 .. Len(l) + 1 /\ args[w] = Args(l, k - 1) /\ Laid(tmp[w], l, Len(l), k - 1)
      /\ commands[w] = Places(w, l, Len(l))
  BY <1>1, <1>2 DEF Parse
<1>4. k \in 1 .. Len(l)
  <2>1. Len(Places(w, l, Len(l))) = Len(l)
    BY <1>1, OneMore
  <2> QED BY <1>1, <1>2, <1>3, <2>1
<1>5. /\ pc' = [pc EXCEPT ![w] = "arg"] /\ save' = {Place(w, At(l, k) + 2)}
      /\ \E s \in Seq(Items) : tmp' = [tmp EXCEPT ![w] = s] /\ Laid(s, l, Len(l), k)
  BY <1>1, <1>3, <1>4, NameCuts
<1> HIDE DEF l, k
<1>6. PICK s \in Seq(Items) : tmp' = [tmp EXCEPT ![w] = s] /\ Laid(s, l, Len(l), k)
  BY <1>5
<1>7. Shape'
  BY <1>1, <1>2, <1>5, <1>6 DEF Shape
<1>8. Elsewhere(w)
  BY <1>1, <1>2, <1>5, <1>6 DEF Shape, Elsewhere
<1>9. pc'[w] = "arg" /\ tmp'[w] = s /\ line'[w] = l /\ i'[w] = k /\ args'[w] = args[w] /\ commands'[w] = commands[w]
  BY <1>1, <1>2, <1>5, <1>6 DEF Shape, l, k
<1>10. Parse(w)'
  BY <1>3, <1>4, <1>5, <1>6, <1>9 DEF Parse
<1>11. Executes(w)'
  <2>1. executed[w] = <<>> /\ repeats[w] = 0
    BY <1>1, <1>2 DEF Executes, Executing
  <2> QED BY <1>2, <1>9, <2>1 DEF Executes, Executing
<1>12. w \in Cutting /\ Cutting \subseteq {w} /\ Cutting' \subseteq Cutting \cup {w}
  <2>1. w \in Cutting
    BY <1>2 DEF Cutting
  <2>2. Cutting' \subseteq Cutting \cup {w}
    BY <1>8 DEF Cutting, Elsewhere
  <2> QED BY <2>1, <2>2 DEF RunInv, Alone
<1> QED BY <1>7, <1>8, <1>9, <1>10, <1>11, <1>12, OneMoves

(* ... and of its argument. *)
LEMMA ArgRuns ==
  ASSUME RunInv, FitLines, NEW w \in Workers, w \in Clean, mixed' = mixed, CutArg(w)
  PROVE  RunInv'
<1> DEFINE l == line[w]
           k == i[w]
<1>1. FitLine(l) /\ Len(l) \in Nat /\ Len(l) >= 1 /\ Shape /\ Parse(w) /\ Executes(w)
  BY LineFits
<1>2. pc[w] = "arg" /\ UNCHANGED <<line, commands, repeats, repeatAt, executed>>
  BY Zenon DEF CutArg
<1>3. /\ k \in 1 .. Len(l) /\ args[w] = Args(l, k - 1) /\ Laid(tmp[w], l, Len(l), k)
      /\ commands[w] = Places(w, l, Len(l)) /\ save = {Place(w, At(l, k) + 2)}
  BY <1>1, <1>2 DEF Parse
<1>4. /\ pc' = [pc EXCEPT ![w] = "name"] /\ tmp' = tmp
      /\ i' = [i EXCEPT ![w] = k + 1] /\ args' = [args EXCEPT ![w] = Args(l, k)]
  BY <1>1, <1>3, ArgCuts
<1> HIDE DEF l, k
<1>5. Shape'
  BY <1>1, <1>2, <1>4 DEF Shape
<1>6. Elsewhere(w)
  BY <1>1, <1>2, <1>4 DEF Shape, Elsewhere
<1>7. /\ pc'[w] = "name" /\ tmp'[w] = tmp[w] /\ line'[w] = l /\ i'[w] = k + 1 /\ args'[w] = Args(l, k)
      /\ commands'[w] = commands[w]
  BY <1>1, <1>2, <1>4 DEF Shape, l
<1>8. k + 1 \in 1 .. Len(l) + 1 /\ (k + 1) - 1 = k
  BY <1>1, <1>3
<1>9. Parse(w)'
  <2>1. args'[w] = Args(l, (k + 1) - 1) /\ Laid(tmp[w], l, Len(l), (k + 1) - 1)
    BY <1>3, <1>7, <1>8
  <2> QED BY <1>3, <1>7, <1>8, <2>1 DEF Parse
<1>10. Executes(w)'
  <2>1. executed[w] = <<>> /\ repeats[w] = 0
    BY <1>1, <1>2 DEF Executes, Executing
  <2> QED BY <1>2, <1>7, <2>1 DEF Executes, Executing
<1>11. w \in Cutting /\ Cutting \subseteq {w} /\ Cutting' \subseteq Cutting \cup {w}
  <2>1. w \in Cutting
    BY <1>2 DEF Cutting
  <2>2. Cutting' \subseteq Cutting \cup {w}
    BY <1>6 DEF Cutting, Elsewhere
  <2> QED BY <2>1, <2>2 DEF RunInv, Alone
<1> QED BY <1>5, <1>6, <1>7, <1>9, <1>10, <1>11, OneMoves

(* The line of worker w is cut, and it is executing. *)
Ready(w) ==
  /\ Laid(tmp[w], line[w], Len(line[w]), Len(line[w])) /\ args[w] = Args(line[w], Len(line[w]))
  /\ commands[w] = Places(w, line[w], Len(line[w]))

(* Worker w goes on with its commands; the line stays as it is cut.        *)
GoesTo(w, p, k, left, mark, ex) ==
  /\ UNCHANGED <<line, tmp, save, commands, args>>
  /\ p \in {"once", "round", "again", "done"}
  /\ pc' = [pc EXCEPT ![w] = p]
  /\ i' = [i EXCEPT ![w] = k]
  /\ repeats' = [repeats EXCEPT ![w] = left]
  /\ repeatAt' = [repeatAt EXCEPT ![w] = mark]
  /\ executed' = [executed EXCEPT ![w] = ex]

(* It is enough to look at what is executed. *)
LEMMA GoesOn ==
  ASSUME RunInv, NEW w \in Workers, w \in Clean, mixed' = mixed, Ready(w), NEW p, NEW k, NEW left, NEW mark, NEW ex,
         GoesTo(w, p, k, left, mark, ex), Executing(line[w], p, k, left, mark, ex)
  PROVE  RunInv'
<1>1. Shape /\ UNCHANGED <<line, tmp, save, commands, args>>
  BY DEF RunInv, GoesTo
<1>2. Shape'
  BY <1>1 DEF Shape, GoesTo
<1>3. Elsewhere(w)
  BY <1>1 DEF Shape, Elsewhere, GoesTo
<1>4. /\ pc'[w] = p /\ p \in {"once", "round", "again", "done"} /\ i'[w] = k /\ repeats'[w] = left
      /\ repeatAt'[w] = mark /\ executed'[w] = ex
  BY <1>1 DEF Shape, GoesTo
<1>5. Parse(w)'
  BY <1>1, <1>4 DEF Parse, Ready
<1>6. Executes(w)'
  BY <1>1, <1>4 DEF Executes
<1>7. Cutting' \subseteq Cutting
  BY <1>3, <1>4 DEF Cutting, Elsewhere
<1> QED BY <1>1, <1>2, <1>3, <1>4, <1>5, <1>6, <1>7, OneMoves

(* What stays the same is given its own value. *)
LEMMA SameValues ==
  ASSUME Shape, NEW w \in Workers
  PROVE  /\ pc = [pc EXCEPT ![w] = pc[w]] /\ i = [i EXCEPT ![w] = i[w]]
         /\ repeats = [repeats EXCEPT ![w] = repeats[w]] /\ repeatAt = [repeatAt EXCEPT ![w] = repeatAt[w]]
         /\ executed = [executed EXCEPT ![w] = executed[w]]
  BY DEF Shape

(* All is cut when there are no more pieces. *)
LEMMA ParsedRuns ==
  ASSUME RunInv, FitLines, NEW w \in Workers, w \in Clean, mixed' = mixed, Parsed(w)
  PROVE  RunInv'
<1> DEFINE l == line[w]
<1>1. FitLine(l) /\ Len(l) \in Nat /\ Len(l) >= 1 /\ Shape /\ Parse(w) /\ Executes(w)
  BY LineFits
<1>2. /\ pc[w] = "name" /\ i[w] > Len(commands[w]) /\ pc' = [pc EXCEPT ![w] = "once"] /\ i' = [i EXCEPT ![w] = 1]
      /\ UNCHANGED <<line, tmp, save, commands, args, repeats, repeatAt, executed>>
  BY DEF Parsed
<1>3. /\ i[w] \in 1 .. Len(l) + 1 /\ args[w] = Args(l, i[w] - 1) /\ Laid(tmp[w], l, Len(l), i[w] - 1)
      /\ commands[w] = Places(w, l, Len(l))
  BY <1>1, <1>2 DEF Parse
<1>4. i[w] - 1 = Len(l)
  <2>1. Len(Places(w, l, Len(l))) = Len(l)
    BY <1>1, OneMore
  <2> QED BY <1>1, <1>2, <1>3, <2>1
<1>5. Ready(w)
  BY <1>3, <1>4 DEF Ready
<1>6. GoesTo(w, "once", 1, repeats[w], repeatAt[w], executed[w])
  BY <1>1, <1>2, SameValues DEF GoesTo
<1>7. Executing(l, "once", 1, repeats[w], repeatAt[w], executed[w])
  <2>1. executed[w] = <<>> /\ repeats[w] = 0
    BY <1>1, <1>2 DEF Executes, Executing
  <2>2. 1 \in 1 .. Len(l) + 1 /\ 1 - 1 = 0 /\ 0 \in 0 .. Len(l)
    BY <1>1
  <2>3. Body(l, 0, 0) = <<>>
    BY <1>1, <2>2, BodyIs
  <2>4. \A j \in 1 .. 1 - 1 : l[j].name # "repeat"
    OBVIOUS
  <2> HIDE DEF l
  <2> QED BY <2>1, <2>2, <2>3, <2>4 DEF Executing
<1> QED BY <1>5, <1>6, <1>7, GoesOn

(* Where a worker that executes is. *)
LEMMA ReadyWhenRunning ==
  ASSUME RunInv, FitLines, NEW w \in Workers, w \in Clean, pc[w] \in {"once", "round", "again", "done"}
  PROVE  /\ Ready(w) /\ Len(commands[w]) = Len(line[w])
         /\ Executing(line[w], pc[w], i[w], repeats[w], repeatAt[w], executed[w])
<1>1. Len(line[w]) \in Nat /\ Parse(w) /\ Executes(w)
  BY LineFits
<1>2. Ready(w)
  BY <1>1 DEF Parse, Ready
<1>3. Len(commands[w]) = Len(line[w])
  <2>1. Len(Places(w, line[w], Len(line[w]))) = Len(line[w])
    BY <1>1, OneMore
  <2> QED BY <1>2, <2>1 DEF Ready
<1> QED BY <1>1, <1>2, <1>3 DEF Executes

(* The commands before the repeat. *)
LEMMA OnceRuns ==
  ASSUME RunInv, FitLines, NEW w \in Workers, w \in Clean, mixed' = mixed, RunOnce(w) \/ NoRepeat(w)
  PROVE  RunInv'
<1> DEFINE l == line[w]
           k == i[w]
<1>1. FitLine(l) /\ Len(l) \in Nat /\ Len(l) >= 1 /\ Shape
  BY LineFits
<1>2. pc[w] = "once" /\ UNCHANGED <<line, tmp, save, commands, args, repeats, repeatAt>>
  BY DEF RunOnce, NoRepeat
<1>3. Ready(w) /\ Len(commands[w]) = Len(l) /\ Executing(l, "once", k, repeats[w], repeatAt[w], executed[w])
  BY <1>2, ReadyWhenRunning
<1> HIDE DEF l, k
<1>4. /\ k \in 1 .. Len(l) + 1 /\ repeats[w] = 0 /\ executed[w] = Body(l, 0, k - 1)
      /\ \A j \in 1 .. k - 1 : l[j].name # "repeat"
  BY <1>3 DEF Executing
<1>5. CASE RunOnce(w)
  <2>1. k <= Len(commands[w]) /\ ~Spelled(commands[w][k], "repeat") /\ Execute(w) /\ i' = [i EXCEPT ![w] = k + 1] /\ pc' = pc
    BY <1>5 DEF RunOnce, k
  <2>2. k \in 1 .. Len(l)
    BY <1>1, <1>3, <1>4, <2>1
  <2>3. l[k].name # "repeat"
    <3>1. "repeat" \in Names
      BY DEF Names
    <3>2. Spelled(commands[w][k], "repeat") <=> "repeat" = l[k].name
      BY <1>1, <1>3, <2>2, <3>1, SpelledIs DEF Ready, l
    <3> QED BY <2>1, <3>2
  <2> DEFINE ex == executed[w] \o <<Call(l, k)>>
  <2>4. executed' = [executed EXCEPT ![w] = ex]
    BY <1>1, <1>3, <2>1, <2>2, <2>3, ExecuteIs DEF Ready, l, k, Call
  <2>5. ex = Body(l, 0, k)
    <3>1. 0 \in 0 .. Len(l) /\ 0 < k
      BY <1>1, <2>2
    <3>2. Body(l, 0, k) = Body(l, 0, k - 1) \o <<Call(l, k)>>
      <4>1. \A r \in 0 .. Len(l), m \in 1 .. Len(l) : r < m =>
              Body(l, r, m) = Body(l, r, m - 1) \o <<Call(l, m)>>
        BY <1>1, BodyIs
      <4> QED BY <2>2, <3>1, <4>1
    <3> QED BY <1>4, <3>2
  <2> HIDE DEF ex
  <2>6. GoesTo(w, "once", k + 1, repeats[w], repeatAt[w], ex)
    <3>1. pc' = [pc EXCEPT ![w] = "once"]
      BY <1>1, <1>2, <2>1, SameValues
    <3>2. repeats' = [repeats EXCEPT ![w] = repeats[w]] /\ repeatAt' = [repeatAt EXCEPT ![w] = repeatAt[w]]
      BY <1>1, <1>2, SameValues
    <3> QED BY <1>2, <2>1, <2>4, <3>1, <3>2 DEF GoesTo
  <2>7. Executing(l, "once", k + 1, repeats[w], repeatAt[w], ex)
    <3>1. k + 1 \in 1 .. Len(l) + 1 /\ (k + 1) - 1 = k /\ \A j \in 1 .. k : j = k \/ j \in 1 .. k - 1
      BY <1>1, <2>2
    <3>2. \A j \in 1 .. k : l[j].name # "repeat"
      BY <1>4, <2>3, <3>1
    <3>3. \A j \in 1 .. (k + 1) - 1 : l[j].name # "repeat"
      BY <3>1, <3>2
    <3>4. ex = Body(l, 0, (k + 1) - 1)
      BY <2>5, <3>1
    <3> QED BY <1>4, <3>1, <3>3, <3>4 DEF Executing
  <2> QED BY <1>3, <2>6, <2>7, GoesOn DEF l
<1>6. CASE NoRepeat(w)
  <2>1. k > Len(commands[w]) /\ pc' = [pc EXCEPT ![w] = "round"] /\ i' = i /\ executed' = executed
    BY <1>6 DEF NoRepeat, k
  <2>2. k - 1 = Len(l)
    BY <1>1, <1>3, <1>4, <2>1
  <2>3. GoesTo(w, "round", k, repeats[w], repeatAt[w], executed[w])
    <3>1. i' = [i EXCEPT ![w] = k] /\ executed' = [executed EXCEPT ![w] = executed[w]]
      BY <1>1, <2>1, SameValues DEF k
    <3>2. repeats' = [repeats EXCEPT ![w] = repeats[w]] /\ repeatAt' = [repeatAt EXCEPT ![w] = repeatAt[w]]
      BY <1>1, <1>2, SameValues
    <3> QED BY <1>2, <2>1, <3>1, <3>2 DEF GoesTo
  <2>4. Executing(l, "round", k, repeats[w], repeatAt[w], executed[w])
    BY <1>4, <2>2 DEF Executing, NoRepeatIn
  <2> QED BY <1>3, <2>3, <2>4, GoesOn DEF l
<1> QED BY <1>5, <1>6

(* Sequences of calls may be joined in any order. *)
LEMMA Joins ==
  /\ <<>> \in Seq(Calls)
  /\ \A s \in Seq(Calls) : s \o <<>> = s
  /\ \A s, t \in Seq(Calls) : s \o t \in Seq(Calls)
  /\ \A s, t, u \in Seq(Calls) : (s \o t) \o u = s \o (t \o u)
<1>1. \A s, t, u \in Seq(Calls) : (s \o t) \o u = s \o (t \o u)
  BY ConcatAssociative
<1>2. \A s, t \in Seq(Calls) : s \o t \in Seq(Calls)
  BY ConcatProperties
<1>3. <<>> \in Seq(Calls) /\ \A s \in Seq(Calls) : s \o <<>> = s
  OBVIOUS
<1> QED BY <1>1, <1>2, <1>3

(* The repeat. *)
LEMMA BeginRuns ==
  ASSUME RunInv, FitLines, NEW w \in Workers, w \in Clean, mixed' = mixed, BeginRepeat(w)
  PROVE  RunInv'
<1> DEFINE l == line[w]
           k == i[w]
<1>1. FitLine(l) /\ Len(l) \in Nat /\ Len(l) >= 1 /\ Shape
  BY LineFits
<1>2. /\ pc[w] = "once" /\ UNCHANGED <<line, tmp, save, commands, args, i, executed>>
      /\ k <= Len(commands[w]) /\ Spelled(commands[w][k], "repeat")
      /\ repeats' = [repeats EXCEPT ![w] = args[w][k]] /\ repeatAt' = [repeatAt EXCEPT ![w] = k]
      /\ pc' = [pc EXCEPT ![w] = "round"]
  BY DEF BeginRepeat
<1>3. Ready(w) /\ Len(commands[w]) = Len(l) /\ Executing(l, "once", k, repeats[w], repeatAt[w], executed[w])
  BY <1>2, ReadyWhenRunning
<1> HIDE DEF l, k
<1>4. k \in 1 .. Len(l) + 1 /\ executed[w] = Body(l, 0, k - 1)
  BY <1>3 DEF Executing
<1>5. k \in 1 .. Len(l)
  BY <1>1, <1>2, <1>3, <1>4
<1>6. l[k].name = "repeat" /\ l[k].arg \in Nat
  <2>1. "repeat" \in Names
    BY DEF Names
  <2>2. Spelled(commands[w][k], "repeat") <=> "repeat" = l[k].name
    BY <1>1, <1>3, <1>5, <2>1, SpelledIs DEF Ready, l
  <2>3. l[k].arg \in Nat
    BY <1>1, <1>5, PieceIs
  <2> QED BY <1>2, <2>2, <2>3
<1>7. args[w][k] = l[k].arg
  <2>1. args[w] = Args(l, Len(l))
    BY <1>3 DEF Ready, l
  <2> QED BY <1>5, <2>1 DEF Args
<1>8. GoesTo(w, "round", k, l[k].arg, k, executed[w])
  <2>1. i' = [i EXCEPT ![w] = k] /\ executed' = [executed EXCEPT ![w] = executed[w]]
    BY <1>1, <1>2, SameValues DEF k
  <2> QED BY <1>2, <1>7, <2>1 DEF GoesTo
<1>9. Executing(l, "round", k, l[k].arg, k, executed[w])
  <2>1. k \in 0 .. Len(l) /\ k - 1 \in 0 .. Len(l) /\ 0 \in 0 .. Len(l) /\ 0 <= k - 1
    BY <1>1, <1>5
  <2>2. Rounds(l, k, 0) = <<>> /\ Body(l, 0, k - 1) \in Seq(Calls)
    BY <1>1, <2>1, RoundsAre, BodyIs
  <2>3. executed[w] = Body(l, 0, k - 1) \o Rounds(l, k, 0)
    BY <1>4, <2>2, Joins
  <2>4. 0 \in 0 .. l[k].arg /\ l[k].arg = l[k].arg - 0
    BY <1>6
  <2>5. Round(l, "round", k, l[k].arg, k, executed[w], k, 0)
    BY <1>6, <2>3, <2>4 DEF Round
  <2>6. \E r \in 1 .. Len(l) : \E d \in 0 .. l[r].arg : Round(l, "round", k, l[k].arg, k, executed[w], r, d)
    BY <1>5, <2>4, <2>5
  <2> QED BY <2>6 DEF Executing
<1> QED BY <1>3, <1>8, <1>9, GoesOn DEF l

(* A round begins, or the last has ended. *)
LEMMA NextRoundRuns ==
  ASSUME RunInv, FitLines, NEW w \in Workers, w \in Clean, mixed' = mixed, NextRound(w)
  PROVE  RunInv'
<1> DEFINE l == line[w]
           k == i[w]
           left == repeats[w]
           mark == repeatAt[w]
           ex == executed[w]
<1>1. FitLine(l) /\ Len(l) \in Nat /\ Len(l) >= 1 /\ Shape
  BY LineFits
<1>2. /\ pc[w] = "round" /\ UNCHANGED <<line, tmp, save, commands, args, repeatAt, executed>>
      /\ left = 0 => pc' = [pc EXCEPT ![w] = "done"] /\ UNCHANGED <<i, repeats>>
      /\ left # 0 => /\ repeats' = [repeats EXCEPT ![w] = left - 1]
                     /\ i' = [i EXCEPT ![w] = mark + 1] /\ pc' = [pc EXCEPT ![w] = "again"]
  BY DEF NextRound
<1>3. Ready(w) /\ Executing(l, "round", k, left, mark, ex)
  BY <1>2, ReadyWhenRunning
<1>4. repeatAt' = [repeatAt EXCEPT ![w] = mark] /\ executed' = [executed EXCEPT ![w] = ex]
  BY <1>1, <1>2, SameValues
<1>5. left = 0 => GoesTo(w, "done", k, left, mark, ex)
  <2> SUFFICES ASSUME left = 0 PROVE GoesTo(w, "done", k, left, mark, ex)
    OBVIOUS
  <2>1. i' = [i EXCEPT ![w] = k] /\ repeats' = [repeats EXCEPT ![w] = left]
    BY <1>1, <1>2, SameValues
  <2> QED BY <1>2, <1>4, <2>1 DEF GoesTo
<1>6. left # 0 => GoesTo(w, "again", mark + 1, left - 1, mark, ex)
  BY <1>2, <1>4 DEF GoesTo
<1> HIDE DEF l, k, left, mark, ex
<1>7. CASE left = 0
  <2>1. Executing(l, "done", k, left, mark, ex)
    BY <1>3, <1>7 DEF Executing, Round
  <2> QED BY <1>3, <1>5, <1>7, <2>1, GoesOn DEF l
<1>8. CASE left # 0
  <2>0. PICK r \in 1 .. Len(l) : \E d \in 0 .. l[r].arg : Round(l, "round", k, left, mark, ex, r, d)
    BY <1>3, <1>8 DEF Executing
  <2>1. PICK d \in 0 .. l[r].arg : Round(l, "round", k, left, mark, ex, r, d)
    BY <2>0
  <2>2. /\ l[r].name = "repeat" /\ mark = r /\ left = l[r].arg - d
        /\ ex = Body(l, 0, r - 1) \o Rounds(l, r, d)
    BY <2>1 DEF Round
  <2>3. l[r].arg \in Nat
    BY <1>1, PieceIs
  <2>4. /\ d \in Nat /\ d + 1 \in 0 .. l[r].arg /\ left - 1 = l[r].arg - (d + 1) /\ d + 1 >= 1 /\ (d + 1) - 1 = d
        /\ r + 1 \in r + 1 .. Len(l) + 1 /\ (r + 1) - 1 = r /\ r \in 0 .. Len(l) /\ r - 1 \in 0 .. Len(l)
        /\ 0 \in 0 .. Len(l) /\ 0 <= r - 1
    <3>1. r \in 1 .. Len(l) /\ Len(l) \in Nat
      BY <1>1
    <3>2. \A a, b, n \in Nat : \A x \in 0 .. a : \A y \in 1 .. n : a - x # 0 =>
            /\ x \in Nat /\ x + 1 \in 0 .. a /\ (a - x) - 1 = a - (x + 1) /\ x + 1 >= 1 /\ (x + 1) - 1 = x
            /\ y + 1 \in y + 1 .. n + 1 /\ (y + 1) - 1 = y /\ y \in 0 .. n /\ y - 1 \in 0 .. n
            /\ 0 \in 0 .. n /\ 0 <= y - 1
      OBVIOUS
    <3> DEFINE a == l[r].arg
    <3>3. a \in Nat /\ d \in 0 .. a /\ left = a - d /\ a - d # 0
      BY <1>8, <2>2, <2>3
    <3> HIDE DEF a
    <3>4. /\ d \in Nat /\ d + 1 \in 0 .. a /\ left - 1 = a - (d + 1) /\ d + 1 >= 1 /\ (d + 1) - 1 = d
          /\ r + 1 \in r + 1 .. Len(l) + 1 /\ (r + 1) - 1 = r /\ r \in 0 .. Len(l) /\ r - 1 \in 0 .. Len(l)
          /\ 0 \in 0 .. Len(l) /\ 0 <= r - 1
      BY <3>1, <3>2, <3>3
    <3> QED BY <3>4 DEF a
  <2>5. Body(l, r, r) = <<>> /\ Body(l, 0, r - 1) \in Seq(Calls) /\ Rounds(l, r, d) \in Seq(Calls)
    BY <1>1, <2>4, BodyIs, RoundsAre
  <2>6. ex = (Body(l, 0, r - 1) \o Rounds(l, r, (d + 1) - 1)) \o Body(l, r, (r + 1) - 1)
    BY <2>2, <2>4, <2>5, Joins
  <2>7. Round(l, "again", r + 1, left - 1, mark, ex, r, d + 1)
    BY <2>2, <2>4, <2>6 DEF Round
  <2>8. \E x \in 1 .. Len(l) : \E y \in 0 .. l[x].arg : Round(l, "again", r + 1, left - 1, mark, ex, x, y)
    BY <2>4, <2>7
  <2>9. Executing(l, "again", mark + 1, left - 1, mark, ex)
    BY <2>2, <2>8 DEF Executing
  <2> QED BY <1>3, <1>6, <1>8, <2>9, GoesOn DEF l
<1> QED BY <1>7, <1>8

(* The commands behind the repeat. *)
LEMMA AgainRuns ==
  ASSUME RunInv, FitLines, NEW w \in Workers, w \in Clean, mixed' = mixed, RunAgain(w)
  PROVE  RunInv'
<1> DEFINE l == line[w]
           k == i[w]
           left == repeats[w]
           mark == repeatAt[w]
           ex == executed[w]
<1>1. FitLine(l) /\ Len(l) \in Nat /\ Len(l) >= 1 /\ Shape
  BY LineFits
<1>2. /\ pc[w] = "again" /\ UNCHANGED <<line, tmp, save, commands, args, repeats, repeatAt>>
      /\ k > Len(commands[w]) => pc' = [pc EXCEPT ![w] = "round"] /\ UNCHANGED <<i, executed>>
      /\ ~(k > Len(commands[w])) => Execute(w) /\ i' = [i EXCEPT ![w] = k + 1] /\ pc' = pc
  BY DEF RunAgain
<1>3. Ready(w) /\ Len(commands[w]) = Len(l) /\ Executing(l, "again", k, left, mark, ex)
  BY <1>2, ReadyWhenRunning
<1>4. repeats' = [repeats EXCEPT ![w] = left] /\ repeatAt' = [repeatAt EXCEPT ![w] = mark]
  BY <1>1, <1>2, SameValues
<1>5. k > Len(l) => GoesTo(w, "round", k, left, mark, ex)
  <2> SUFFICES ASSUME k > Len(l) PROVE GoesTo(w, "round", k, left, mark, ex)
    OBVIOUS
  <2>1. i' = [i EXCEPT ![w] = k] /\ executed' = [executed EXCEPT ![w] = ex]
    BY <1>1, <1>2, <1>3, SameValues
  <2> QED BY <1>2, <1>3, <1>4, <2>1 DEF GoesTo
<1>6. ASSUME NEW x, executed' = [executed EXCEPT ![w] = x], ~(k > Len(l)) PROVE GoesTo(w, "again", k + 1, left, mark, x)
  <2>1. pc' = [pc EXCEPT ![w] = "again"]
    BY <1>1, <1>2, <1>3, <1>6, SameValues
  <2> QED BY <1>2, <1>3, <1>4, <1>6, <2>1 DEF GoesTo
<1>7. ~(k > Len(l)) => Execute(w) /\ i[w] = k
  BY <1>2, <1>3
<1>8. /\ Laid(tmp[w], l, Len(l), Len(l)) /\ commands[w] = Places(w, l, Len(l)) /\ args[w] = Args(l, Len(l))
  BY <1>3 DEF Ready
<1>9. l = line[w] /\ ex = executed[w]
  OBVIOUS
<1> HIDE DEF l, k, left, mark, ex
<1>0. PICK r \in 1 .. Len(l) : \E d \in 0 .. l[r].arg : Round(l, "again", k, left, mark, ex, r, d)
  BY <1>3 DEF Executing
<1>10. PICK d \in 0 .. l[r].arg : Round(l, "again", k, left, mark, ex, r, d)
  BY <1>0
<1>11. /\ l[r].name = "repeat" /\ mark = r /\ left = l[r].arg - d /\ d >= 1 /\ k \in r + 1 .. Len(l) + 1
       /\ ex = (Body(l, 0, r - 1) \o Rounds(l, r, d - 1)) \o Body(l, r, k - 1)
  BY <1>10 DEF Round
<1>12. l[r].arg \in Nat
  BY <1>1, PieceIs
<1>13. /\ d \in Nat /\ d - 1 \in Nat /\ (d - 1) + 1 = d /\ r \in 0 .. Len(l) /\ r - 1 \in 0 .. Len(l)
       /\ 0 \in 0 .. Len(l) /\ 0 <= r - 1 /\ k - 1 \in 0 .. Len(l) /\ r <= k - 1
  BY <1>1, <1>11, <1>12
<1> DEFINE A == Body(l, 0, r - 1)
           D == Rounds(l, r, d - 1)
           B == Body(l, r, k - 1)
<1>14. A \in Seq(Calls) /\ D \in Seq(Calls) /\ B \in Seq(Calls) /\ A \o D \in Seq(Calls)
  <2>1. A \in Seq(Calls) /\ B \in Seq(Calls)
    BY <1>1, <1>13, BodyIs
  <2>2. D \in Seq(Calls)
    BY <1>1, <1>13, RoundsAre
  <2> QED BY <2>1, <2>2, Joins
<1>15. CASE k > Len(l)
  <2>1. k - 1 = Len(l)
    BY <1>1, <1>11, <1>15
  <2>2. Rounds(l, r, d) = D \o B
    <3>1. Rounds(l, r, (d - 1) + 1) = Rounds(l, r, d - 1) \o Body(l, r, Len(l))
      BY <1>1, <1>13, RoundsAre
    <3> QED BY <1>13, <2>1, <3>1
  <2> HIDE DEF A, D, B
  <2>3. ex = A \o Rounds(l, r, d)
    <3>1. ex = (A \o D) \o B
      BY <1>11 DEF A, D, B
    <3>3. \A s, t, u \in Seq(Calls) : (s \o t) \o u = s \o (t \o u)
      BY Joins
    <3>4. (A \o D) \o B = A \o (D \o B)
      BY <1>14, <3>3, Zenon
    <3> QED BY <2>2, <3>1, <3>4
  <2>4. Round(l, "round", k, left, mark, ex, r, d)
    BY <1>11, <2>3 DEF Round, A
  <2>5. Executing(l, "round", k, left, mark, ex)
    BY <2>4 DEF Executing
  <2> QED BY <1>3, <1>5, <1>15, <2>5, GoesOn DEF l
<1>16. CASE ~(k > Len(l))
  <2>1. k \in 1 .. Len(l) /\ k # r /\ r < k /\ (k + 1) - 1 = k /\ k + 1 \in r + 1 .. Len(l) + 1
    BY <1>1, <1>11, <1>16
  <2>2. l[k].name # "repeat"
    BY <1>1, <1>11, <2>1 DEF FitLine
  <2> DEFINE c == <<Call(l, k)>>
             x == ex \o c
  <2>3. executed' = [executed EXCEPT ![w] = x]
    BY <1>1, <1>7, <1>8, <1>9, <1>16, <2>1, <2>2, ExecuteIs DEF Call
  <2>4. Body(l, r, k) = B \o c
    BY <1>1, <1>13, <2>1, BodyIs
  <2>5. c \in Seq(Calls)
    <3>1. l[k].name \in Names /\ l[k].arg \in Nat
      BY <1>1, <2>1, PieceIs
    <3>2. Call(l, k) \in Calls
      BY <3>1 DEF Call, Calls
    <3> QED BY <3>2
  <2> HIDE DEF c
  <2>6. x = (A \o D) \o Body(l, r, k)
    <3> HIDE DEF A, D, B
    <3>1. ex = (A \o D) \o B
      BY <1>11 DEF A, D, B
    <3>2. x = ((A \o D) \o B) \o c
      BY <3>1 DEF x
    <3>3. \A s, t, u \in Seq(Calls) : (s \o t) \o u = s \o (t \o u)
      BY Joins
    <3>4. ((A \o D) \o B) \o c = (A \o D) \o (B \o c)
      BY <1>14, <2>5, <3>3, Zenon
    <3> QED BY <2>4, <3>2, <3>4
  <2> HIDE DEF x
  <2>7. Round(l, "again", k + 1, left, mark, x, r, d)
    BY <1>11, <2>1, <2>6 DEF Round
  <2>8. Executing(l, "again", k + 1, left, mark, x)
    BY <2>7 DEF Executing
  <2>9. GoesTo(w, "again", k + 1, left, mark, x)
    BY <1>6, <1>16, <2>3
  <2> QED BY <1>3, <1>9, <2>8, <2>9, GoesOn
<1> QED BY <1>15, <1>16

(* Every step of run_job, of a worker that is not mixed up, preserves it.  *)
LEMMA CleanRuns ==
  ASSUME RunInv, FitLines, NEW w \in Workers, w \in Clean, mixed' = mixed,
         Worker(w), pc[w] = "split" => Cutting = {}
  PROVE  RunInv'
  BY SplitRuns, NameRuns, ArgRuns, ParsedRuns, OnceRuns, BeginRuns, NextRoundRuns, AgainRuns DEF Worker

(* What strtok gives and writes is in the copy it was started in.          *)
Within(r, u) ==
  /\ r.token = {} \/ \E q : r.token = {q} /\ q.of = u
  /\ \E q : r.save = {q} /\ q.of = u
  /\ r.tmp = tmp \/ \E x : r.tmp = [tmp EXCEPT ![u] = x]

LEMMA StrtokStays ==
  ASSUME NEW p, NEW d
  PROVE  Within(Strtok(p, d), p.of)
<1> DEFINE str == tmp[p.of]
           first == Min({k \in p.at .. Len(str) : str[k] # Char(d)})
           stop == Min({k \in first .. Len(str) : str[k] \in {Char(d), Nul}})
           a == Place(p.of, first)
           b == Place(p.of, IF str[stop] = Nul THEN stop ELSE stop + 1)
           x == [str EXCEPT ![stop] = Nul]
<1>1. a.of = p.of /\ b.of = p.of
  BY DEF Place
<1>2. Strtok(p, d) = IF str[first] = Nul THEN [token |-> {}, save |-> {a}, tmp |-> tmp]
                     ELSE [token |-> {a}, save |-> {b}, tmp |-> [tmp EXCEPT ![p.of] = x]]
  BY Zenon DEF Strtok
<1> HIDE DEF str, first, stop, a, b, x
<1> DEFINE none == str[first] = Nul
<1>3. none => Strtok(p, d) = [token |-> {}, save |-> {a}, tmp |-> tmp]
  BY <1>2
<1>4. ~none => Strtok(p, d) = [token |-> {a}, save |-> {b}, tmp |-> [tmp EXCEPT ![p.of] = x]]
  BY <1>2
<1> HIDE DEF none
<1>5. CASE none
  BY <1>1, <1>3, <1>5 DEF Within
<1>6. CASE ~none
  BY <1>1, <1>4, <1>6 DEF Within
<1> QED BY <1>5, <1>6

(* A piece more, or more workers who are mixed up. *)
LEMMA InsideMore ==
  ASSUME NEW s, NEW m, Inside(s, m)
  PROVE  /\ \A n : m \subseteq n => Inside(s, n)
         /\ \A p : p.of \in m => Inside(s \o <<p>>, m)
         /\ Inside(s \o <<>>, m)
         /\ \A k \in Nat \ {0} : k <= Len(s) => s[k].of \in m
<1>1. PICK S : s \in Seq(S) /\ \A p \in S : p.of \in m
  BY DEF Inside
<1>2. \A n : m \subseteq n => Inside(s, n)
  BY <1>1 DEF Inside
<1>3. ASSUME NEW p, p.of \in m PROVE Inside(s \o <<p>>, m)
  <2> DEFINE U == S \cup {p}
  <2>1. s \in Seq(U) /\ p \in U
    BY <1>1
  <2>2. \A q \in U : q.of \in m
    BY <1>1, <1>3
  <2> HIDE DEF U
  <2>3. s \o <<p>> \in Seq(U)
    BY <2>1
  <2> QED BY <2>2, <2>3 DEF Inside
<1>4. Inside(s \o <<>>, m)
  <2>1. s \o <<>> = s
    BY <1>1
  <2> QED BY <2>1
<1>5. \A k \in Nat \ {0} : k <= Len(s) => s[k].of \in m
  <2>1. \A k \in Nat \ {0} : k <= Len(s) => s[k] \in S
    BY <1>1
  <2> QED BY <1>1, <2>1
<1> QED BY <1>2, <1>3, <1>4, <1>5

(* A step of a worker that is, or becomes, mixed up.                       *)
Stirs(w) ==
  /\ Shape' /\ line' = line
  /\ mixed' \subseteq Workers /\ mixed \subseteq mixed' /\ w \in mixed'
  /\ \A v \in Workers \ mixed' : tmp'[v] = tmp[v]
  /\ \A v \in Workers \ {w} :
       /\ pc'[v] = pc[v] /\ commands'[v] = commands[v] /\ args'[v] = args[v]
       /\ i'[v] = i[v] /\ repeats'[v] = repeats[v] /\ repeatAt'[v] = repeatAt[v]
       /\ executed'[v] = executed[v]
  /\ \A v \in mixed' : pc'[v] # "split"
  /\ \A v \in mixed' \cap Cutting' :
       /\ i'[v] \in Nat \ {0} /\ Inside(commands'[v], mixed')
       /\ \E p : save' = {p} /\ p.of \in mixed'
  /\ \A v \in Workers \ mixed' : v \in Cutting => save' = save /\ Cutting' = {v}

(* The others are not concerned. *)
LEMMA StirsOnlyMixed ==
  ASSUME RunInv, NEW w \in Workers, Stirs(w)
  PROVE  RunInv'
<1>1. ASSUME NEW v \in Clean'
      PROVE  /\ v \in Clean /\ pc'[v] = pc[v] /\ pc'[v] # "crashed" /\ (v \in Cutting' => v \in Cutting)
             /\ Parse(v)' /\ Executes(v)'
  <2>1. v \in Workers \ {w} /\ v \in Workers \ mixed' /\ v \in Clean
    BY DEF Stirs, Clean
  <2>2. pc[v] # "crashed" /\ Parse(v) /\ Executes(v)
    BY <2>1 DEF RunInv
  <2>3. /\ line'[v] = line[v] /\ tmp'[v] = tmp[v] /\ pc'[v] = pc[v] /\ commands'[v] = commands[v]
        /\ args'[v] = args[v] /\ i'[v] = i[v] /\ repeats'[v] = repeats[v] /\ repeatAt'[v] = repeatAt[v]
        /\ executed'[v] = executed[v]
    BY <2>1 DEF Stirs
  <2>4. pc[v] \in {"more", "arg"} => save' = save
    BY <2>1 DEF Stirs, Cutting
  <2>5. Executes(v)'
    BY <2>2, <2>3 DEF Executes
  <2>6. Parse(v)'
    BY <2>2, <2>3, <2>4 DEF Parse
  <2> QED BY <2>1, <2>2, <2>3, <2>5, <2>6 DEF Cutting
<1>2. Alone'
  <2> SUFFICES ASSUME NEW v \in Clean', v \in Cutting' PROVE Cutting' = {v}
    BY DEF Alone
  <2>1. v \in Cutting /\ v \in Workers \ mixed'
    BY <1>1 DEF Clean
  <2> QED BY <2>1 DEF Stirs
<1>3. Confined'
  BY DEF Stirs, Confined
<1>4. Shape'
  BY DEF Stirs
<1> QED BY <1>1, <1>2, <1>3, <1>4 DEF RunInv

(* A worker that is mixed up goes on. *)
LEMMA MixedRuns ==
  ASSUME RunInv, NEW w \in Workers, w \in mixed, mixed' = mixed, Worker(w)
  PROVE  RunInv'
<1>0. Shape /\ Alone /\ Confined
  BY DEF RunInv
<1>1. pc[w] # "split" /\ mixed \subseteq Workers
  BY <1>0 DEF Confined
<1>2. ASSUME Stirs(w) PROVE RunInv'
  BY <1>2, StirsOnlyMixed
<1>3. w \in Cutting => \A v \in Workers \ mixed : v \notin Cutting
  BY <1>0 DEF Alone, Clean
<1>4. w \in Cutting => i[w] \in Nat \ {0} /\ Inside(commands[w], mixed) /\ \E p : save = {p} /\ p.of \in mixed
  BY <1>0 DEF Confined
(* The others of the mixed-up do not move. *)
<1>5. ASSUME w \in Cutting, Shape', line' = line, Cutting' \subseteq Cutting, pc'[w] # "split",
             \A v \in Workers \ mixed : tmp'[v] = tmp[v],
             \A v \in Workers \ {w} :
               /\ pc'[v] = pc[v] /\ commands'[v] = commands[v] /\ args'[v] = args[v]
               /\ i'[v] = i[v] /\ repeats'[v] = repeats[v] /\ repeatAt'[v] = repeatAt[v]
               /\ executed'[v] = executed[v],
             w \in Cutting' => i'[w] \in Nat \ {0} /\ Inside(commands'[w], mixed),
             \E p : save' = {p} /\ p.of \in mixed
      PROVE  Stirs(w)
  <2>1. ASSUME NEW v \in mixed PROVE pc'[v] # "split"
    <3>1. v \in Workers /\ pc[v] # "split"
      BY <1>0 DEF Confined
    <3> QED BY <1>5, <3>1
  <2>2. ASSUME NEW v \in mixed \cap Cutting' PROVE i'[v] \in Nat \ {0} /\ Inside(commands'[v], mixed)
    <3>1. CASE v = w
      BY <1>5, <3>1
    <3>2. CASE v # w
      <4>1. v \in mixed \cap Cutting /\ v \in Workers \ {w}
        BY <1>1, <1>5, <3>2
      <4> QED BY <1>0, <1>5, <4>1 DEF Confined
    <3> QED BY <3>1, <3>2
  <2>3. \A v \in Workers \ mixed' : v \notin Cutting
    BY <1>3, <1>5
  <2> QED BY <1>1, <1>5, <2>1, <2>2, <2>3 DEF Stirs
(* strtok gives a token in the copy of a mixed-up worker. *)
<1>6. ASSUME NEW p, NEW d, p.of \in mixed
      PROVE  /\ \E q : Strtok(p, d).save = {q} /\ q.of \in mixed
             /\ \A v \in Workers \ mixed : Strtok(p, d).tmp[v] = tmp[v]
             /\ Strtok(p, d).tmp = [v \in Workers |-> Strtok(p, d).tmp[v]]
             /\ Strtok(p, d).token = {} \/ \E q : Strtok(p, d).token = {q} /\ q.of \in mixed
  <2> DEFINE r == Strtok(p, d)
  <2>1. /\ r.token = {} \/ \E q : r.token = {q} /\ q.of = p.of
        /\ \E q : r.save = {q} /\ q.of = p.of
        /\ r.tmp = tmp \/ \E x : r.tmp = [tmp EXCEPT ![p.of] = x]
    <3>1. Within(r, p.of)
      BY StrtokStays, Zenon
    <3> HIDE DEF r
    <3> QED BY <3>1 DEF Within
  <2> HIDE DEF r
  <2>2. tmp = [v \in Workers |-> tmp[v]]
    BY <1>0 DEF Shape
  <2>3. (\A v \in Workers \ mixed : r.tmp[v] = tmp[v]) /\ r.tmp = [v \in Workers |-> r.tmp[v]]
    <3>1. CASE r.tmp = tmp
      BY <2>2, <3>1
    <3>2. ASSUME NEW x, r.tmp = [tmp EXCEPT ![p.of] = x]
          PROVE  (\A v \in Workers \ mixed : r.tmp[v] = tmp[v]) /\ r.tmp = [v \in Workers |-> r.tmp[v]]
      <4> DEFINE t == r.tmp
                 u == p.of
      <4>1. t = [tmp EXCEPT ![u] = x] /\ u \in mixed
        BY <1>6, <3>2
      <4> HIDE DEF t, u
      <4>2. (\A v \in Workers \ mixed : t[v] = tmp[v]) /\ t = [v \in Workers |-> t[v]]
        BY <2>2, <4>1
      <4> QED BY <4>2 DEF t
    <3> QED BY <2>1, <3>1, <3>2
  <2>4. /\ r.token = {} \/ \E q : r.token = {q} /\ q.of \in mixed
        /\ \E q : r.save = {q} /\ q.of \in mixed
    BY <1>6, <2>1
  <2> QED BY <2>3, <2>4 DEF r
<1>7. CASE Split(w)
  <2>1. pc[w] = "more" /\ w \in Cutting
    <3>1. pc[w] \in {"split", "more"}
      BY <1>7, Zenon DEF Split
    <3> QED BY <1>1, <3>1 DEF Cutting
  <2>2. PICK p : save = {p} /\ p.of \in mixed
    BY <1>4, <2>1
  <2>3. Saved = p
    BY <2>2, OneItem DEF Saved
  <2> DEFINE r == Strtok(p, Semicolon)
  <2>4. /\ tmp' = r.tmp /\ save' = r.save
        /\ commands' = [commands EXCEPT ![w] = commands[w] \o SetToSeq(r.token)]
        /\ pc' = [pc EXCEPT ![w] = IF r.token = {} THEN "name" ELSE "more"]
        /\ UNCHANGED <<line, args, i, repeats, repeatAt, executed>>
    <3>1. "more" # "split"
      OBVIOUS
    <3>2. p = IF pc[w] = "split" THEN Place(w, 1) ELSE Saved
      BY <2>1, <2>3, <3>1
    <3> QED BY <1>7, <3>2, Zenon DEF Split, Semicolon
  <2>5. /\ \E q : r.save = {q} /\ q.of \in mixed
        /\ \A v \in Workers \ mixed : r.tmp[v] = tmp[v]
        /\ r.tmp = [v \in Workers |-> r.tmp[v]]
        /\ r.token = {} \/ \E q : r.token = {q} /\ q.of \in mixed
    BY <1>6, <2>2
  <2> HIDE DEF r
  <2>6. Inside(commands[w] \o SetToSeq(r.token), mixed)
    <3>1. Inside(commands[w], mixed)
      BY <1>4, <2>1
    <3>2. CASE r.token = {}
      BY <3>1, <3>2, OneItem, InsideMore
    <3>3. ASSUME NEW q, r.token = {q}, q.of \in mixed PROVE Inside(commands[w] \o SetToSeq(r.token), mixed)
      <4>1. SetToSeq(r.token) = <<q>>
        BY <3>3, OneItem
      <4> QED BY <3>1, <3>3, <4>1, InsideMore
    <3> QED BY <2>5, <3>2, <3>3
  <2>7. Shape' /\ pc'[w] \in {"name", "more"} /\ commands'[w] = commands[w] \o SetToSeq(r.token)
    BY <1>0, <2>4, <2>5 DEF Shape
  <2>8. \A v \in Workers \ {w} : pc'[v] = pc[v] /\ commands'[v] = commands[v]
    BY <1>0, <2>4 DEF Shape
  <2>9. Cutting' \subseteq Cutting
    BY <2>1, <2>8 DEF Cutting
  <2>10. i'[w] \in Nat \ {0} /\ \A v \in Workers \ mixed : tmp'[v] = tmp[v]
    BY <1>4, <2>1, <2>4, <2>5
  <2>11. \E q : save' = {q} /\ q.of \in mixed
    BY <2>4, <2>5
  <2> QED BY <1>2, <1>5, <2>1, <2>4, <2>6, <2>7, <2>8, <2>9, <2>10, <2>11
<1>8. CASE CutName(w)
  <2>1. pc[w] = "name" /\ i[w] <= Len(commands[w]) /\ w \in Cutting
    BY <1>8, Zenon DEF CutName, Cutting
  <2> DEFINE p == commands[w][i[w]]
             r == Strtok(p, Space)
  <2>2. p.of \in mixed
    <3>1. i[w] \in Nat \ {0} /\ Inside(commands[w], mixed)
      BY <1>4, <2>1
    <3> QED BY <2>1, <3>1, InsideMore
  <2>4. /\ tmp' = r.tmp /\ save' = r.save /\ pc' = [pc EXCEPT ![w] = "arg"]
        /\ UNCHANGED <<line, commands, args, i, repeats, repeatAt, executed>>
    BY <1>8, Zenon DEF CutName, Space
  <2>5. /\ \E q : r.save = {q} /\ q.of \in mixed
        /\ \A v \in Workers \ mixed : r.tmp[v] = tmp[v]
        /\ r.tmp = [v \in Workers |-> r.tmp[v]]
    BY <1>6, <2>2
  <2> HIDE DEF p, r
  <2>7. Shape' /\ pc'[w] = "arg"
    BY <1>0, <2>4, <2>5 DEF Shape
  <2>8. \A v \in Workers \ {w} : pc'[v] = pc[v]
    BY <1>0, <2>4 DEF Shape
  <2>9. Cutting' \subseteq Cutting
    BY <2>1, <2>8 DEF Cutting
  <2>10. /\ i'[w] \in Nat \ {0} /\ Inside(commands'[w], mixed)
         /\ \A v \in Workers \ mixed : tmp'[v] = tmp[v]
    BY <1>4, <2>1, <2>4, <2>5
  <2>11. \E q : save' = {q} /\ q.of \in mixed
    BY <2>4, <2>5
  <2> QED BY <1>2, <1>5, <2>1, <2>4, <2>7, <2>8, <2>9, <2>10, <2>11
<1>9. CASE CutArg(w)
  <2>1. pc[w] = "arg" /\ w \in Cutting
    BY <1>9, Zenon DEF CutArg, Cutting
  <2>2. PICK p : save = {p} /\ p.of \in mixed
    BY <1>4, <2>1
  <2>3. Saved = p
    BY <2>2, OneItem DEF Saved
  <2> DEFINE r == Strtok(p, Space)
             v0 == Atoi(CHOOSE q \in r.token : TRUE)
  <2>4. /\ tmp' = r.tmp /\ save' = r.save
        /\ \/ pc' = [pc EXCEPT ![w] = "crashed"] /\ UNCHANGED <<args, i>>
           \/ /\ args' = [args EXCEPT ![w] = Append(args[w], v0)]
              /\ i' = [i EXCEPT ![w] = i[w] + 1]
              /\ pc' = [pc EXCEPT ![w] = "name"]
        /\ UNCHANGED <<line, commands, repeats, repeatAt, executed>>
    BY <1>9, <2>3, Zenon DEF CutArg, Space
  <2>5. /\ \E q : r.save = {q} /\ q.of \in mixed
        /\ \A v \in Workers \ mixed : r.tmp[v] = tmp[v]
        /\ r.tmp = [v \in Workers |-> r.tmp[v]]
    BY <1>6, <2>2
  <2> HIDE DEF r, v0
  <2>7. Shape' /\ pc'[w] \in {"crashed", "name"}
    BY <1>0, <2>4, <2>5 DEF Shape
  <2>8. \A v \in Workers \ {w} : pc'[v] = pc[v] /\ i'[v] = i[v] /\ args'[v] = args[v]
    BY <1>0, <2>4 DEF Shape
  <2>9. Cutting' \subseteq Cutting
    BY <2>1, <2>8 DEF Cutting
  <2>10. /\ i'[w] \in Nat \ {0} /\ Inside(commands'[w], mixed)
         /\ \A v \in Workers \ mixed : tmp'[v] = tmp[v]
    <3>1. i[w] \in Nat \ {0} /\ i = [v \in Workers |-> i[v]]
      BY <1>0, <1>4, <2>1 DEF Shape
    <3>2. i'[w] = i[w] \/ i'[w] = i[w] + 1
      BY <2>4, <3>1
    <3>3. i'[w] \in Nat \ {0}
      BY <3>1, <3>2
    <3> QED BY <1>4, <2>1, <2>4, <2>5, <3>3
  <2>11. \E q : save' = {q} /\ q.of \in mixed
    BY <2>4, <2>5
  <2> QED BY <1>2, <1>5, <2>1, <2>4, <2>7, <2>8, <2>9, <2>10, <2>11
(* Nothing is cut any more. *)
<1>10. CASE Parsed(w) \/ RunOnce(w) \/ BeginRepeat(w) \/ NoRepeat(w) \/ NextRound(w) \/ RunAgain(w)
  <2>0. /\ UNCHANGED <<line, tmp, save, commands, args>>
        /\ executed' = executed \/ Execute(w)
    BY <1>10 DEF Parsed, RunOnce, BeginRepeat, NoRepeat, NextRound, RunAgain
  <2>1. UNCHANGED <<line, tmp, save, commands, args>> /\ \E ex : executed' = [executed EXCEPT ![w] = ex]
    <3>1. CASE executed' = executed
      BY <1>0, <2>0, <3>1, SameValues
    <3>2. CASE Execute(w)
      <4> DEFINE ex == executed[w] \o
            SetToSeq({[name |-> n, arg |-> args[w][i[w]]] : n \in {n \in Basic : Spelled(commands[w][i[w]], n)}})
      <4>1. executed' = [executed EXCEPT ![w] = ex]
        BY <3>2, Zenon DEF Execute
      <4> HIDE DEF ex
      <4> QED BY <2>0, <4>1
    <3> QED BY <2>0, <3>1, <3>2
  <2>9. /\ pc' \in [Workers -> {"split", "more", "name", "arg", "once", "round", "again", "done", "crashed"}]
        /\ pc'[w] \in {"once", "round", "again", "done"}
        /\ i' = [v \in Workers |-> i'[v]] /\ repeats' = [v \in Workers |-> repeats'[v]]
        /\ repeatAt' = [v \in Workers |-> repeatAt'[v]]
        /\ \A v \in Workers \ {w} :
             pc'[v] = pc[v] /\ i'[v] = i[v] /\ repeats'[v] = repeats[v] /\ repeatAt'[v] = repeatAt[v]
    <3> USE <1>0 DEF Shape
    <3>1. CASE Parsed(w)
      BY <3>1 DEF Parsed
    <3>2. CASE RunOnce(w)
      BY <3>2 DEF RunOnce
    <3>3. CASE BeginRepeat(w)
      BY <3>3 DEF BeginRepeat
    <3>4. CASE NoRepeat(w)
      BY <3>4 DEF NoRepeat
    <3>5. CASE NextRound(w)
      BY <3>5 DEF NextRound
    <3>6. CASE RunAgain(w)
      BY <3>6 DEF RunAgain
    <3> QED BY <1>10, <3>1, <3>2, <3>3, <3>4, <3>5, <3>6
  <2>2. Shape' /\ pc'[w] \in {"once", "round", "again", "done"}
    BY <1>0, <2>1, <2>9 DEF Shape
  <2>3. \A v \in Workers \ {w} :
          /\ pc'[v] = pc[v] /\ commands'[v] = commands[v] /\ args'[v] = args[v]
          /\ i'[v] = i[v] /\ repeats'[v] = repeats[v] /\ repeatAt'[v] = repeatAt[v]
          /\ executed'[v] = executed[v]
    BY <1>0, <2>1, <2>9 DEF Shape
  <2>4. Cutting' \subseteq Cutting /\ w \notin Cutting'
    BY <2>2, <2>3 DEF Cutting
  <2>5. \A v \in mixed' : pc'[v] # "split"
    <3> SUFFICES ASSUME NEW v \in mixed PROVE pc'[v] # "split"
      OBVIOUS
    <3>1. v \in Workers /\ pc[v] # "split"
      BY <1>0 DEF Confined
    <3> QED BY <2>2, <2>3, <3>1
  <2>6. ASSUME NEW v \in mixed' \cap Cutting'
        PROVE  /\ i'[v] \in Nat \ {0} /\ Inside(commands'[v], mixed')
               /\ \E p : save' = {p} /\ p.of \in mixed'
    <3>1. v \in mixed \cap Cutting /\ v \in Workers \ {w}
      BY <1>1, <2>4, <2>6
    <3> QED BY <1>0, <2>1, <2>3, <3>1 DEF Confined
  <2>7. ASSUME NEW v \in Workers \ mixed', v \in Cutting PROVE save' = save /\ Cutting' = {v}
    <3>1. Cutting = {v} /\ v \in Workers \ {w}
      BY <1>0, <2>7 DEF Alone, Clean
    <3>2. v \in Cutting'
      BY <2>3, <2>7, <3>1 DEF Cutting
    <3> QED BY <2>1, <2>4, <3>1, <3>2
  <2>8. Stirs(w)
    BY <1>1, <2>1, <2>2, <2>3, <2>5, <2>6, <2>7 DEF Stirs
  <2> QED BY <1>2, <2>8
<1> QED BY <1>7, <1>8, <1>9, <1>10 DEF Worker

(* A worker begins to cut while others do: all of them are mixed up.       *)
LEMMA StartMixes ==
  ASSUME RunInv, NEW w \in Workers, Split(w), pc[w] = "split", mixed' = mixed \cup Cutting \cup {w}
  PROVE  RunInv'
<1>0. Shape /\ Alone /\ Confined /\ mixed \subseteq Workers /\ Cutting \subseteq Workers
  BY DEF RunInv, Confined, Cutting
<1>1. w \in Clean /\ Parse(w)
  BY <1>0 DEF RunInv, Confined, Clean
<1>2. commands[w] = <<>> /\ i[w] = 1
  BY <1>1 DEF Parse
<1> DEFINE p == Place(w, 1)
           r == Strtok(p, Semicolon)
<1>3. /\ tmp' = r.tmp /\ save' = r.save
      /\ commands' = [commands EXCEPT ![w] = commands[w] \o SetToSeq(r.token)]
      /\ pc' = [pc EXCEPT ![w] = IF r.token = {} THEN "name" ELSE "more"]
      /\ UNCHANGED <<line, args, i, repeats, repeatAt, executed>>
  BY Zenon DEF Split, Semicolon
<1>4. p.of = w
  BY DEF Place
<1>5. /\ r.token = {} \/ \E q : r.token = {q} /\ q.of = w
      /\ \E q : r.save = {q} /\ q.of = w
      /\ r.tmp = tmp \/ \E x : r.tmp = [tmp EXCEPT ![w] = x]
  <2>1. Within(r, p.of)
    BY StrtokStays, Zenon
  <2> HIDE DEF r, p
  <2> QED BY <1>4, <2>1 DEF Within
<1> HIDE DEF r, p
<1>6. Shape' /\ pc'[w] \in {"name", "more"} /\ commands'[w] = <<>> \o SetToSeq(r.token)
  BY <1>0, <1>2, <1>3, <1>5 DEF Shape
<1>7. \A v \in Workers \ {w} : pc'[v] = pc[v] /\ commands'[v] = commands[v] /\ tmp'[v] = tmp[v]
  BY <1>0, <1>3, <1>5 DEF Shape
<1>8. \A m : w \in m => Inside(commands'[w], m)
  <2> SUFFICES ASSUME NEW m, w \in m PROVE Inside(commands'[w], m)
    OBVIOUS
  <2> DEFINE none == <<>>
             S == {}
  <2>1. Inside(none, m)
    <3>1. none \in Seq(S) /\ \A q \in S : q.of \in m
      OBVIOUS
    <3> HIDE DEF none, S
    <3> QED BY <3>1 DEF Inside
  <2>2. commands'[w] = none \o SetToSeq(r.token)
    BY <1>6
  <2> HIDE DEF none
  <2>3. CASE r.token = {}
    <3>1. SetToSeq(r.token) = <<>>
      BY <2>3, OneItem
    <3>2. Inside(none \o <<>>, m)
      BY <2>1, InsideMore
    <3> QED BY <2>2, <3>1, <3>2
  <2>4. ASSUME NEW q, r.token = {q}, q.of = w PROVE Inside(commands'[w], m)
    <3>1. SetToSeq(r.token) = <<q>>
      BY <2>4, OneItem
    <3>2. Inside(none \o <<q>>, m)
      BY <2>1, <2>4, InsideMore
    <3> QED BY <2>2, <3>1, <3>2
  <2> QED BY <1>5, <2>3, <2>4
<1>9. Cutting' \subseteq Cutting \cup {w}
  BY <1>7 DEF Cutting
<1>10. ASSUME NEW v \in mixed' PROVE pc'[v] # "split"
  <2>1. CASE v = w
    BY <1>6, <2>1
  <2>2. CASE v # w
    <3>1. v \in Workers /\ pc[v] # "split"
      BY <1>0, <1>10, <2>2 DEF Confined, Cutting
    <3> QED BY <1>7, <2>2, <3>1
  <2> QED BY <2>1, <2>2
<1>11. ASSUME NEW v \in mixed' \cap Cutting'
       PROVE  i'[v] \in Nat \ {0} /\ Inside(commands'[v], mixed')
  <2>1. CASE v = w
    BY <1>2, <1>3, <1>8, <1>11, <2>1
  <2>2. CASE v # w /\ v \in mixed
    <3>1. v \in mixed \cap Cutting /\ v \in Workers \ {w}
      BY <1>0, <1>9, <1>11, <2>2
    <3>2. i[v] \in Nat \ {0} /\ Inside(commands[v], mixed)
      BY <1>0, <3>1 DEF Confined
    <3>3. mixed \subseteq mixed'
      OBVIOUS
    <3>4. Inside(commands[v], mixed')
      BY <3>2, <3>3, InsideMore
    <3> QED BY <1>3, <1>7, <3>1, <3>2, <3>4
  <2>3. CASE v # w /\ v \notin mixed
    <3>1. v \in Clean /\ v \in Cutting /\ v \in Workers \ {w}
      BY <1>0, <1>9, <1>11, <2>3 DEF Clean
    <3>2. Parse(v)
      BY <3>1 DEF RunInv
    <3>3. i[v] \in Nat \ {0}
      <4>1. pc[v] \in {"more", "name", "arg"}
        BY <3>1 DEF Cutting
      <4> DEFINE a == Len(line[v]) + 1
                 b == Len(line[v])
      <4>2. i[v] = 1 \/ i[v] \in 1 .. a \/ i[v] \in 1 .. b
        BY <3>2, <4>1 DEF Parse
      <4> HIDE DEF a, b
      <4> QED BY <4>2
    <3>4. \E n : commands[v] = Places(v, line[v], n) /\ n \in Nat
      <4>1. pc[v] \in {"more", "name", "arg"} /\ line[v] \in Seq(Command)
        BY <1>0, <3>1, RunJobAssumption DEF Cutting, Shape
      <4>2. Len(line[v]) \in Nat
        BY <4>1
      <4> QED BY <3>2, <4>1, <4>2 DEF Parse
    <3>5. Inside(commands[v], {v})
      <4>1. PICK n \in Nat : commands[v] = Places(v, line[v], n)
        BY <3>4
      <4> DEFINE f(k) == Place(v, Start(line[v], k))
                 S == {f(k) : k \in 1 .. n}
      <4>2. \A q \in S : q.of \in {v}
        BY DEF Place
      <4>3. commands[v] = [k \in 1 .. n |-> f(k)]
        BY <4>1 DEF Places
      <4>4. \A k \in 1 .. n : f(k) \in S
        OBVIOUS
      <4> HIDE DEF f, S
      <4>5. [k \in 1 .. n |-> f(k)] \in Seq(S)
        BY <4>4
      <4> QED BY <4>2, <4>3, <4>5 DEF Inside
    <3>6. {v} \subseteq mixed'
      BY <3>1
    <3>7. Inside(commands[v], mixed')
      BY <3>5, <3>6, InsideMore
    <3> QED BY <1>3, <1>7, <3>1, <3>3, <3>7
  <2> QED BY <2>1, <2>2, <2>3
<1>12. \E q : save' = {q} /\ q.of \in mixed'
  BY <1>3, <1>5
<1>13. Stirs(w)
  BY <1>0, <1>3, <1>6, <1>7, <1>10, <1>11, <1>12 DEF Stirs
<1> QED BY <1>13, StirsOnlyMixed

(* Every step of run_job preserves it. *)
LEMMA RunJobSteps ==
  ASSUME RunInv, FitLines, NEW w \in Workers, Worker(w),
         mixed' = IF pc[w] = "split" /\ Cutting # {} THEN mixed \cup Cutting \cup {w} ELSE mixed
  PROVE  RunInv'
<1>1. CASE pc[w] = "split" /\ Cutting # {}
  <2>1. Split(w)
    BY <1>1 DEF Worker, CutName, CutArg, Parsed, RunOnce, BeginRepeat, NoRepeat, NextRound, RunAgain
  <2> QED BY <1>1, <2>1, StartMixes
<1>2. CASE ~(pc[w] = "split" /\ Cutting # {})
  <2>1. mixed' = mixed
    BY <1>2
  <2>2. CASE w \in mixed
    BY <2>1, <2>2, MixedRuns
  <2>3. CASE w \notin mixed
    BY <1>2, <2>1, <2>3, CleanRuns DEF Clean
  <2> QED BY <2>2, <2>3
<1> QED BY <1>1, <1>2

(* What is executed is a beginning of what the line means, and the whole   *)
(* of it at the end.                                                       *)
LEMMA Reaches ==
  ASSUME NEW l, FitLine(l), NEW at, NEW k, NEW left, NEW mark, NEW ex,
         at \in {"split", "more", "name", "arg", "once", "round", "again", "done"},
         Executing(l, at, k, left, mark, ex)
  PROVE  /\ ex \in Seq(Calls) /\ \E rest \in Seq(Calls) : Meaning(l) = ex \o rest
         /\ at = "done" => ex = Meaning(l)
<1> DEFINE n == Len(l)
<1>1. n \in Nat /\ n >= 1 /\ 0 \in 0 .. n /\ n \in 0 .. n
  BY StartIs
<1>2. /\ \A r, j \in 0 .. n : r <= j => Body(l, r, j) \in Seq(Calls)
      /\ \A r, j, m \in 0 .. n : r <= j /\ j <= m => Body(l, r, m) = Body(l, r, j) \o Body(l, j, m)
  BY BodyIs
<1>3. \A r \in 1 .. n : r \in 0 .. n /\ l[r].arg \in Nat
  <2>1. \A r \in 1 .. n : l[r].arg \in Nat
    BY PieceIs
  <2> QED BY <1>1, <2>1
<1>4. /\ \A r \in 0 .. n, d \in Nat : Rounds(l, r, d) \in Seq(Calls)
      /\ \A r \in 0 .. n, d, m \in Nat : \E rest \in Seq(Calls) : Rounds(l, r, d + m) = Rounds(l, r, d) \o rest
      /\ \A r \in 0 .. n, d \in Nat : Rounds(l, r, d + 1) = Rounds(l, r, d) \o Body(l, r, n)
  BY RoundsAre
<1>5. NoRepeatIn(l) => Meaning(l) = Body(l, 0, n)
  BY MeaningIs DEF NoRepeatIn
<1>6. \A r \in 1 .. n : l[r].name = "repeat" => Meaning(l) = Body(l, 0, r - 1) \o Rounds(l, r, l[r].arg)
  BY MeaningIs
<1>7. Meaning(l) \in Seq(Calls)
  <2>1. CASE NoRepeatIn(l)
    BY <1>1, <1>2, <1>5, <2>1
  <2>2. ASSUME NEW r \in 1 .. n, l[r].name = "repeat" PROVE Meaning(l) \in Seq(Calls)
    <3>1. r - 1 \in 0 .. n /\ 0 <= r - 1
      BY <1>1
    <3>2. Body(l, 0, r - 1) \in Seq(Calls) /\ Rounds(l, r, l[r].arg) \in Seq(Calls)
      BY <1>1, <1>2, <1>3, <1>4, <3>1
    <3> QED BY <1>6, <2>2, <3>2, Joins
  <2> QED BY <2>1, <2>2 DEF NoRepeatIn
<1> HIDE DEF n
(* Before anything is executed. *)
<1>8. CASE at \in {"split", "more", "name", "arg"}
  <2>1. ex = <<>>
    BY <1>8 DEF Executing
  <2>2. <<>> \o Meaning(l) = Meaning(l)
    BY <1>7
  <2> QED BY <1>7, <1>8, <2>1, <2>2, Joins
(* The commands before the repeat. *)
<1>9. CASE at = "once"
  <2>1. k \in 1 .. n + 1 /\ (\A j \in 1 .. k - 1 : l[j].name # "repeat") /\ ex = Body(l, 0, k - 1)
    BY <1>9 DEF Executing, n
  <2>2. k - 1 \in 0 .. n /\ 0 <= k - 1 /\ k - 1 <= n
    BY <1>1, <2>1
  <2>3. ex \in Seq(Calls)
    BY <1>1, <1>2, <2>1, <2>2
  <2>4. CASE NoRepeatIn(l)
    <3>1. Body(l, 0, n) = Body(l, 0, k - 1) \o Body(l, k - 1, n) /\ Body(l, k - 1, n) \in Seq(Calls)
      BY <1>1, <1>2, <2>2
    <3> QED BY <1>5, <1>9, <2>1, <2>3, <2>4, <3>1
  <2>5. ASSUME NEW r \in 1 .. n, l[r].name = "repeat"
        PROVE  \E rest \in Seq(Calls) : Meaning(l) = ex \o rest
    <3>1. ~(r \in 1 .. k - 1)
      BY <2>1, <2>5
    <3>2. r - 1 \in 0 .. n /\ k - 1 <= r - 1
      BY <1>1, <2>1, <3>1
    <3>3. Body(l, 0, r - 1) = ex \o Body(l, k - 1, r - 1) /\ Body(l, k - 1, r - 1) \in Seq(Calls)
      BY <1>1, <1>2, <2>1, <2>2, <3>2
    <3>4. Rounds(l, r, l[r].arg) \in Seq(Calls)
      BY <1>3, <1>4
    <3> DEFINE rest == Body(l, k - 1, r - 1) \o Rounds(l, r, l[r].arg)
    <3>5. rest \in Seq(Calls)
      BY <3>3, <3>4, Joins
    <3>6. Meaning(l) = (ex \o Body(l, k - 1, r - 1)) \o Rounds(l, r, l[r].arg)
      BY <1>6, <2>5, <3>3
    <3>7. Meaning(l) = ex \o rest
      BY <2>3, <3>3, <3>4, <3>6, Joins
    <3> QED BY <3>5, <3>7
  <2> QED BY <1>9, <2>3, <2>4, <2>5 DEF NoRepeatIn, n
(* The rounds. *)
<1>10. CASE at \in {"round", "again", "done"}
  <2>1. CASE NoRepeatIn(l) /\ ex = Body(l, 0, n)
    <3>1. ex = Meaning(l)
      BY <1>5, <2>1
    <3> QED BY <1>7, <3>1, Joins
  <2>2. ASSUME NEW r \in 1 .. n, NEW d \in 0 .. l[r].arg, Round(l, at, k, left, mark, ex, r, d)
        PROVE  /\ ex \in Seq(Calls) /\ \E rest \in Seq(Calls) : Meaning(l) = ex \o rest
               /\ at = "done" => ex = Meaning(l)
    <3> DEFINE A == Body(l, 0, r - 1)
               Q(x) == Rounds(l, r, x)
               c == l[r].arg
    <3>1. r \in 0 .. n /\ r - 1 \in 0 .. n /\ 0 <= r - 1 /\ c \in Nat /\ d \in Nat /\ d <= c
      BY <1>1, <1>3
    <3>2. A \in Seq(Calls) /\ \A x \in Nat : Q(x) \in Seq(Calls)
      BY <1>1, <1>2, <1>4, <3>1
    <3>3. Meaning(l) = A \o Q(c)
      BY <1>6, <2>2 DEF Round
    <3>4. PICK more \in Seq(Calls) : Q(c) = Q(d) \o more
      <4>1. c - d \in Nat /\ d + (c - d) = c
        BY <3>1
      <4>2. \E rest \in Seq(Calls) : Rounds(l, r, d + (c - d)) = Rounds(l, r, d) \o rest
        BY <1>4, <3>1, <4>1
      <4> HIDE DEF c
      <4> QED BY <4>1, <4>2
    <3>5. left = c - d
      BY <2>2 DEF Round
    <3>6. \A x \in Nat : Q(x + 1) = Q(x) \o Body(l, r, n)
      BY <1>4, <3>1
    <3> HIDE DEF A, Q, c
    <3>7. CASE at = "again"
      <4>1. d >= 1 /\ k \in r + 1 .. n + 1 /\ ex = (A \o Q(d - 1)) \o Body(l, r, k - 1)
        BY <2>2, <3>7 DEF Round, A, Q, n
      <4>2. d - 1 \in Nat /\ (d - 1) + 1 = d /\ k - 1 \in 0 .. n /\ r <= k - 1 /\ k - 1 <= n
        BY <1>1, <3>1, <4>1
      <4> DEFINE P == Body(l, r, k - 1)
                 R == Body(l, k - 1, n)
                 q == Q(d - 1)
      <4>3. P \in Seq(Calls) /\ R \in Seq(Calls) /\ Body(l, r, n) = P \o R
        BY <1>1, <1>2, <3>1, <4>2
      <4>4. q \in Seq(Calls) /\ Q(d) = q \o Body(l, r, n)
        BY <3>2, <3>6, <4>2
      <4>5. ex = (A \o q) \o P
        BY <4>1
      <4> HIDE DEF P, R, q
      <4>6. Meaning(l) = A \o ((q \o (P \o R)) \o more)
        BY <3>3, <3>4, <4>3, <4>4
      <4>7. A \o ((q \o (P \o R)) \o more) = ((A \o q) \o P) \o (R \o more)
        <5>1. P \o R \in Seq(Calls) /\ R \o more \in Seq(Calls) /\ A \o q \in Seq(Calls)
          BY <3>2, <3>4, <4>3, <4>4, Joins
        <5>2. q \o (P \o R) \in Seq(Calls)
          BY <4>4, <5>1, Joins
        <5>3. (q \o (P \o R)) \o more = q \o ((P \o R) \o more) /\ (P \o R) \o more = P \o (R \o more)
              /\ P \o (R \o more) \in Seq(Calls)
          <6>1. (q \o (P \o R)) \o more = q \o ((P \o R) \o more)
            BY <3>4, <4>4, <5>1, Joins
          <6>2. (P \o R) \o more = P \o (R \o more) /\ P \o (R \o more) \in Seq(Calls)
            BY <3>4, <4>3, <5>1, Joins
          <6> QED BY <6>1, <6>2
        <5>4. A \o (q \o (P \o (R \o more))) = (A \o q) \o (P \o (R \o more))
          BY <3>2, <4>4, <5>3, Joins
        <5>5. (A \o q) \o (P \o (R \o more)) = ((A \o q) \o P) \o (R \o more)
          BY <4>3, <5>1, Joins
        <5> QED BY <5>3, <5>4, <5>5
      <4>8. ex \in Seq(Calls) /\ R \o more \in Seq(Calls)
        BY <3>2, <3>4, <4>3, <4>4, <4>5, Joins
      <4> QED BY <3>7, <4>5, <4>6, <4>7, <4>8
    <3>8. CASE at # "again"
      <4>1. ex = A \o Q(d)
        BY <2>2, <3>8 DEF Round, A, Q
      <4>2. Q(d) \in Seq(Calls)
        BY <3>1, <3>2
      <4>3. ex \in Seq(Calls) /\ Meaning(l) = ex \o more
        <5>1. ex \in Seq(Calls)
          BY <3>2, <4>1, <4>2, Joins
        <5>2. A \o (Q(d) \o more) = (A \o Q(d)) \o more
          BY <3>2, <3>4, <4>2, Joins
        <5> QED BY <3>3, <3>4, <4>1, <5>1, <5>2
      <4>4. at = "done" => ex = Meaning(l)
        <5> SUFFICES ASSUME at = "done" PROVE ex = Meaning(l)
          OBVIOUS
        <5>1. left = 0
          BY DEF Executing
        <5>2. d = c
          BY <3>1, <3>5, <5>1
        <5> QED BY <3>3, <4>1, <5>2
      <4> QED BY <4>3, <4>4
    <3> QED BY <3>7, <3>8
  <2> QED BY <1>10, <2>1, <2>2 DEF Executing, n
<1> QED BY <1>8, <1>9, <1>10

(* No line is cut at the start. *)
LEMMA RunInvAtFirst ==
  ASSUME Init, mixed = {}, FitLines
  PROVE  RunInv
<1>1. line \in [Workers -> Lines] /\ tmp = [w \in Workers |-> TextOf(line[w])]
  BY DEF Init
<1>2. \A w \in Workers : FitLine(line[w]) /\ Laid(TextOf(line[w]), line[w], 0, 0)
  <2>1. \A w \in Workers : FitLine(line[w])
    BY <1>1 DEF FitLines
  <2> QED BY <2>1, StartIs, TextLaid
<1>3. Shape
  BY <1>1 DEF Init, Shape
<1>4. \A w \in Workers : pc[w] = "split" /\ tmp[w] = TextOf(line[w])
  BY <1>1 DEF Init
<1>5. Alone /\ Confined
  BY <1>4 DEF Alone, Confined, Cutting
<1>6. ASSUME NEW w \in Workers PROVE pc[w] # "crashed" /\ Parse(w) /\ Executes(w)
  <2>1. /\ commands[w] = <<>> /\ args[w] = <<>> /\ i[w] = 1 /\ executed[w] = <<>> /\ repeats[w] = 0
        /\ pc[w] = "split"
    BY <1>4 DEF Init
  <2>2. Parse(w)
    BY <1>2, <1>4, <2>1 DEF Parse
  <2>3. Executes(w)
    BY <2>1 DEF Executes, Executing
  <2> QED BY <2>1, <2>2, <2>3
<1> QED BY <1>3, <1>5, <1>6 DEF RunInv, Clean

(* Every step of run_job, and of the calls it makes. *)
LEMMA RunInvStays ==
  ASSUME RunInv, FitLines, [JobsNext]_allVars
  PROVE  RunInv'
<1>1. ASSUME NEW w \in Workers, JobStep(w) PROVE RunInv'
  <2>1. Worker(w) /\ mixed' = IF pc[w] = "split" /\ Cutting # {} THEN mixed \cup Cutting \cup {w} ELSE mixed
    BY <1>1 DEF JobStep
  <2> QED BY <2>1, RunJobSteps
<1>2. CASE UNCHANGED <<vars, mixed>>
  <2>1. UNCHANGED <<line, tmp, save, pc, commands, args, i, repeats, repeatAt, executed, mixed>>
    BY <1>2 DEF vars
  <2>2. Shape'
    BY <2>1 DEF RunInv, Shape
  <2>3. Alone' /\ Confined'
    BY <2>1 DEF RunInv, Alone, Confined, Cutting, Clean
  <2>4. ASSUME NEW w \in Clean' PROVE pc'[w] # "crashed" /\ Parse(w)' /\ Executes(w)'
    <3>1. pc[w] # "crashed" /\ Parse(w) /\ Executes(w)
      BY <2>1 DEF RunInv, Clean
    <3>2. Parse(w)'
      BY <2>1, <3>1 DEF Parse
    <3>3. Executes(w)'
      BY <2>1, <3>1 DEF Executes
    <3> QED BY <2>1, <3>1, <3>2, <3>3
  <2> QED BY <2>2, <2>3, <2>4 DEF RunInv
<1> QED BY <1>1, <1>2 DEF JobsNext, FileStep, Over, allVars

(* What such a worker has executed is a beginning of its line.             *)
LEMMA LineExecuted ==
  ASSUME RunInv, FitLines, NEW w \in Workers, w \in Clean
  PROVE  /\ executed[w] \in Seq(Calls)
         /\ \E rest \in Seq(Calls) : Meaning(line[w]) = executed[w] \o rest
         /\ pc[w] = "done" => executed[w] = Meaning(line[w])
<1> DEFINE q == executed[w]
<1>1. FitLine(line[w]) /\ Executing(line[w], pc[w], i[w], repeats[w], repeatAt[w], q)
  BY LineFits DEF Executes
<1>2. pc[w] \in {"split", "more", "name", "arg", "once", "round", "again", "done"}
  BY DEF RunInv, Shape
<1> HIDE DEF q
<1>3. /\ q \in Seq(Calls) /\ \E rest \in Seq(Calls) : Meaning(line[w]) = q \o rest
      /\ pc[w] = "done" => q = Meaning(line[w])
  BY <1>1, <1>2, Reaches
<1> QED BY <1>3 DEF q

(* The invariant implies it. *)
LEMMA AloneIsRight ==
  ASSUME RunInv, FitLines
  PROVE  AloneExecutesItsLine
<1> SUFFICES ASSUME NEW w \in Workers \ mixed
             PROVE  /\ IsPrefix(executed[w], Meaning(line[w]))
                    /\ pc[w] = "done" => executed[w] = Meaning(line[w])
  BY DEF AloneExecutesItsLine
<1>3. /\ executed[w] \in Seq(Calls) /\ \E rest \in Seq(Calls) : Meaning(line[w]) = executed[w] \o rest
      /\ pc[w] = "done" => executed[w] = Meaning(line[w])
  BY LineExecuted DEF Clean
<1>4. ASSUME NEW s \in Seq(Calls), NEW t \in Seq(Calls) PROVE IsPrefix(s, s \o t)
  <2>1. s \o t \in Seq(Calls) /\ Len(s \o t) = Len(s) + Len(t) /\ Len(s) \in Nat /\ Len(t) \in Nat
    BY ConcatProperties
  <2>2. Len(s) <= Len(s \o t)
    BY <2>1
  <2>3. SubSeq(s, 1, Len(s)) = SubSeq(s \o t, 1, Len(s))
    <3>1. CASE Len(s) = 0
      <4>1. \A q : SubSeq(q, 1, 0) = <<>>
        BY SubSeqEmpty
      <4> QED BY <3>1, <4>1
    <3>2. CASE Len(s) # 0
      <4>1. 1 \in 1 .. Len(s) /\ Len(s) \in 1 .. Len(s)
        BY <2>1, <3>2
      <4> QED BY <4>1, SubSeqOfConcat1
    <3> QED BY <3>1, <3>2
  <2> QED BY <2>2, <2>3 DEF IsPrefix
<1> QED BY <1>3, <1>4

(* A worker that cuts its line while no other cuts executes that line: a   *)
(* beginning of what the line means at any time, the whole of it when it   *)
(* is done, though others cut before and after it, and mix each other up   *)
(* (run_job).  For any set of workers, and lines of any length with any    *)
(* arguments.                                                              *)
THEOREM LinesExecuted ==
  ASSUME FitLines
  PROVE  JobsSpec => []AloneExecutesItsLine
<1>1. JobsInit => RunInv
  BY RunInvAtFirst DEF JobsInit
<1>2. RunInv /\ [JobsNext]_allVars => RunInv'
  BY RunInvStays
<1>3. RunInv => AloneExecutesItsLine
  BY AloneIsRight
<1> QED BY <1>1, <1>2, <1>3, PTL DEF JobsSpec

(* atoi(NULL) is reached by a worker only that cut at the same time as     *)
(* another (run_job).                                                      *)
THEOREM OnlyMixedCrash ==
  ASSUME FitLines
  PROVE  JobsSpec => [](Crashed => mixed # {})
<1>1. JobsInit => RunInv
  BY RunInvAtFirst DEF JobsInit
<1>2. RunInv /\ [JobsNext]_allVars => RunInv'
  BY RunInvStays
<1>3. RunInv => (Crashed => mixed # {})
  BY DEF RunInv, Crashed, Clean
<1> QED BY <1>1, <1>2, <1>3, PTL DEF JobsSpec

------------------------------------------------------------------------------
(* What a fold over numbers computes                                       *)

(* The greatest of finitely many places. *)
LEMMA GreatestIs ==
  ASSUME NEW L \in Nat, NEW s \in SUBSET (1 .. L), s # {}
  PROVE  Max(s) \in s /\ \A x \in s : x <= Max(s)
<1> DEFINE T == {L - x : x \in s}
<1>1. T \in SUBSET Nat /\ T # {}
  <2>1. \A x \in 1 .. L : L - x \in Nat
    OBVIOUS
  <2> QED BY <2>1
<1> HIDE DEF T
<1>2. PICK t \in T : \A u \in T : t <= u
  BY <1>1, LeastNat
<1>3. PICK x \in s : t = L - x
  BY <1>2 DEF T
<1>4. \A y \in s : L - y \in T
  BY DEF T
<1>5. \A y \in s : x >= y
  <2> SUFFICES ASSUME NEW y \in s PROVE x >= y
    OBVIOUS
  <2>1. x \in Int /\ y \in Int /\ L - x <= L - y
    BY <1>2, <1>3, <1>4
  <2> QED BY <2>1
<1>6. Max(s) \in s /\ \A y \in s : Max(s) >= y
  BY <1>3, <1>5 DEF Max
<1> QED BY <1>6

(* A step of a fold takes the value so far and a number.                   *)
Steps == [Int -> [Int -> Int]]

(* Folding q with `step', from 0, gives v.                                 *)
Folded(step, q, v) ==
  \E h : /\ h[0] = 0 /\ h[Len(q)] = v
         /\ \A m \in 0 .. Len(q) : h[m] \in Int
         /\ \A m \in 1 .. Len(q) : h[m] = step[h[m - 1]][q[m]]

(* The recursion of a fold has a solution. *)
LEMMA FoldSolution ==
  ASSUME NEW step \in Steps, NEW q \in Seq(Int)
  PROVE  \E F \in [SUBSET DOMAIN q -> Int] : \A s \in SUBSET DOMAIN q :
           F[s] = IF s = {} THEN 0 ELSE step[F[s \ {Max(s)}]][q[Max(s)]]
<1> DEFINE L == Len(q)
           D == SUBSET (1 .. L)
           Z == {{}}
           mu == [s \in D |-> Cardinality(s)]
           next == [s \in D |-> s \ {Max(s)}]
           zero == [s \in D |-> 0]
           B == [s \in D |-> [v \in Int |-> IF s = {} THEN 0 ELSE step[v][q[Max(s)]]]]
<1>1. L \in Nat /\ DOMAIN q = 1 .. L /\ \A k \in 1 .. L : q[k] \in Int
  OBVIOUS
<1>2. \A v \in Int : \A c \in Int : step[v][c] \in Int
  BY DEF Steps
<1> HIDE DEF L
<1>3. Descends(D, Int, mu, next, Z, zero, B)
  <2>1. \A s \in D : Cardinality(s) \in Nat /\ \A x \in s : Cardinality(s \ {x}) = Cardinality(s) - 1
    <3> SUFFICES ASSUME NEW s \in D
                 PROVE  Cardinality(s) \in Nat /\ \A x \in s : Cardinality(s \ {x}) = Cardinality(s) - 1
      OBVIOUS
    <3>1. IsFiniteSet(s)
      <4>1. IsFiniteSet(1 .. L)
        BY <1>1, FS_Interval
      <4> QED BY <4>1, FS_Subset
    <3> QED BY <3>1, FS_CardinalityType, FS_RemoveElement
  <2>2. mu \in [D -> Nat]
    BY <2>1
  <2>3. next \in [D -> D] /\ Z \subseteq D /\ zero \in [D -> Int]
    OBVIOUS
  <2>4. \A s \in D : s # {} => Max(s) \in s
    BY <1>1, GreatestIs
  <2>5. B \in [D -> [Int -> Int]]
    <3>1. ASSUME NEW s \in D, NEW v \in Int
          PROVE  (IF s = {} THEN 0 ELSE step[v][q[Max(s)]]) \in Int
      <4>1. CASE s = {}
        BY <4>1
      <4>2. CASE s # {}
        <5>1. q[Max(s)] \in Int
          BY <1>1, <2>4, <4>2
        <5> QED BY <1>2, <4>2, <5>1
      <4> QED BY <4>1, <4>2
    <3> HIDE DEF D
    <3> QED BY <3>1
  <2>6. ASSUME NEW s \in D \ Z PROVE mu[next[s]] < mu[s]
    <3>1. next[s] = s \ {Max(s)} /\ next[s] \in D /\ Max(s) \in s
      BY <2>4
    <3>2. Cardinality(next[s]) = Cardinality(s) - 1 /\ Cardinality(s) \in Nat
      BY <2>1, <3>1
    <3> QED BY <3>1, <3>2
  <2> HIDE DEF D, Z, mu, next, zero, B
  <2> QED BY <2>2, <2>3, <2>5, <2>6 DEF Descends
<1> HIDE DEF mu, next, zero, B
<1>4. PICK F \in [D -> Int] : \A s \in D : F[s] = IF s \in Z THEN zero[s] ELSE B[s][F[next[s]]]
  <2> HIDE DEF D, Z
  <2> QED BY <1>3, Recursion
<1>5. ASSUME NEW s \in D
      PROVE  F[s] = IF s = {} THEN 0 ELSE step[F[s \ {Max(s)}]][q[Max(s)]]
  <2>1. next[s] = s \ {Max(s)} /\ zero[s] = 0 /\ F[next[s]] \in Int
    BY <1>4 DEF next, zero
  <2>2. s # {} => B[s][F[next[s]]] = step[F[next[s]]][q[Max(s)]]
    BY <2>1 DEF B
  <2> QED BY <1>4, <2>1, <2>2
<1> QED BY <1>1, <1>4, <1>5

(* Any solution is the fold. *)
LEMMA FoldRuns ==
  ASSUME NEW step \in Steps, NEW q \in Seq(Int), NEW G, G[{}] = 0,
         \A s \in SUBSET DOMAIN q : s # {} /\ G[s \ {Max(s)}] \in Int =>
           G[s] = step[G[s \ {Max(s)}]][q[Max(s)]]
  PROVE  Folded(step, q, G[DOMAIN q])
<1> DEFINE L == Len(q)
           h == [m \in 0 .. L |-> G[1 .. m]]
<1>1. L \in Nat /\ DOMAIN q = 1 .. L /\ \A k \in 1 .. L : q[k] \in Int
  OBVIOUS
<1>2. \A v \in Int : \A c \in Int : step[v][c] \in Int
  BY DEF Steps
<1> HIDE DEF L
<1>3. h[0] = 0
  <2>1. 1 .. 0 = {} /\ 0 \in 0 .. L
    BY <1>1
  <2> QED BY <2>1
<1>4. ASSUME NEW m \in 1 .. L, h[m - 1] \in Int PROVE h[m] = step[h[m - 1]][q[m]]
  <2>1. 1 .. m \in SUBSET (1 .. L) /\ m \in 1 .. m /\ m - 1 \in 0 .. L /\ m \in 0 .. L
    BY <1>1
  <2>2. Max(1 .. m) = m
    <3>1. Max(1 .. m) \in 1 .. m /\ \A x \in 1 .. m : x <= Max(1 .. m)
      BY <1>1, <2>1, GreatestIs
    <3> QED BY <2>1, <3>1
  <2>3. (1 .. m) \ {m} = 1 .. m - 1
    BY <1>1
  <2> DEFINE s == 1 .. m
  <2>4. s \in SUBSET DOMAIN q /\ s # {} /\ Max(s) = m /\ s \ {m} = 1 .. m - 1
    BY <1>1, <2>1, <2>2, <2>3
  <2>5. h[m] = G[s] /\ h[m - 1] = G[1 .. m - 1]
    BY <2>1
  <2> HIDE DEF s, h
  <2> QED BY <1>4, <2>4, <2>5
<1>5. h[L] = G[DOMAIN q]
  <2>1. L \in 0 .. L
    BY <1>1
  <2> QED BY <1>1, <2>1
<1> HIDE DEF h
<1>6. \A m \in 0 .. L : h[m] \in Int
  <2> DEFINE S == {m \in Nat : m <= L => h[m] \in Int}
  <2>1. 0 \in S
    BY <1>3
  <2>2. ASSUME NEW m \in Nat, m \in S PROVE m + 1 \in S
    <3> SUFFICES ASSUME m + 1 <= L PROVE h[m + 1] \in Int
      OBVIOUS
    <3>1. m + 1 \in 1 .. L /\ (m + 1) - 1 = m /\ h[m] \in Int
      BY <1>1, <2>2
    <3> DEFINE k == m + 1
    <3>2. k \in 1 .. L /\ h[k - 1] \in Int
      BY <3>1
    <3>3. q[k] \in Int
      BY <1>1, <3>2
    <3> HIDE DEF k
    <3>4. h[k] = step[h[k - 1]][q[k]]
      BY <1>4, <3>2
    <3>5. h[k] \in Int
      BY <1>2, <3>2, <3>3, <3>4
    <3> QED BY <3>5 DEF k
  <2> HIDE DEF S
  <2>3. Nat \subseteq S
    BY <2>1, <2>2, Induction
  <2> QED BY <1>1, <2>3 DEF S
<1>7. \A m \in 1 .. L : h[m] = step[h[m - 1]][q[m]]
  <2>1. \A m \in 1 .. L : m - 1 \in 0 .. L
    BY <1>1
  <2> QED BY <1>4, <1>6, <2>1
<1> QED BY <1>3, <1>5, <1>6, <1>7 DEF Folded, L

(* Of nothing, and with one number more. *)
LEMMA FoldAppend ==
  ASSUME NEW step \in Steps, NEW q \in Seq(Int), NEW v, Folded(step, q, v)
  PROVE  /\ v \in Int /\ (q = <<>> => v = 0)
         /\ \A x \in Int : \A u : Folded(step, Append(q, x), u) => u = step[v][x]
<1> DEFINE L == Len(q)
<1>1. L \in Nat
  OBVIOUS
<1>2. PICK h : /\ h[0] = 0 /\ h[L] = v
               /\ \A m \in 0 .. L : h[m] \in Int
               /\ \A m \in 1 .. L : h[m] = step[h[m - 1]][q[m]]
  BY DEF Folded
<1>3. v \in Int
  <2>1. L \in 0 .. L
    BY <1>1
  <2> QED BY <1>2, <2>1
<1>4. q = <<>> => v = 0
  <2>1. q = <<>> => L = 0
    OBVIOUS
  <2> QED BY <1>2, <2>1
<1>5. ASSUME NEW x \in Int, NEW u, Folded(step, Append(q, x), u) PROVE u = step[v][x]
  <2> DEFINE p == Append(q, x)
  <2>1. /\ p \in Seq(Int) /\ Len(p) = L + 1 /\ p[L + 1] = x
        /\ \A m \in 1 .. L : p[m] = q[m]
    OBVIOUS
  <2> HIDE DEF p, L
  <2>2. PICK g : /\ g[0] = 0 /\ g[L + 1] = u
                 /\ \A m \in 1 .. L + 1 : g[m] = step[g[m - 1]][p[m]]
    BY <1>5, <2>1 DEF Folded, p
  <2> DEFINE S == {m \in Nat : m <= L => g[m] = h[m]}
  <2>3. 0 \in S
    BY <1>2, <2>2
  <2>4. ASSUME NEW m \in Nat, m \in S PROVE m + 1 \in S
    <3> SUFFICES ASSUME m + 1 <= L PROVE g[m + 1] = h[m + 1]
      OBVIOUS
    <3>1. m + 1 \in 1 .. L /\ m + 1 \in 1 .. L + 1 /\ (m + 1) - 1 = m /\ g[m] = h[m]
      BY <1>1, <2>4
    <3> DEFINE k == m + 1
    <3>2. k \in 1 .. L /\ k \in 1 .. L + 1 /\ g[k - 1] = h[k - 1] /\ p[k] = q[k]
      BY <2>1, <3>1
    <3> HIDE DEF k
    <3>3. g[k] = step[g[k - 1]][p[k]] /\ h[k] = step[h[k - 1]][q[k]]
      BY <1>2, <2>2, <3>2
    <3>4. g[k] = h[k]
      BY <3>2, <3>3
    <3> QED BY <3>4 DEF k
  <2> HIDE DEF S
  <2>5. Nat \subseteq S
    BY <2>3, <2>4, Induction
  <2>6. g[L] = h[L] /\ L + 1 \in 1 .. L + 1 /\ (L + 1) - 1 = L
    BY <1>1, <2>5 DEF S
  <2> QED BY <1>2, <2>1, <2>2, <2>6
<1> QED BY <1>3, <1>4, <1>5

(* Reading digits, and adding up. *)
Tens  == [v \in Int |-> [d \in Int |-> 10 * v + d]]
Added == [v \in Int |-> [d \in Int |-> v + d]]

(* The number that digits spell. *)
LEMMA NumberFolds ==
  ASSUME NEW q \in Seq(Int)
  PROVE  Folded(Tens, q, File!Number(q))
<1>1. Tens \in Steps /\ \A v, d \in Int : Tens[v][d] = 10 * v + d
  BY DEF Tens, Steps
<1> DEFINE Unfolds(G) == G = [s \in SUBSET DOMAIN q |->
             IF s = {} THEN 0 ELSE 10 * G[s \ {File!Max(s)}] + q[File!Max(s)]]
<1>2. \A s : File!Max(s) = Max(s)
  BY DEF File!Max, Max
<1>3. DOMAIN q = 1 .. Len(q) /\ Len(q) \in Nat /\ \A k \in DOMAIN q : q[k] \in Int
  OBVIOUS
<1>4. \A s \in SUBSET DOMAIN q : s # {} => Max(s) \in DOMAIN q /\ q[Max(s)] \in Int
  BY <1>3, GreatestIs
<1>5. PICK F \in [SUBSET DOMAIN q -> Int] : \A s \in SUBSET DOMAIN q :
        F[s] = IF s = {} THEN 0 ELSE Tens[F[s \ {Max(s)}]][q[Max(s)]]
  BY <1>1, FoldSolution
<1>6. Unfolds(F)
  <2>1. ASSUME NEW s \in SUBSET DOMAIN q
        PROVE  F[s] = IF s = {} THEN 0 ELSE 10 * F[s \ {Max(s)}] + q[Max(s)]
    <3>1. s \ {Max(s)} \in SUBSET DOMAIN q
      OBVIOUS
    <3>2. F[s \ {Max(s)}] \in Int
      BY <1>5, <3>1
    <3> QED BY <1>1, <1>4, <1>5, <3>2
  <2> QED BY <1>2, <1>5, <2>1
<1>7. PICK G : Unfolds(G) /\ File!Number(q) = G[DOMAIN q]
  <2>1. \E G : Unfolds(G) /\ File!Number(q) = G[DOMAIN q]
    BY <1>6, Zenon DEF File!Number, File!FoldLeft, File!MapThenFoldSet
  <2> QED BY <2>1, Zenon
<1>8. G[{}] = 0 /\ \A s \in SUBSET DOMAIN q : s # {} => G[s] = 10 * G[s \ {Max(s)}] + q[Max(s)]
  BY <1>2, <1>7
<1> HIDE DEF Unfolds
<1>9. \A s \in SUBSET DOMAIN q : s # {} /\ G[s \ {Max(s)}] \in Int =>
        G[s] = Tens[G[s \ {Max(s)}]][q[Max(s)]]
  BY <1>1, <1>4, <1>8
<1>10. Folded(Tens, q, G[DOMAIN q])
  <2>1. G[{}] = 0 /\ Tens \in Steps
    BY <1>1, <1>8
  <2> QED BY <1>9, <2>1, FoldRuns, Zenon
<1> QED BY <1>7, <1>10

(* The sum of numbers. *)
LEMMA SumFolds ==
  ASSUME NEW q \in Seq(Int)
  PROVE  Folded(Added, q, FoldLeft(+, 0, q))
<1>1. Added \in Steps /\ \A v, d \in Int : Added[v][d] = v + d
  BY DEF Added, Steps
<1> DEFINE Unfolds(G) == G = [s \in SUBSET DOMAIN q |->
             IF s = {} THEN 0 ELSE G[s \ {Max(s)}] + q[Max(s)]]
<1>3. DOMAIN q = 1 .. Len(q) /\ Len(q) \in Nat /\ \A k \in DOMAIN q : q[k] \in Int
  OBVIOUS
<1>4. \A s \in SUBSET DOMAIN q : s # {} => Max(s) \in DOMAIN q /\ q[Max(s)] \in Int
  BY <1>3, GreatestIs
<1>5. PICK F \in [SUBSET DOMAIN q -> Int] : \A s \in SUBSET DOMAIN q :
        F[s] = IF s = {} THEN 0 ELSE Added[F[s \ {Max(s)}]][q[Max(s)]]
  BY <1>1, FoldSolution
<1>6. Unfolds(F)
  <2>1. ASSUME NEW s \in SUBSET DOMAIN q
        PROVE  F[s] = IF s = {} THEN 0 ELSE F[s \ {Max(s)}] + q[Max(s)]
    <3>1. s \ {Max(s)} \in SUBSET DOMAIN q
      OBVIOUS
    <3>2. F[s \ {Max(s)}] \in Int
      BY <1>5, <3>1
    <3> QED BY <1>1, <1>4, <1>5, <3>2
  <2> QED BY <1>5, <2>1
<1>7. PICK G : Unfolds(G) /\ FoldLeft(+, 0, q) = G[DOMAIN q]
  <2>1. \E G : Unfolds(G) /\ FoldLeft(+, 0, q) = G[DOMAIN q]
    BY <1>6, Zenon DEF FoldLeft, MapThenFoldSet
  <2> QED BY <2>1, Zenon
<1>8. G[{}] = 0 /\ \A s \in SUBSET DOMAIN q : s # {} => G[s] = G[s \ {Max(s)}] + q[Max(s)]
  BY <1>7
<1> HIDE DEF Unfolds
<1>9. \A s \in SUBSET DOMAIN q : s # {} /\ G[s \ {Max(s)}] \in Int =>
        G[s] = Added[G[s \ {Max(s)}]][q[Max(s)]]
  BY <1>1, <1>4, <1>8
<1>10. Folded(Added, q, G[DOMAIN q])
  <2>1. G[{}] = 0 /\ Added \in Steps
    BY <1>1, <1>8
  <2> QED BY <1>9, <2>1, FoldRuns, Zenon
<1> QED BY <1>7, <1>10

------------------------------------------------------------------------------
(* The text of a counter                                                   *)

(* What is printed of a number, one character each.                        *)
Digit == {d \in Nat : d < 10}

(* The digits before the last, and the last. *)
LEMMA LastDigit ==
  \A n \in Nat : /\ n \div 10 \in Nat /\ n % 10 \in Digit /\ n = 10 * (n \div 10) + (n % 10)
                 /\ n >= 10 => n \div 10 < n
                 /\ \A m \in Nat : m <= n => m \div 10 <= n \div 10
<1>1. ASSUME NEW n \in Nat PROVE n \div 10 \in Nat /\ n % 10 \in Nat /\ n % 10 < 10
  OBVIOUS
<1>2. ASSUME NEW n \in Nat PROVE n = 10 * (n \div 10) + (n % 10)
  OBVIOUS
<1>3. ASSUME NEW n \in Nat, n >= 10 PROVE n \div 10 < n
  BY <1>3
<1>4. ASSUME NEW n \in Nat, NEW m \in Nat, m <= n PROVE m \div 10 <= n \div 10
  BY <1>4
<1> QED BY <1>1, <1>2, <1>3, <1>4 DEF Digit

(* printf writes the digits before the last, and the last. *)
LEMMA DigitsAre ==
  /\ \A n \in Nat : n < 10 => File!Digits[n] = <<n>>
  /\ \A n \in Nat : n >= 10 => File!Digits[n] = Append(File!Digits[n \div 10], n % 10)
<1> DEFINE Z == {n \in Nat : n < 10}
           V == Seq(Digit)
           mu == [n \in Nat |-> n]
           next == [n \in Nat |-> n \div 10]
           c == [n \in Nat |-> IF n < 10 THEN <<n>> ELSE <<>>]
           B == [n \in Nat |-> [v \in V |-> Append(v, n % 10)]]
<1>1. Descends(Nat, V, mu, next, Z, c, B)
  <2>1. mu \in [Nat -> Nat] /\ Z \subseteq Nat
    OBVIOUS
  <2>2. next \in [Nat -> Nat]
    BY LastDigit
  <2>3. c \in [Nat -> V]
    <3>1. ASSUME NEW n \in Nat PROVE (IF n < 10 THEN <<n>> ELSE <<>>) \in V
      <4>1. CASE n < 10
        <5>1. n \in Digit
          BY <4>1 DEF Digit
        <5>2. <<n>> \in Seq(Digit)
          BY <5>1
        <5> QED BY <4>1, <5>2
      <4>2. CASE ~(n < 10)
        <5>1. <<>> \in Seq(Digit)
          OBVIOUS
        <5> QED BY <4>2, <5>1
      <4> QED BY <4>1, <4>2
    <3> HIDE DEF V
    <3> QED BY <3>1
  <2>4. B \in [Nat -> [V -> V]]
    <3>1. \A n \in Nat : n % 10 \in Digit
      BY LastDigit
    <3>2. \A v \in V : \A d \in Digit : Append(v, d) \in V
      OBVIOUS
    <3> HIDE DEF V
    <3> QED BY <3>1, <3>2
  <2>5. ASSUME NEW n \in Nat \ Z PROVE mu[next[n]] < mu[n]
    <3>1. n >= 10 /\ n \in Nat
      OBVIOUS
    <3>2. n \div 10 \in Nat /\ n \div 10 < n
      BY <3>1, LastDigit
    <3> QED BY <3>2
  <2> HIDE DEF V, Z, mu, next, c, B
  <2> QED BY <2>1, <2>2, <2>3, <2>4, <2>5 DEF Descends
<1>2. PICK F \in [Nat -> V] : \A n \in Nat : F[n] = IF n \in Z THEN c[n] ELSE B[n][F[next[n]]]
  <2> HIDE DEF V, Z, mu, next, c, B
  <2> QED BY <1>1, Recursion
<1> DEFINE Unfolds(G) == G = [n \in Nat |-> IF n < 10 THEN <<n>> ELSE Append(G[n \div 10], n % 10)]
<1>3. Unfolds(F)
  <2>1. ASSUME NEW n \in Nat
        PROVE  F[n] = IF n < 10 THEN <<n>> ELSE Append(F[n \div 10], n % 10)
    <3>1. n \div 10 \in Nat /\ F[n \div 10] \in V
      BY <1>2, LastDigit
    <3>2. c[n] = (IF n < 10 THEN <<n>> ELSE <<>>) /\ next[n] = n \div 10 /\ (n \in Z <=> n < 10)
      OBVIOUS
    <3>3. B[n][F[n \div 10]] = Append(F[n \div 10], n % 10)
      BY <3>1
    <3> HIDE DEF V, Z, mu, next, c, B
    <3> QED BY <1>2, <3>2, <3>3
  <2> QED BY <1>2, <2>1
<1>4. Unfolds(File!Digits)
  <2>1. \E G : Unfolds(G)
    BY <1>3, Zenon
  <2> QED BY <2>1, Zenon DEF File!Digits
<1>5. \A n \in Nat : n < 10 \/ n >= 10
  OBVIOUS
<1>6. \A n \in Nat : n >= 10 => ~(n < 10)
  OBVIOUS
<1>7. \A n \in Nat : File!Digits[n] = IF n < 10 THEN <<n>> ELSE Append(File!Digits[n \div 10], n % 10)
  BY <1>4, Zenon
<1> QED BY <1>6, <1>7

(* Strong induction: what holds of a number when it holds of those before. *)
LEMMA BelowInduction ==
  ASSUME NEW S, \A n \in Nat : (\A m \in Nat : m < n => m \in S) => n \in S
  PROVE  Nat \subseteq S
<1> SUFFICES ASSUME Nat \ S # {} PROVE FALSE
  OBVIOUS
<1>1. PICK x \in Nat \ S : \A y \in Nat \ S : x <= y
  BY LeastNat
<1>2. \A m \in Nat : m < x => m \in S
  BY <1>1
<1> QED BY <1>1, <1>2

(* scanf reads the number whose digits printf wrote.                       *)
LEMMA DigitsRead ==
  \A n \in Nat : /\ File!Digits[n] \in Seq(Digit) /\ Len(File!Digits[n]) >= 1
                 /\ File!Number(File!Digits[n]) = n
<1> DEFINE D(n) == File!Digits[n]
           N(q) == File!Number(q)
           S == {n \in Nat : D(n) \in Seq(Digit) /\ Len(D(n)) >= 1 /\ N(D(n)) = n}
<1>1. /\ \A n \in Nat : n < 10 => D(n) = <<n>>
      /\ \A n \in Nat : n >= 10 => D(n) = Append(D(n \div 10), n % 10)
  BY DigitsAre
<1>2. N(<<>>) = 0
  <2>1. <<>> \in Seq(Int) /\ Tens \in Steps
    BY DEF Tens, Steps
  <2>2. Folded(Tens, <<>>, N(<<>>))
    BY <2>1, NumberFolds
  <2> HIDE DEF N
  <2> QED BY <2>1, <2>2, FoldAppend
<1>3. ASSUME NEW q \in Seq(Digit), NEW x \in Digit
      PROVE  N(q) \in Int /\ N(Append(q, x)) = 10 * N(q) + x
  <2>1. q \in Seq(Int) /\ Append(q, x) \in Seq(Int) /\ x \in Int
    BY DEF Digit
  <2>2. Tens \in Steps /\ \A v, d \in Int : Tens[v][d] = 10 * v + d
    BY DEF Tens, Steps
  <2>3. Folded(Tens, q, N(q)) /\ Folded(Tens, Append(q, x), N(Append(q, x)))
    BY <2>1, NumberFolds
  <2> HIDE DEF N
  <2>4. N(q) \in Int /\ N(Append(q, x)) = Tens[N(q)][x]
    BY <2>1, <2>2, <2>3, FoldAppend
  <2> QED BY <2>1, <2>2, <2>4
<1> HIDE DEF D, N
<1>4. ASSUME NEW n \in Nat, \A m \in Nat : m < n => m \in S PROVE n \in S
  <2>1. CASE n < 10
    <3>1. n \in Digit /\ <<>> \in Seq(Digit) /\ Append(<<>>, n) = <<n>> /\ <<n>> \in Seq(Digit) /\ Len(<<n>>) = 1
      BY <2>1 DEF Digit
    <3>2. N(<<n>>) = 10 * 0 + n
      BY <1>2, <1>3, <3>1
    <3>3. D(n) = <<n>>
      BY <1>1, <2>1
    <3>4. D(n) \in Seq(Digit) /\ Len(D(n)) >= 1
      BY <3>1, <3>3
    <3>5. N(D(n)) = n
      BY <3>2, <3>3
    <3> QED BY <3>4, <3>5, Zenon
  <2>2. CASE n >= 10
    <3> DEFINE k == n \div 10
               x == n % 10
    <3>1. k \in Nat /\ x \in Digit /\ n = 10 * k + x /\ k < n
      BY <2>2, LastDigit
    <3>2. D(n) = Append(D(k), x)
      BY <1>1, <2>2
    <3> HIDE DEF k, x
    <3>3. D(k) \in Seq(Digit) /\ Len(D(k)) >= 1 /\ N(D(k)) = k
      BY <1>4, <3>1
    <3> DEFINE q == D(k)
    <3>4. N(Append(q, x)) = 10 * k + x
      BY <1>3, <3>1, <3>3
    <3> HIDE DEF q
    <3>5. Append(q, x) \in Seq(Digit) /\ Len(Append(q, x)) >= 1
      BY <3>1, <3>3 DEF q
    <3>6. D(n) = Append(q, x)
      BY <3>2 DEF q
    <3>7. D(n) \in Seq(Digit) /\ Len(D(n)) >= 1
      BY <3>5, <3>6
    <3>8. N(D(n)) = n
      BY <3>1, <3>4, <3>6
    <3> HIDE DEF q
    <3> QED BY <3>7, <3>8, Zenon
  <2> QED BY <2>1, <2>2
<1> HIDE DEF S
<1>5. Nat \subseteq S
  BY <1>4, BelowInduction
<1> QED BY <1>5 DEF S, D, N

(* A greater number has at least as many digits.                           *)
LEMMA DigitsGrow ==
  \A n, m \in Nat : m <= n => Len(File!Digits[m]) <= Len(File!Digits[n])
<1> DEFINE D(n) == File!Digits[n]
           S == {n \in Nat : \A m \in Nat : m <= n => Len(D(m)) <= Len(D(n))}
<1>1. /\ \A n \in Nat : n < 10 => D(n) = <<n>>
      /\ \A n \in Nat : n >= 10 => D(n) = Append(D(n \div 10), n % 10)
  BY DigitsAre
<1>2. \A n \in Nat : D(n) \in Seq(Digit) /\ Len(D(n)) \in Nat /\ Len(D(n)) >= 1
  BY DigitsRead
<1> HIDE DEF D
<1>3. \A n \in Nat : n >= 10 => n \div 10 \in Nat /\ n \div 10 < n /\ Len(D(n)) = Len(D(n \div 10)) + 1
  <2> SUFFICES ASSUME NEW n \in Nat, n >= 10
               PROVE  n \div 10 \in Nat /\ n \div 10 < n /\ Len(D(n)) = Len(D(n \div 10)) + 1
    OBVIOUS
  <2> DEFINE k == n \div 10
             x == n % 10
  <2>1. k \in Nat /\ x \in Digit /\ k < n /\ D(n) = Append(D(k), x)
    BY <1>1, LastDigit
  <2> HIDE DEF k, x
  <2>2. Len(Append(D(k), x)) = Len(D(k)) + 1
    BY <1>2, <2>1
  <2> QED BY <2>1, <2>2 DEF k
<1>4. ASSUME NEW n \in Nat, \A m \in Nat : m < n => m \in S PROVE n \in S
  <2> SUFFICES ASSUME NEW m \in Nat, m <= n PROVE Len(D(m)) <= Len(D(n))
    OBVIOUS
  <2>1. CASE m < 10
    <3>1. Len(D(m)) = 1
      BY <1>1, <2>1
    <3> QED BY <1>2, <3>1
  <2>2. CASE m >= 10
    <3>1. n >= 10
      BY <2>2
    <3> DEFINE a == m \div 10
               b == n \div 10
    <3>2. a <= b
      BY LastDigit
    <3>3. a \in Nat /\ b \in Nat /\ b < n /\ Len(D(m)) = Len(D(a)) + 1 /\ Len(D(n)) = Len(D(b)) + 1
      BY <1>3, <2>2, <3>1
    <3> HIDE DEF a, b
    <3>4. Len(D(a)) <= Len(D(b))
      BY <1>4, <3>2, <3>3
    <3>5. Len(D(a)) \in Nat /\ Len(D(b)) \in Nat
      BY <1>2, <3>3
    <3> QED BY <3>3, <3>4, <3>5
  <2> QED BY <2>1, <2>2
<1> HIDE DEF S
<1>5. Nat \subseteq S
  BY <1>4, BelowInduction
<1> QED BY <1>5 DEF S, D

(* What is printed is read again. *)
LEMMA PrintedIsRead ==
  \A n \in Int : /\ File!Scanned(File!Printed(n)) = n
                 /\ File!Printed(n) \in Seq(Nat)
<1> SUFFICES ASSUME NEW n \in Int
             PROVE  File!Scanned(File!Printed(n)) = n /\ File!Printed(n) \in Seq(Nat)
  OBVIOUS
<1>1. CASE n >= 0
  <2> DEFINE q == File!Digits[n]
  <2>1. q \in Seq(Digit) /\ Len(q) >= 1 /\ File!Number(q) = n /\ n \in Nat
    BY <1>1, DigitsRead
  <2>2. File!Printed(n) = q
    BY <1>1 DEF File!Printed
  <2> HIDE DEF q
  <2>3. Head(q) \in Digit
    BY <2>1
  <2>4. Head(q) # File!Minus
    BY <2>3 DEF Digit, File!Minus
  <2>5. q \in Seq(Nat)
    BY <2>1 DEF Digit
  <2> QED BY <2>1, <2>2, <2>4, <2>5 DEF File!Scanned
<1>2. CASE n < 0
  <2> DEFINE q == File!Digits[-n]
             p == <<File!Minus>> \o q
  <2>1. -n \in Nat /\ -(-n) = n
    BY <1>2
  <2>2. q \in Seq(Digit) /\ File!Number(q) = -n
    BY <2>1, DigitsRead
  <2>3. File!Printed(n) = p
    BY <1>2 DEF File!Printed
  <2>4. File!Minus \in Nat
    BY DEF File!Minus
  <2>5. q \in Seq(Nat)
    BY <2>2 DEF Digit
  <2> HIDE DEF q
  <2>6. Head(p) = File!Minus /\ Tail(p) = q /\ p \in Seq(Nat)
    BY <2>4, <2>5
  <2> HIDE DEF p
  <2>7. File!Scanned(p) = -(-n)
    BY <2>2, <2>6 DEF File!Scanned
  <2> QED BY <2>1, <2>3, <2>6, <2>7
<1> QED BY <1>1, <1>2

(* Nothing of a shorter text stays when a longer one is written over it.   *)
LEMMA NothingStays ==
  ASSUME NEW old \in Seq(Nat), NEW new \in Seq(Nat), Len(old) <= Len(new)
  PROVE  File!Overwritten(old, new) = new
<1>1. SubSeq(old, Len(new) + 1, Len(old)) = <<>>
  <2>1. Len(old) \in Nat /\ Len(new) \in Nat /\ Len(old) < Len(new) + 1
    OBVIOUS
  <2> QED BY <2>1, SubSeqEmpty
<1>2. new \o <<>> = new
  OBVIOUS
<1> QED BY <1>1, <1>2 DEF File!Overwritten

(* A counter that only goes up, or only goes down: the text of the next    *)
(* value covers the text of the last.                                      *)
LEMMA NextText ==
  ASSUME NEW d \in {1, -1}, NEW m \in Nat
  PROVE  File!Overwritten(File!Printed(d * m), File!Printed(d * m + d)) = File!Printed(d * (m + 1))
<1> DEFINE a == d * m
           b == d * m + d
<1>1. a \in Int /\ b \in Int /\ b = d * (m + 1) /\ (d = 1 => a = m /\ b = m + 1) /\ (d = -1 => a = -m /\ b = -(m + 1))
  OBVIOUS
<1>2. \A n \in Nat : Len(File!Digits[n]) \in Nat /\ File!Digits[n] \in Seq(Nat)
  <2>1. \A n \in Nat : File!Digits[n] \in Seq(Digit)
    BY DigitsRead
  <2>2. \A q \in Seq(Digit) : q \in Seq(Nat) /\ Len(q) \in Nat
    <3> SUFFICES ASSUME NEW q \in Seq(Digit) PROVE q \in Seq(Nat) /\ Len(q) \in Nat
      OBVIOUS
    <3> QED BY DEF Digit
  <2> QED BY <2>1, <2>2
<1>3. m \in Nat /\ m + 1 \in Nat /\ m <= m + 1
  OBVIOUS
<1>4. Len(File!Digits[m]) <= Len(File!Digits[m + 1])
  BY <1>3, DigitsGrow
<1>5. CASE d = 1
  <2>1. File!Printed(a) = File!Digits[m] /\ File!Printed(b) = File!Digits[m + 1]
    <3>1. a = m /\ b = m + 1 /\ ~(m < 0) /\ ~(m + 1 < 0)
      BY <1>1, <1>5
    <3> HIDE DEF a, b
    <3> QED BY <3>1 DEF File!Printed
  <2>2. Len(File!Printed(a)) <= Len(File!Printed(b)) /\ File!Printed(a) \in Seq(Nat) /\ File!Printed(b) \in Seq(Nat)
    BY <1>1, <1>4, <2>1, PrintedIsRead
  <2> QED BY <1>1, <2>2, NothingStays
<1>6. CASE d = -1
  <2> DEFINE minus(q) == <<File!Minus>> \o q
  <2>1. \A q \in Seq(Nat) : Len(minus(q)) = 1 + Len(q)
    BY DEF File!Minus
  <2>2. File!Printed(b) = minus(File!Digits[m + 1])
    <3>1. b = -(m + 1) /\ b < 0 /\ -b = m + 1
      BY <1>1, <1>6
    <3> HIDE DEF b
    <3> QED BY <3>1 DEF File!Printed
  <2>3. File!Printed(a) = (IF m = 0 THEN File!Digits[0] ELSE minus(File!Digits[m]))
    <3>1. a = -m /\ (m = 0 => a = 0 /\ ~(a < 0)) /\ (m # 0 => a < 0 /\ -a = m)
      BY <1>1, <1>6
    <3> HIDE DEF a
    <3> QED BY <3>1 DEF File!Printed
  <2> HIDE DEF minus, a, b
  <2>4. Len(File!Printed(a)) <= Len(File!Printed(b))
    <3> DEFINE x == File!Digits[m]
               y == File!Digits[m + 1]
    <3>1. x \in Seq(Nat) /\ y \in Seq(Nat) /\ Len(x) \in Nat /\ Len(y) \in Nat /\ Len(x) <= Len(y)
      BY <1>2, <1>3, <1>4
    <3>2. Len(minus(x)) = 1 + Len(x) /\ Len(minus(y)) = 1 + Len(y)
      BY <2>1, <3>1
    <3>3. File!Printed(a) = x \/ File!Printed(a) = minus(x)
      BY <2>3
    <3> HIDE DEF x
    <3>4. Len(File!Printed(a)) = Len(x) \/ Len(File!Printed(a)) = 1 + Len(x)
      BY <3>2, <3>3
    <3>5. Len(File!Printed(b)) = 1 + Len(y)
      BY <2>2, <3>2
    <3> HIDE DEF y
    <3> QED BY <3>1, <3>4, <3>5
  <2>5. File!Printed(a) \in Seq(Nat) /\ File!Printed(b) \in Seq(Nat)
    BY <1>1, PrintedIsRead
  <2>6. File!Overwritten(File!Printed(a), File!Printed(b)) = File!Printed(b)
    BY <2>4, <2>5, NothingStays
  <2> QED BY <1>1, <2>6 DEF a, b
<1> QED BY <1>5, <1>6

------------------------------------------------------------------------------
(* What the lines of all the workers add up to                             *)

(* A sum of equal numbers. *)
LEMMA SumOfEquals ==
  ASSUME NEW d \in {1, -1}, NEW q \in Seq({d})
  PROVE  FoldLeft(+, 0, q) = d * Len(q)
<1> DEFINE N(s) == FoldLeft(+, 0, s)
           S == {n \in Nat : \A s \in Seq({d}) : Len(s) = n => N(s) = d * n}
<1>1. Added \in Steps /\ \A v, x \in Int : Added[v][x] = v + x
  BY DEF Added, Steps
<1>2. \A s \in Seq({d}) : s \in Seq(Int)
  OBVIOUS
<1>3. \A s \in Seq(Int) : Folded(Added, s, N(s))
  BY SumFolds
<1> HIDE DEF N
<1>4. 0 \in S
  <2> SUFFICES ASSUME NEW s \in Seq({d}), Len(s) = 0 PROVE N(s) = d * 0
    OBVIOUS
  <2>1. s = <<>> /\ s \in Seq(Int)
    BY <1>2
  <2>2. N(s) = 0
    BY <1>1, <1>3, <2>1, FoldAppend
  <2> QED BY <2>2
<1>5. ASSUME NEW n \in Nat, n \in S PROVE n + 1 \in S
  <2> SUFFICES ASSUME NEW s \in Seq({d}), Len(s) = n + 1 PROVE N(s) = d * (n + 1)
    OBVIOUS
  <2> DEFINE p == SubSeq(s, 1, n)
  <2>1. n \in 0 .. Len(s) /\ n + 1 \in 1 .. Len(s) /\ (n + 1) - 1 = n
    OBVIOUS
  <2>2. p \in Seq({d}) /\ Len(p) = n
    BY <2>1, Beginnings
  <2>3. s = Append(p, s[n + 1])
    <3>1. SubSeq(s, 1, n + 1) = Append(SubSeq(s, 1, (n + 1) - 1), s[n + 1]) /\ SubSeq(s, 1, Len(s)) = s
      BY <2>1, Beginnings
    <3> QED BY <2>1, <3>1
  <2>4. s[n + 1] = d
    BY <2>1
  <2> HIDE DEF p
  <2>5. N(p) = d * n
    BY <1>5, <2>2
  <2>6. p \in Seq(Int) /\ s \in Seq(Int) /\ s = Append(p, d) /\ d \in Int
    BY <1>2, <2>2, <2>3, <2>4
  <2>7. Folded(Added, p, N(p)) /\ Folded(Added, Append(p, d), N(s))
    BY <1>3, <2>6
  <2>8. N(p) \in Int /\ N(s) = Added[N(p)][d]
    <3>1. N(p) \in Int /\ \A y \in Int : \A u : Folded(Added, Append(p, y), u) => u = Added[N(p)][y]
      <4>1. Added \in Steps /\ p \in Seq(Int) /\ Folded(Added, p, N(p))
        BY <1>1, <2>6, <2>7
      <4> QED BY <4>1, FoldAppend
    <3> QED BY <2>6, <2>7, <3>1
  <2>9. N(s) = d * n + d
    BY <1>1, <2>5, <2>6, <2>8
  <2> QED BY <2>9
<1> HIDE DEF S
<1>6. Nat \subseteq S
  BY <1>4, <1>5, Induction
<1>7. Len(q) \in Nat
  OBVIOUS
<1> QED BY <1>6, <1>7 DEF S, N

(* Sequences joined, of which at most the one at place x is longer by one. *)
LEMMA JoinedLengths ==
  ASSUME NEW S, NEW T, NEW s \in Seq(Seq(S)), NEW t \in Seq(Seq(T)), Len(s) = Len(t), NEW x \in Nat \ {0},
         \A k \in 1 .. Len(s) : k # x => Len(t[k]) = Len(s[k]),
         x \in 1 .. Len(s) => Len(t[x]) = Len(s[x]) + 1
  PROVE  Len(FlattenSeq(t)) = Len(FlattenSeq(s)) + (IF x <= Len(s) THEN 1 ELSE 0)
<1> DEFINE n == Len(s)
<1>1. n \in Nat
  OBVIOUS
<1>2. PICK F \in [0 .. n -> Seq(S)] :
        F[0] = <<>> /\ (\A k \in 1 .. n : F[k] = F[k - 1] \o s[k]) /\ FlattenSeq(s) = F[n]
  BY FlattenSteps
<1>3. PICK G \in [0 .. n -> Seq(T)] :
        G[0] = <<>> /\ (\A k \in 1 .. n : G[k] = G[k - 1] \o t[k]) /\ FlattenSeq(t) = G[n]
  <2>1. \E H \in [0 .. Len(t) -> Seq(T)] :
          H[0] = <<>> /\ (\A k \in 1 .. Len(t) : H[k] = H[k - 1] \o t[k]) /\ FlattenSeq(t) = H[Len(t)]
    BY FlattenSteps
  <2> QED BY <2>1
<1>4. \A k \in 1 .. n : s[k] \in Seq(S) /\ t[k] \in Seq(T)
  OBVIOUS
<1>5. \A k \in 1 .. n : Len(t[k]) = Len(s[k]) + (IF k = x THEN 1 ELSE 0)
  <2>1. \A k \in 1 .. n : Len(s[k]) \in Nat
    BY <1>4
  <2> SUFFICES ASSUME NEW k \in 1 .. n PROVE Len(t[k]) = Len(s[k]) + (IF k = x THEN 1 ELSE 0)
    OBVIOUS
  <2>2. Len(s[k]) \in Nat
    BY <2>1
  <2>3. CASE k = x
    BY <2>3
  <2>4. CASE k # x
    <3>1. Len(t[k]) = Len(s[k])
      BY <2>4
    <3> QED BY <2>2, <2>4, <3>1
  <2> QED BY <2>3, <2>4
<1> HIDE DEF n
<1> DEFINE L(m) == Len(F[m])
           M(m) == Len(G[m])
           A(k) == Len(s[k])
           B(k) == Len(t[k])
<1>6. /\ \A m \in 0 .. n : L(m) \in Nat /\ M(m) \in Nat
      /\ \A k \in 1 .. n : L(k) = L(k - 1) + A(k) /\ M(k) = M(k - 1) + B(k) /\ A(k) \in Nat /\ B(k) \in Nat
      /\ L(0) = 0 /\ M(0) = 0
  <2>1. \A m \in 0 .. n : L(m) \in Nat /\ M(m) \in Nat
    BY <1>2, <1>3
  <2>2. ASSUME NEW k \in 1 .. n
        PROVE  L(k) = L(k - 1) + A(k) /\ M(k) = M(k - 1) + B(k) /\ A(k) \in Nat /\ B(k) \in Nat
    <3>1. k - 1 \in 0 .. n
      BY <1>1
    <3>2. F[k - 1] \in Seq(S) /\ G[k - 1] \in Seq(T) /\ s[k] \in Seq(S) /\ t[k] \in Seq(T)
      BY <1>2, <1>3, <1>4, <3>1
    <3>3. F[k] = F[k - 1] \o s[k] /\ G[k] = G[k - 1] \o t[k]
      BY <1>2, <1>3
    <3>4. \A a, b \in Seq(S) : Len(a \o b) = Len(a) + Len(b)
      OBVIOUS
    <3>5. \A a, b \in Seq(T) : Len(a \o b) = Len(a) + Len(b)
      OBVIOUS
    <3>6. Len(s[k]) \in Nat /\ Len(t[k]) \in Nat
      BY <3>2
    <3> QED BY <3>2, <3>3, <3>4, <3>5, <3>6
  <2>3. L(0) = 0 /\ M(0) = 0
    BY <1>2, <1>3
  <2> QED BY <2>1, <2>2, <2>3
<1>7. \A k \in 1 .. n : B(k) = A(k) + (IF k = x THEN 1 ELSE 0)
  BY <1>5
<1>8. Len(FlattenSeq(s)) = L(n) /\ Len(FlattenSeq(t)) = M(n)
  BY <1>2, <1>3
<1> HIDE DEF L, M, A, B
<1> DEFINE R == {m \in Nat : m <= n => M(m) = L(m) + (IF x <= m THEN 1 ELSE 0)}
<1>9. 0 \in R
  BY <1>6
<1>10. ASSUME NEW m \in Nat, m \in R PROVE m + 1 \in R
  <2> SUFFICES ASSUME m + 1 <= n PROVE M(m + 1) = L(m + 1) + (IF x <= m + 1 THEN 1 ELSE 0)
    OBVIOUS
  <2>1. m \in 0 .. n /\ m + 1 \in 1 .. n /\ (m + 1) - 1 = m /\ m <= n
    BY <1>1
  <2>2. M(m) = L(m) + (IF x <= m THEN 1 ELSE 0)
    BY <1>10, <2>1
  <2> DEFINE k == m + 1
  <2>3. /\ L(k) = L(m) + A(k) /\ M(k) = M(m) + B(k) /\ A(k) \in Nat /\ B(k) \in Nat
        /\ B(k) = A(k) + (IF k = x THEN 1 ELSE 0) /\ L(m) \in Nat /\ M(m) \in Nat
    BY <1>6, <1>7, <2>1
  <2>4. x <= k <=> x <= m \/ k = x
    OBVIOUS
  <2>5. k = x => ~(x <= m)
    OBVIOUS
  <2> HIDE DEF k
  <2>6. M(k) = L(k) + (IF x <= k THEN 1 ELSE 0)
    BY <2>2, <2>3, <2>4, <2>5
  <2> QED BY <2>6 DEF k
<1> HIDE DEF R
<1>11. Nat \subseteq R
  BY <1>9, <1>10, Induction
<1> QED BY <1>1, <1>8, <1>11 DEF R, n

(* What is in one of the sequences joined is in the whole. *)
LEMMA JoinedHolds ==
  ASSUME NEW T, NEW s \in Seq(Seq(T)), NEW k \in 1 .. Len(s), NEW x \in DOMAIN s[k]
  PROVE  s[k][x] \in ToSet(FlattenSeq(s))
<1> DEFINE n == Len(s)
<1>1. n \in Nat /\ s[k] \in Seq(T)
  OBVIOUS
<1>2. PICK F \in [0 .. n -> Seq(T)] :
        F[0] = <<>> /\ (\A j \in 1 .. n : F[j] = F[j - 1] \o s[j]) /\ FlattenSeq(s) = F[n]
  BY FlattenSteps
<1>3. ASSUME NEW a \in Seq(T), NEW b \in Seq(T)
      PROVE  \A v : v \in ToSet(a) \/ v \in ToSet(b) => v \in ToSet(a \o b)
  <2>1. DOMAIN a = 1 .. Len(a) /\ DOMAIN b = 1 .. Len(b) /\ Len(a) \in Nat /\ Len(b) \in Nat
    OBVIOUS
  <2>2. DOMAIN (a \o b) = 1 .. Len(a) + Len(b)
    BY <2>1
  <2>3. ASSUME NEW j \in 1 .. Len(a) PROVE j \in DOMAIN (a \o b) /\ (a \o b)[j] = a[j]
    BY <2>1
  <2>4. ASSUME NEW j \in 1 .. Len(b)
        PROVE  Len(a) + j \in DOMAIN (a \o b) /\ (a \o b)[Len(a) + j] = b[j]
    BY <2>1
  <2> QED BY <2>1, <2>3, <2>4, Zenon DEF ToSet
<1> HIDE DEF n
<1> DEFINE R == {m \in Nat : k <= m /\ m <= n => s[k][x] \in ToSet(F[m])}
<1>4. 0 \in R
  BY <1>1 DEF n
<1>5. ASSUME NEW m \in Nat, m \in R PROVE m + 1 \in R
  <2> SUFFICES ASSUME k <= m + 1, m + 1 <= n PROVE s[k][x] \in ToSet(F[m + 1])
    OBVIOUS
  <2>1. m \in 0 .. n /\ m + 1 \in 1 .. n /\ (m + 1) - 1 = m /\ m <= n
    BY <1>1
  <2>2. F[m + 1] = F[m] \o s[m + 1] /\ F[m] \in Seq(T) /\ s[m + 1] \in Seq(T)
    <3>1. \A j \in 1 .. Len(s) : s[j] \in Seq(T)
      OBVIOUS
    <3>2. F[m] \in Seq(T)
      BY <1>2, <2>1
    <3>3. s[m + 1] \in Seq(T)
      BY <2>1, <3>1 DEF n
    <3>4. F[m + 1] = F[(m + 1) - 1] \o s[m + 1]
      BY <1>2, <2>1
    <3> QED BY <2>1, <3>2, <3>3, <3>4
  <2>3. CASE k = m + 1
    <3>1. s[k][x] \in ToSet(s[m + 1])
      BY <2>3 DEF ToSet
    <3> QED BY <1>3, <2>2, <3>1
  <2>4. CASE k # m + 1
    <3>1. k <= m
      BY <2>1, <2>4 DEF n
    <3>2. s[k][x] \in ToSet(F[m])
      BY <1>5, <2>1, <3>1
    <3> QED BY <1>3, <2>2, <3>2
  <2> QED BY <2>3, <2>4
<1> HIDE DEF R
<1>6. Nat \subseteq R
  BY <1>4, <1>5, Induction
<1>7. n \in Nat /\ k <= n /\ n <= n
  BY <1>1 DEF n
<1> QED BY <1>2, <1>6, <1>7 DEF R

(* Nothing joined to nothing. *)
LEMMA JoinedEmpty ==
  ASSUME NEW s \in Seq({<<>>})
  PROVE  Len(FlattenSeq(s)) = 0
<1>1. {<<>>} \subseteq Seq({})
  OBVIOUS
<1>2. s \in Seq(Seq({}))
  <2>1. s \in [1 .. Len(s) -> {<<>>}] /\ Len(s) \in Nat
    OBVIOUS
  <2> DEFINE V == Seq({})
  <2>2. \A k \in 1 .. Len(s) : s[k] \in V
    BY <1>1, <2>1
  <2> HIDE DEF V
  <2>3. s \in Seq(V)
    BY <2>1, <2>2
  <2> QED BY <2>3 DEF V
<1>3. FlattenSeq(s) \in Seq({})
  BY <1>2, FlattenAppend
<1> QED BY <1>3

(* The order in which the workers are added up.                            *)
Order == SetToSeq(Workers)

(* Every worker is in it once. *)
LEMMA OrderHasAll ==
  ASSUME IsFiniteSet(Workers)
  PROVE  /\ Order \in Seq(Workers)
         /\ \A w \in Workers : \E k \in 1 .. Len(Order) :
              Order[k] = w /\ \A j \in 1 .. Len(Order) : Order[j] = w => j = k
<1> DEFINE n == Cardinality(Workers)
           D == 1 .. n
<1>1. n \in Nat /\ ExistsBijection(D, Workers)
  BY FS_CardinalityType
<1>2. IsFiniteSet(D) /\ Cardinality(D) = n
  <2>1. 1 \in Int /\ n \in Int /\ (IF 1 > n THEN 0 ELSE n - 1 + 1) = n
    BY <1>1
  <2> QED BY <2>1, FS_Interval
<1>3. \E f \in [D -> Workers] : IsInjective(f)
  <2>1. PICK f : f \in Bijection(D, Workers)
    BY <1>1 DEF ExistsBijection
  <2>2. f \in [D -> Workers] /\ IsInjective(f)
    BY <2>1 DEF Bijection, Injection, IsInjective
  <2> QED BY <2>2
<1>4. Order \in [D -> Workers] /\ IsInjective(Order)
  BY <1>3, Zenon DEF Order, SetToSeq
<1>5. Order \in Surjection(D, Workers)
  <2>1. Order \in Injection(D, Workers)
    BY <1>4 DEF Injection, IsInjective
  <2> QED BY <1>2, <2>1, FS_Injection
<1> HIDE DEF n
<1>6. Order \in Seq(Workers) /\ Len(Order) = n /\ DOMAIN Order = D
  BY <1>1, <1>4
<1>7. \A w \in Workers : \E k \in D : Order[k] = w
  BY <1>5 DEF Surjection
<1>8. \A j, k \in D : Order[j] = Order[k] => j = k
  BY <1>4, <1>6 DEF IsInjective
<1> QED BY <1>6, <1>7, <1>8

(* f[w] of each worker w, added up.                                        *)
Copies(m) == [j \in 1 .. m |-> 0]
Together(f) == Len(FlattenSeq([k \in DOMAIN Order |-> Copies(f[Order[k]])]))

(* Zeros add up to zero, and the sum grows with any of the numbers. *)
LEMMA TogetherGrows ==
  ASSUME IsFiniteSet(Workers), NEW f \in [Workers -> Nat]
  PROVE  /\ Together(f) \in Nat
         /\ (\A w \in Workers : f[w] = 0) => Together(f) = 0
         /\ \A w \in Workers, g \in [Workers -> Nat] :
              g[w] = f[w] + 1 /\ (\A v \in Workers \ {w} : g[v] = f[v]) => Together(g) = Together(f) + 1
<1> DEFINE n == Len(Order)
           S(g) == [k \in DOMAIN Order |-> Copies(g[Order[k]])]
<1>1. n \in Nat /\ DOMAIN Order = 1 .. n /\ \A k \in 1 .. n : Order[k] \in Workers
  <2>1. Order \in Seq(Workers)
    BY OrderHasAll
  <2> QED BY <2>1
<1>2. \A m \in Nat : Copies(m) \in Seq(Int) /\ Len(Copies(m)) = m
  BY DEF Copies
<1> HIDE DEF n
<1>3. ASSUME NEW g \in [Workers -> Nat]
      PROVE  /\ S(g) \in Seq(Seq(Int)) /\ Len(S(g)) = n
             /\ \A k \in 1 .. n : S(g)[k] = Copies(g[Order[k]]) /\ Len(S(g)[k]) = g[Order[k]]
  <2>1. \A k \in 1 .. n : Copies(g[Order[k]]) \in Seq(Int) /\ Len(Copies(g[Order[k]])) = g[Order[k]]
    BY <1>1, <1>2
  <2> DEFINE V == Seq(Int)
             c(k) == Copies(g[Order[k]])
  <2>2. \A k \in 1 .. n : c(k) \in V
    BY <2>1
  <2> HIDE DEF V, c
  <2>3. [k \in 1 .. n |-> c(k)] \in Seq(V) /\ Len([k \in 1 .. n |-> c(k)]) = n
    BY <1>1, <2>2
  <2>4. S(g) = [k \in 1 .. n |-> c(k)]
    BY <1>1 DEF c
  <2>5. S(g) \in Seq(Seq(Int)) /\ Len(S(g)) = n
    BY <2>3, <2>4 DEF V
  <2> QED BY <2>1, <2>5, <1>1
<1>4. \A g : Together(g) = Len(FlattenSeq(S(g)))
  BY DEF Together
<1>5. Together(f) \in Nat
  <2>1. FlattenSeq(S(f)) \in Seq(Int)
    <3> HIDE DEF S
    <3> QED BY <1>3, FlattenAppend
  <2> QED BY <1>4, <2>1
<1>6. ASSUME \A w \in Workers : f[w] = 0 PROVE Together(f) = 0
  <2>1. Copies(0) = <<>>
    BY DEF Copies
  <2>2. \A k \in 1 .. n : Copies(f[Order[k]]) = <<>>
    BY <1>1, <1>6, <2>1
  <2>3. S(f) = [k \in 1 .. n |-> <<>>]
    BY <1>1, <2>2
  <2>4. [k \in 1 .. n |-> <<>>] \in Seq({<<>>})
    BY <1>1
  <2> HIDE DEF S
  <2>5. S(f) \in Seq({<<>>})
    BY <2>3, <2>4
  <2> QED BY <1>4, <2>5, JoinedEmpty
<1>7. ASSUME NEW w \in Workers, NEW g \in [Workers -> Nat],
             g[w] = f[w] + 1, \A v \in Workers \ {w} : g[v] = f[v]
      PROVE  Together(g) = Together(f) + 1
  <2>1. PICK x \in 1 .. n : Order[x] = w /\ \A j \in 1 .. n : Order[j] = w => j = x
    BY OrderHasAll DEF n
  <2> DEFINE s == S(f)
             t == S(g)
  <2>2. s \in Seq(Seq(Int)) /\ t \in Seq(Seq(Int)) /\ Len(s) = n /\ Len(t) = n /\ x \in Nat \ {0} /\ x <= n
    <3>1. s \in Seq(Seq(Int)) /\ Len(s) = n
      BY <1>3
    <3>2. t \in Seq(Seq(Int)) /\ Len(t) = n
      BY <1>3, <1>7
    <3>3. x \in Nat \ {0} /\ x <= n
      BY <1>1
    <3> QED BY <3>1, <3>2, <3>3
  <2>3. \A k \in 1 .. n : Len(s[k]) = f[Order[k]] /\ Len(t[k]) = g[Order[k]]
    BY <1>3
  <2> HIDE DEF s, t, S
  <2>4. \A k \in 1 .. n : k # x => Len(t[k]) = Len(s[k])
    BY <1>1, <1>7, <2>1, <2>3
  <2>5. Len(t[x]) = Len(s[x]) + 1
    BY <1>7, <2>1, <2>3
  <2>6. Len(FlattenSeq(t)) = Len(FlattenSeq(s)) + (IF x <= Len(s) THEN 1 ELSE 0)
    BY <2>2, <2>4, <2>5, JoinedLengths
  <2>7. Len(FlattenSeq(t)) = Len(FlattenSeq(s)) + 1
    BY <2>2, <2>6
  <2> QED BY <1>4, <2>7 DEF s, t
<1> QED BY <1>5, <1>6, <1>7

(* It is the length of sequences of these lengths, joined. *)
LEMMA TogetherIs ==
  ASSUME IsFiniteSet(Workers), NEW T, NEW f \in [Workers -> Nat], NEW g \in [Workers -> Seq(T)],
         \A w \in Workers : Len(g[w]) = f[w]
  PROVE  Len(FlattenSeq([k \in DOMAIN Order |-> g[Order[k]]])) = Together(f)
<1> DEFINE n == Len(Order)
           s == [k \in DOMAIN Order |-> Copies(f[Order[k]])]
           t == [k \in DOMAIN Order |-> g[Order[k]]]
<1>1. n \in Nat /\ DOMAIN Order = 1 .. n /\ \A k \in 1 .. n : Order[k] \in Workers
  <2>1. Order \in Seq(Workers)
    BY OrderHasAll
  <2> QED BY <2>1
<1>2. \A m \in Nat : Copies(m) \in Seq(Int) /\ Len(Copies(m)) = m
  BY DEF Copies
<1> HIDE DEF n
<1> DEFINE c(k) == Copies(f[Order[k]])
           d(k) == g[Order[k]]
           U == Seq(Int)
           V == Seq(T)
<1>3. \A k \in 1 .. n : c(k) \in U /\ d(k) \in V /\ Len(c(k)) = Len(d(k))
  BY <1>1, <1>2
<1>4. s = [k \in 1 .. n |-> c(k)] /\ t = [k \in 1 .. n |-> d(k)]
  BY <1>1
<1> HIDE DEF c, d, s, t, U, V
<1>5. /\ s \in Seq(U) /\ t \in Seq(V) /\ Len(s) = n /\ Len(t) = n
      /\ \A k \in 1 .. n : s[k] = c(k) /\ t[k] = d(k)
  BY <1>1, <1>3, <1>4
<1>6. s \in Seq(Seq(Int)) /\ t \in Seq(Seq(T)) /\ \A k \in 1 .. Len(s) : Len(t[k]) = Len(s[k])
  BY <1>3, <1>5 DEF U, V
<1> DEFINE x == n + 1
<1>7. x \in Nat \ {0} /\ ~(x <= n) /\ ~(x \in 1 .. n)
  BY <1>1
<1> HIDE DEF x
<1>8. Len(FlattenSeq(t)) = Len(FlattenSeq(s)) + (IF x <= Len(s) THEN 1 ELSE 0)
  BY <1>5, <1>6, <1>7, JoinedLengths
<1>9. FlattenSeq(s) \in Seq(Int)
  BY <1>6, FlattenAppend
<1>10. Len(FlattenSeq(t)) = Len(FlattenSeq(s))
  BY <1>5, <1>7, <1>8, <1>9
<1> QED BY <1>10 DEF Together, s, t

(* What calls do to the counter.                                           *)
Effect(calls) == FlattenSeq([n \in DOMAIN calls |-> Change(calls[n])])

(* Nothing at first, and with one call more. *)
LEMMA EffectIs ==
  /\ Effect(<<>>) = <<>>
  /\ \A c : Change(c) \in {<<>>, <<1>>, <<-1>>}
  /\ \A S : \A s \in Seq(S) : Effect(s) \in Seq({1, -1})
  /\ \A S : \A s \in Seq(S) : \A c : Effect(s \o <<c>>) = Effect(s) \o Change(c)
<1>1. \A c : Change(c) \in {<<>>, <<1>>, <<-1>>}
  BY DEF Change
<1>2. \A c : Change(c) \in Seq({1, -1})
  <2>1. <<>> \in Seq({1, -1}) /\ <<1>> \in Seq({1, -1}) /\ <<-1>> \in Seq({1, -1})
    OBVIOUS
  <2> QED BY <1>1, <2>1
<1> DEFINE V == Seq({1, -1})
           E(s) == [n \in DOMAIN s |-> Change(s[n])]
<1>3. ASSUME NEW S, NEW s \in Seq(S) PROVE E(s) \in Seq(V) /\ DOMAIN E(s) = 1 .. Len(s) /\ Len(s) \in Nat
  <2>1. DOMAIN s = 1 .. Len(s) /\ Len(s) \in Nat
    OBVIOUS
  <2> DEFINE c(n) == Change(s[n])
  <2>2. \A n : c(n) \in V
    BY <1>2
  <2>3. E(s) = [n \in 1 .. Len(s) |-> c(n)]
    BY <2>1
  <2> HIDE DEF V, E, c
  <2> QED BY <2>1, <2>2, <2>3
<1>4. \A S : \A s \in Seq(S) : Effect(s) \in Seq({1, -1})
  <2> SUFFICES ASSUME NEW S, NEW s \in Seq(S) PROVE Effect(s) \in Seq({1, -1})
    OBVIOUS
  <2>1. E(s) \in Seq(Seq({1, -1}))
    BY <1>3
  <2> HIDE DEF E
  <2>2. FlattenSeq(E(s)) \in Seq({1, -1})
    BY <2>1, FlattenAppend
  <2> QED BY <2>2 DEF Effect, E
<1>5. Effect(<<>>) = <<>>
  <2>1. [n \in DOMAIN <<>> |-> Change(<<>>[n])] = <<>>
    OBVIOUS
  <2> QED BY <2>1, FlattenAppend DEF Effect
<1>6. ASSUME NEW S, NEW s \in Seq(S), NEW c PROVE Effect(s \o <<c>>) = Effect(s) \o Change(c)
  <2> DEFINE t == s \o <<c>>
             N == Len(s)
             U == S \cup {c}
  <2>0. s \in Seq(U) /\ c \in U
    OBVIOUS
  <2> HIDE DEF U
  <2>1. t \in Seq(U) /\ Len(t) = N + 1 /\ N \in Nat /\ t[N + 1] = c /\ \A n \in 1 .. N : t[n] = s[n]
    BY <2>0
  <2> HIDE DEF t
  <2>2. E(s) \in Seq(V) /\ DOMAIN E(s) = 1 .. N /\ E(t) \in Seq(V) /\ DOMAIN E(t) = 1 .. N + 1
    BY <1>3, <2>1
  <2>3. /\ \A n \in 1 .. N : E(s)[n] = Change(s[n]) /\ E(t)[n] = Change(s[n])
        /\ E(t)[N + 1] = Change(c)
    <3>1. \A n \in 1 .. N : n \in 1 .. N + 1
      BY <2>1
    <3>2. N + 1 \in 1 .. N + 1
      BY <2>1
    <3> QED BY <2>1, <2>2, <3>1, <3>2
  <2>4. Change(c) \in V
    BY <1>2
  <2> DEFINE a == E(s)
             b == E(t)
             u == Change(c)
  <2>5. /\ a \in Seq(V) /\ b \in Seq(V) /\ u \in V /\ Len(a) = N /\ Len(b) = N + 1
        /\ \A n \in 1 .. N : b[n] = a[n] /\ b[N + 1] = u
    <3> HIDE DEF V, E
    <3>1. Len(E(s)) = N /\ Len(E(t)) = N + 1
      BY <2>1, <2>2
    <3> QED BY <2>2, <2>3, <2>4, <3>1
  <2>9. b[N + 1] = u
    BY <2>3
  <2> HIDE DEF a, b, u, V, E, N
  <2>6. b = Append(a, u)
    BY <2>5, <2>9
  <2>7. FlattenSeq(b) = FlattenSeq(a) \o u
    <3>1. a \in Seq(Seq({1, -1})) /\ u \in Seq({1, -1})
      BY <2>5 DEF V
    <3> QED BY <2>6, <3>1, FlattenAppend
  <2> QED BY <2>7 DEF Effect, a, b, u, E, t
<1> QED BY <1>1, <1>4, <1>5, <1>6

(* What the workers have executed is a sequence of calls.                  *)
Recorded ==
  /\ executed = [w \in Workers |-> executed[w]]
  /\ \A w \in Workers : \E S : executed[w] \in Seq(S)

(* It is executed one call at a time. *)
LEMMA OneCall ==
  ASSUME Recorded, NEW w \in Workers, Worker(w)
  PROVE  executed' = executed \/ \E c : executed' = [executed EXCEPT ![w] = executed[w] \o <<c>>]
<1>1. executed' = executed \/ Execute(w)
  BY DEF Worker, Split, CutName, CutArg, Parsed, RunOnce, BeginRepeat, NoRepeat, NextRound, RunAgain
<1>2. CASE Execute(w)
  <2> DEFINE p == commands[w][i[w]]
             called == {n \in Basic : Spelled(p, n)}
             f(n) == [name |-> n, arg |-> args[w][i[w]]]
             S == {f(n) : n \in called}
  <2>1. executed' = [executed EXCEPT ![w] = executed[w] \o SetToSeq(S)]
    BY <1>2, Zenon DEF Execute
  <2>2. \A m, n \in called : m = n
    <3> SUFFICES ASSUME NEW m \in Basic, NEW n \in Basic, Spelled(p, m), Spelled(p, n) PROVE m = n
      OBVIOUS
    <3> HIDE DEF p
    <3> DEFINE q == IF Item(p) = Char(Space) THEN Beyond(p) ELSE p
    <3>1. Item(q) = Word(m) /\ Item(q) = Word(n)
      BY Zenon DEF Spelled, Space
    <3>2. Word(m) = Word(n)
      BY <3>1
    <3>3. m \in Names /\ n \in Names
      BY DEF Names
    <3> HIDE DEF q
    <3> QED BY <3>2, <3>3, ItemsDiffer
  <2> HIDE DEF called
  <2>3. called = {} \/ \E n : called = {n}
    BY <2>2
  <2>4. SetToSeq(S) = <<>> \/ \E c : SetToSeq(S) = <<c>>
    <3>1. CASE called = {}
      <4>1. S = {}
        BY <3>1
      <4> HIDE DEF S
      <4> QED BY <4>1, OneItem
    <3>2. ASSUME NEW n, called = {n} PROVE \E c : SetToSeq(S) = <<c>>
      <4>1. S = {f(n)}
        BY <3>2
      <4> HIDE DEF S, f
      <4>2. SetToSeq(S) = <<f(n)>>
        BY <4>1, OneItem
      <4> QED BY <4>2
    <3> QED BY <2>3, <3>1, <3>2
  <2> HIDE DEF S
  <2>5. CASE SetToSeq(S) = <<>>
    <3>1. PICK T : executed[w] \in Seq(T)
      BY DEF Recorded
    <3>2. executed[w] \o <<>> = executed[w]
      BY <3>1
    <3> QED BY <2>1, <2>5, <3>2 DEF Recorded
  <2> QED BY <2>1, <2>4, <2>5
<1> QED BY <1>1, <1>2

------------------------------------------------------------------------------
(* What is in the file                                                     *)

(* The call a worker is in is the last it executed.                        *)
InLastCall ==
  /\ todo = [w \in Workers |-> todo[w]]
  /\ \A w \in Workers : todo[w] = <<>> \/ (executed[w] # <<>> /\ todo[w] = Change(Last(executed[w])))
  /\ \A w \in Workers : call[w] # "idle" => todo[w] # <<>>

(* It has not written the file yet.                                        *)
Pending(w) == todo[w] # <<>> /\ call[w] # "unlock"

(* How often each worker has written the file.                             *)
Written == [w \in Workers |-> Len(Effect(executed[w])) - (IF Pending(w) THEN 1 ELSE 0)]

(* The calls change the counter by d, or not at all.                       *)
Only(d) ==
  \A w \in Workers : \A n \in DOMAIN executed[w] : Change(executed[w][n]) \in {<<>>, <<d>>}

(* The file holds what was written.                                        *)
TextIsSum == \A d \in {1, -1} : Only(d) => text = File!Printed(d * Together(Written))

(* What every step of the workers and of their calls preserves.            *)
FileInv == IInv /\ Recorded /\ InLastCall /\ TextIsSum

(* A call that is pending counts. *)
LEMMA WrittenIs ==
  ASSUME Recorded, InLastCall
  PROVE  Written \in [Workers -> Nat]
<1> SUFFICES ASSUME NEW w \in Workers
             PROVE  Len(Effect(executed[w])) - (IF Pending(w) THEN 1 ELSE 0) \in Nat
  BY DEF Written
<1> DEFINE s == executed[w]
           n == Len(s)
<1>1. PICK S : s \in Seq(S)
  BY DEF Recorded
<1>2. Len(Effect(s)) \in Nat
  <2>1. Effect(s) \in Seq({1, -1})
    BY <1>1, EffectIs
  <2> QED BY <2>1
<1>3. CASE Pending(w)
  <2>1. s # <<>> /\ Change(Last(s)) # <<>>
    BY <1>3 DEF InLastCall, Pending
  <2>2. n \in Nat /\ n >= 1 /\ n \in 1 .. n /\ n - 1 \in 0 .. n
    BY <1>1, <2>1
  <2> DEFINE p == SubSeq(s, 1, n - 1)
             c == Last(s)
  <2>3. p \in Seq(S) /\ s = Append(p, s[n]) /\ s[n] \in S
    <3>1. p \in Seq(S) /\ SubSeq(s, 1, n) = Append(p, s[n]) /\ SubSeq(s, 1, n) = s
      BY <1>1, <2>2, Beginnings
    <3>2. s[n] \in S
      BY <1>1, <2>2
    <3> QED BY <3>1, <3>2
  <2>4. c = s[n]
    BY DEF Last
  <2> HIDE DEF s, n, p, c
  <2>5. Append(p, c) = p \o <<c>>
    BY <2>3, <2>4, AppendIsConcat
  <2>6. Effect(s) = Effect(p) \o Change(c)
    BY <2>3, <2>4, <2>5, EffectIs
  <2>7. Change(c) = <<1>> \/ Change(c) = <<-1>>
    BY <2>1, EffectIs DEF c
  <2>8. Effect(p) \in Seq({1, -1})
    BY <2>3, EffectIs
  <2>9. Len(Effect(s)) >= 1
    <3> DEFINE e == Effect(p)
    <3>1. \A a \in Seq({1, -1}) : Len(a \o <<1>>) = Len(a) + 1 /\ Len(a \o <<-1>>) = Len(a) + 1 /\ Len(a) \in Nat
      OBVIOUS
    <3>2. Len(Effect(s)) = Len(e) + 1 /\ Len(e) \in Nat
      BY <2>6, <2>7, <2>8, <3>1
    <3> QED BY <3>2
  <2> QED BY <1>2, <2>9 DEF s
<1>4. CASE ~Pending(w)
  BY <1>2, <1>4
<1> QED BY <1>3, <1>4

(* The last call changes the counter in the direction of all of them. *)
LEMMA LastCallIs ==
  ASSUME Recorded, InLastCall, NEW w \in Workers, todo[w] # <<>>, NEW d, Only(d)
  PROVE  todo[w] = <<d>>
<1> DEFINE s == executed[w]
           n == Len(s)
<1>1. PICK S : s \in Seq(S)
  BY DEF Recorded
<1>2. s # <<>> /\ todo[w] = Change(Last(s))
  BY DEF InLastCall
<1>3. n \in DOMAIN s
  <2> HIDE DEF s
  <2> QED BY <1>1, <1>2
<1>4. Change(s[n]) \in {<<>>, <<d>>}
  BY <1>3 DEF Only
<1> QED BY <1>2, <1>4 DEF Last

(* A step of run_job changes what is executed and what is pending alike. *)
LEMMA JobWrites ==
  ASSUME Recorded, Holding, InLastCall, NEW w \in Workers, JobStep(w)
  PROVE  /\ Recorded' /\ InLastCall' /\ Written' = Written
         /\ \A d : Only(d)' => Only(d)
<1>1. Worker(w) /\ todo[w] = <<>> /\ UNCHANGED <<text, mutex, count, call>>
  BY DEF JobStep
<1>3. call[w] = "idle"
  BY <1>1 DEF InLastCall
<1>4. executed = [v \in Workers |-> executed[v]] /\ todo = [v \in Workers |-> todo[v]]
  BY DEF Recorded, InLastCall
<1>5. CASE executed' = executed
  <2>1. todo' = [todo EXCEPT ![w] = todo[w]]
    BY <1>5 DEF JobStep
  <2>2. todo' = todo
    BY <1>4, <2>1
  <2>3. InLastCall'
    BY <1>1, <1>5, <2>2 DEF InLastCall
  <2>4. Written' = Written
    BY <1>1, <1>5, <2>2 DEF Written, Pending
  <2> QED BY <1>5, <2>3, <2>4 DEF Recorded, Only
<1>6. ASSUME NEW c, executed' = [executed EXCEPT ![w] = executed[w] \o <<c>>]
      PROVE  /\ Recorded' /\ InLastCall' /\ Written' = Written
             /\ \A d : Only(d)' => Only(d)
  <2> DEFINE s == executed[w]
             t == executed[w] \o <<c>>
  <2>1. PICK S : s \in Seq(S)
    BY DEF Recorded
  <2>2. t # s /\ t # <<>> /\ Last(t) = c
    <3>1. Len(t) = Len(s) + 1 /\ Len(s) \in Nat /\ t[Len(s) + 1] = c
      BY <2>1
    <3>2. Len(t) # Len(s) /\ Len(t) # 0
      BY <3>1
    <3>3. t # s /\ t # <<>>
      BY <3>2
    <3> QED BY <3>1, <3>3 DEF Last
  <2>3. executed'[w] = t /\ \A v \in Workers \ {w} : executed'[v] = executed[v]
    BY <1>4, <1>6
  <2>4. todo' = [todo EXCEPT ![w] = Change(c)]
    <3>1. todo' = [todo EXCEPT ![w] = IF executed[w] = executed'[w] THEN @ ELSE Change(Last(executed'[w]))]
      BY DEF JobStep
    <3> HIDE DEF t
    <3>2. executed[w] # executed'[w] /\ Last(executed'[w]) = c
      BY <2>2, <2>3
    <3> QED BY <3>1, <3>2
  <2>5. todo'[w] = Change(c) /\ \A v \in Workers \ {w} : todo'[v] = todo[v]
    BY <1>4, <2>4
  <2>6. todo' = [v \in Workers |-> todo'[v]]
    BY <1>4, <2>4
  <2>7. InLastCall'
    <3>1. ASSUME NEW v \in Workers
          PROVE  /\ todo'[v] = <<>> \/ (executed'[v] # <<>> /\ todo'[v] = Change(Last(executed'[v])))
                 /\ call'[v] # "idle" => todo'[v] # <<>>
      <4>1. CASE v = w
        <5> HIDE DEF t
        <5> QED BY <1>1, <1>3, <2>2, <2>3, <2>5, <4>1
      <4>2. CASE v # w
        BY <1>1, <2>3, <2>5, <4>2 DEF InLastCall
      <4> QED BY <4>1, <4>2
    <3> QED BY <2>6, <3>1 DEF InLastCall
  <2>8. Effect(t) = Effect(s) \o Change(c) /\ Effect(s) \in Seq({1, -1})
    BY <2>1, EffectIs
  <2>9. Len(Effect(t)) - (IF Change(c) # <<>> THEN 1 ELSE 0) = Len(Effect(s))
    <3> DEFINE e == Effect(s)
               x == Change(c)
    <3>1. x = <<>> \/ x = <<1>> \/ x = <<-1>>
      BY EffectIs
    <3>2. Effect(t) = e \o x /\ e \in Seq({1, -1})
      BY <2>8
    <3> HIDE DEF e, x, t, s
    <3>3. /\ <<1>> # <<>> /\ <<-1>> # <<>> /\ Len(e) \in Nat
          /\ Len(e \o <<>>) = Len(e) /\ Len(e \o <<1>>) = Len(e) + 1 /\ Len(e \o <<-1>>) = Len(e) + 1
      BY <3>2
    <3>4. Len(Effect(t)) - (IF x # <<>> THEN 1 ELSE 0) = Len(e)
      BY <3>1, <3>2, <3>3
    <3> QED BY <3>4 DEF e, x
  <2>10. ASSUME NEW v \in Workers
         PROVE  (Len(Effect(executed[v])) - (IF Pending(v) THEN 1 ELSE 0))'
                  = Len(Effect(executed[v])) - (IF Pending(v) THEN 1 ELSE 0)
    <3>1. CASE v = w
      <4>1. ~Pending(w) /\ (Pending(w)' <=> Change(c) # <<>>)
        BY <1>1, <1>3, <2>5 DEF Pending
      <4>2. Len(Effect(s)) - 0 = Len(Effect(s))
        <5>1. Len(Effect(s)) \in Nat
          BY <2>8
        <5> QED BY <5>1
      <4>3. executed'[w] = t
        BY <2>3
      <4> HIDE DEF t
      <4> QED BY <2>9, <3>1, <4>1, <4>2, <4>3 DEF s
    <3>2. CASE v # w
      <4>1. executed'[v] = executed[v] /\ (Pending(v)' <=> Pending(v))
        BY <1>1, <2>3, <2>5, <3>2 DEF Pending
      <4> QED BY <4>1
    <3> QED BY <3>1, <3>2
  <2>11. Written' = Written
    BY <2>10 DEF Written
  <2>12. /\ \E T : t \in Seq(T)
         /\ \A n \in DOMAIN s : n \in DOMAIN t /\ t[n] = s[n]
    <3> HIDE DEF s
    <3> DEFINE T == S \cup {c}
    <3>1. s \in Seq(T) /\ c \in T
      BY <2>1
    <3> HIDE DEF T
    <3>2. s \o <<c>> \in Seq(T) /\ \A n \in DOMAIN s : n \in DOMAIN (s \o <<c>>) /\ (s \o <<c>>)[n] = s[n]
      BY <3>1
    <3> QED BY <3>2 DEF s
  <2> HIDE DEF s, t
  <2>13. Recorded'
    <3>1. executed' = [v \in Workers |-> executed'[v]]
      BY <1>4, <1>6
    <3>2. \A v \in Workers : \E T : executed'[v] \in Seq(T)
      BY <2>3, <2>12 DEF Recorded
    <3> QED BY <3>1, <3>2 DEF Recorded
  <2>14. ASSUME NEW d, Only(d)' PROVE Only(d)
    <3> SUFFICES ASSUME NEW v \in Workers, NEW n \in DOMAIN executed[v]
                 PROVE  Change(executed[v][n]) \in {<<>>, <<d>>}
      BY DEF Only
    <3>1. n \in DOMAIN executed'[v] /\ executed'[v][n] = executed[v][n]
      BY <2>3, <2>12 DEF s
    <3>2. Change(executed'[v][n]) \in {<<>>, <<d>>}
      BY <2>14, <3>1 DEF Only
    <3> QED BY <3>1, <3>2
  <2> QED BY <2>7, <2>11, <2>13, <2>14
<1>7. executed' = executed \/ \E c : executed' = [executed EXCEPT ![w] = executed[w] \o <<c>>]
  BY <1>1, OneCall
<1> QED BY <1>5, <1>6, <1>7

(* Only the writing of the file makes what is written more, by one. *)
LEMMA FileWrites ==
  ASSUME Recorded, IInv, InLastCall, NEW w \in Workers, FileStep(w)
  PROVE  /\ InLastCall' /\ executed' = executed
         /\ \/ Written' = Written /\ text' = text
            \/ /\ todo[w] # <<>> /\ Written'[w] = Written[w] + 1
               /\ \A v \in Workers \ {w} : Written'[v] = Written[v]
               /\ text' = File!Overwritten(text, File!Printed(File!Scanned(text) + Head(todo[w])))
<1>1. UNCHANGED vars /\ File!Worker(w)
  BY DEF FileStep
<1>2. executed' = executed
  BY <1>1 DEF vars
<1>3. /\ call \in [Workers -> {"idle", "read", "write", "unlock"}]
      /\ todo = [v \in Workers |-> todo[v]]
  BY DEF IInv, Holding, InLastCall
<1>4. CASE File!Lock(w)
  <2>1. /\ call[w] = "idle" /\ todo[w] # <<>> /\ call' = [call EXCEPT ![w] = "read"]
        /\ UNCHANGED <<text, todo>>
    BY <1>4 DEF File!Lock
  <2>2. call'[w] = "read" /\ \A v \in Workers \ {w} : call'[v] = call[v]
    BY <1>3, <2>1
  <2>3. \A v \in Workers : Pending(v)' <=> Pending(v)
    BY <2>1, <2>2 DEF Pending
  <2>4. InLastCall'
    BY <1>2, <2>1, <2>2 DEF InLastCall
  <2> QED BY <1>2, <2>1, <2>3, <2>4 DEF Written
<1>5. CASE File!ReadCount(w)
  <2>1. /\ call[w] = "read" /\ call' = [call EXCEPT ![w] = "write"]
        /\ UNCHANGED <<text, todo>>
    BY <1>5 DEF File!ReadCount
  <2>2. call'[w] = "write" /\ \A v \in Workers \ {w} : call'[v] = call[v]
    BY <1>3, <2>1
  <2>3. \A v \in Workers : Pending(v)' <=> Pending(v)
    BY <2>1, <2>2 DEF Pending
  <2>4. InLastCall'
    BY <1>2, <2>1, <2>2 DEF InLastCall
  <2> QED BY <1>2, <2>1, <2>3, <2>4 DEF Written
<1>6. CASE File!WriteCount(w)
  <2>1. /\ call[w] = "write" /\ call' = [call EXCEPT ![w] = "unlock"] /\ todo' = todo
        /\ text' = File!Overwritten(text, File!Printed(count[w] + Head(todo[w])))
    BY <1>6 DEF File!WriteCount
  <2>2. call'[w] = "unlock" /\ \A v \in Workers \ {w} : call'[v] = call[v]
    BY <1>3, <2>1
  <2>3. todo[w] # <<>>
    BY <2>1 DEF InLastCall
  <2>4. Pending(w) /\ ~Pending(w)' /\ \A v \in Workers \ {w} : Pending(v)' <=> Pending(v)
    BY <2>1, <2>2, <2>3 DEF Pending
  <2>5. InLastCall'
    BY <1>2, <2>1, <2>2, <2>3 DEF InLastCall
  <2>6. count[w] = File!Scanned(text)
    BY <2>1 DEF IInv, CountIsFresh, File!CountIsFresh
  <2>7. Written'[w] = Len(Effect(executed[w])) - 0 /\ Written[w] = Len(Effect(executed[w])) - 1
    BY <1>2, <2>4 DEF Written
  <2>8. Len(Effect(executed[w])) \in Nat
    <3>1. Effect(executed[w]) \in Seq({1, -1})
      BY EffectIs DEF Recorded
    <3> QED BY <3>1
  <2>9. Written'[w] = Written[w] + 1
    BY <2>7, <2>8
  <2>10. \A v \in Workers \ {w} : Written'[v] = Written[v]
    BY <1>2, <2>4 DEF Written
  <2> QED BY <1>2, <2>1, <2>3, <2>5, <2>6, <2>9, <2>10
<1>7. CASE File!Unlock(w)
  <2>1. /\ call[w] = "unlock" /\ call' = [call EXCEPT ![w] = "idle"] /\ text' = text
        /\ todo' = [todo EXCEPT ![w] = Tail(todo[w])]
    BY <1>7 DEF File!Unlock
  <2>2. call'[w] = "idle" /\ \A v \in Workers \ {w} : call'[v] = call[v]
    BY <1>3, <2>1
  <2>3. todo'[w] = <<>> /\ \A v \in Workers \ {w} : todo'[v] = todo[v]
    <3>1. todo[w] # <<>>
      BY <2>1 DEF InLastCall
    <3>2. todo[w] = <<1>> \/ todo[w] = <<-1>>
      <4>1. todo[w] = Change(Last(executed[w]))
        BY <3>1 DEF InLastCall
      <4> QED BY <3>1, <4>1, EffectIs
    <3>3. Tail(todo[w]) = <<>>
      <4>1. \A x : Tail(<<x>>) = <<>>
        OBVIOUS
      <4> QED BY <3>2, <4>1
    <3> QED BY <1>3, <2>1, <3>3
  <2>4. todo' = [v \in Workers |-> todo'[v]]
    BY <1>3, <2>1
  <2>5. \A v \in Workers : Pending(v)' <=> Pending(v)
    BY <2>1, <2>2, <2>3 DEF Pending
  <2>6. InLastCall'
    <3>1. ASSUME NEW v \in Workers
          PROVE  /\ todo'[v] = <<>> \/ (executed'[v] # <<>> /\ todo'[v] = Change(Last(executed'[v])))
                 /\ call'[v] # "idle" => todo'[v] # <<>>
      BY <1>2, <2>2, <2>3 DEF InLastCall
    <3> QED BY <2>4, <3>1 DEF InLastCall
  <2> QED BY <1>2, <2>1, <2>5, <2>6 DEF Written
<1> QED BY <1>1, <1>4, <1>5, <1>6, <1>7 DEF File!Worker

(* Nothing is written at first. *)
LEMMA FileInvAtFirst ==
  ASSUME JobsInit, IsFiniteSet(Workers)
  PROVE  FileInv
<1>1. Recorded /\ IInv
  <2>1. executed = [w \in Workers |-> <<>>]
    BY DEF JobsInit, Init
  <2>2. <<>> \in Seq({})
    OBVIOUS
  <2>3. \A w \in Workers : executed[w] = <<>>
    BY <2>1
  <2> QED BY <2>1, <2>2, <2>3, InitIInv DEF Recorded
<1>2. todo = Idle /\ call = [w \in Workers |-> "idle"] /\ text = File!Printed(0)
  BY DEF JobsInit, File!Init
<1>3. \A w \in Workers : executed[w] = <<>> /\ todo[w] = <<>> /\ call[w] = "idle"
  BY <1>2 DEF JobsInit, Init, Idle
<1>4. InLastCall
  BY <1>2, <1>3 DEF InLastCall, Idle
<1>5. \A w \in Workers : Written[w] = 0
  <2>1. Len(Effect(<<>>)) = 0
    BY EffectIs
  <2> SUFFICES ASSUME NEW w \in Workers PROVE Written[w] = 0
    OBVIOUS
  <2>2. ~Pending(w) /\ executed[w] = <<>>
    BY <1>3 DEF Pending
  <2>3. Written[w] = Len(Effect(executed[w])) - 0
    BY <2>2 DEF Written
  <2> QED BY <2>1, <2>2, <2>3
<1>6. Together(Written) = 0
  <2>1. Written \in [Workers -> Nat]
    BY <1>1, <1>4, WrittenIs
  <2> QED BY <1>5, <2>1, TogetherGrows
<1>7. TextIsSum
  <2>1. \A d \in {1, -1} : d * 0 = 0
    OBVIOUS
  <2> QED BY <1>2, <1>6, <2>1 DEF TextIsSum
<1> QED BY <1>1, <1>4, <1>7 DEF FileInv

(* Every step adds to the file what it counts as written. *)
LEMMA FileInvStays ==
  ASSUME FileInv, IsFiniteSet(Workers), [JobsNext]_allVars
  PROVE  FileInv'
<1> USE DEF FileInv
<1>1. IInv'
  BY NextIInv
<1>2. \A d : executed' = executed => (Only(d)' <=> Only(d))
  BY DEF Only
<1>3. ASSUME \A d : Only(d)' => Only(d), Written' = Written, text' = text PROVE TextIsSum'
  <2> SUFFICES ASSUME NEW d \in {1, -1}, Only(d)' PROVE text' = File!Printed(d * Together(Written'))
    BY DEF TextIsSum, Together, Order
  <2>1. Only(d)
    BY <1>3
  <2> QED BY <1>3, <2>1 DEF TextIsSum
<1>4. ASSUME NEW w \in Workers, JobStep(w) PROVE Recorded' /\ InLastCall' /\ TextIsSum'
  <2>1. Recorded' /\ InLastCall' /\ Written' = Written /\ \A d : Only(d)' => Only(d)
    BY <1>4, JobWrites DEF IInv
  <2>2. text' = text
    BY <1>4 DEF JobStep
  <2> QED BY <1>3, <2>1, <2>2
<1>5. ASSUME NEW w \in Workers, FileStep(w) PROVE Recorded' /\ InLastCall' /\ TextIsSum'
  <2>1. /\ InLastCall' /\ executed' = executed
        /\ \/ Written' = Written /\ text' = text
           \/ /\ todo[w] # <<>> /\ Written'[w] = Written[w] + 1
              /\ \A v \in Workers \ {w} : Written'[v] = Written[v]
              /\ text' = File!Overwritten(text, File!Printed(File!Scanned(text) + Head(todo[w])))
    BY <1>5, FileWrites
  <2>4. Recorded'
    BY <2>1 DEF Recorded
  <2>2. CASE Written' = Written /\ text' = text
    BY <1>2, <1>3, <2>1, <2>2, <2>4
  <2>3. CASE /\ todo[w] # <<>> /\ Written'[w] = Written[w] + 1
             /\ \A v \in Workers \ {w} : Written'[v] = Written[v]
             /\ text' = File!Overwritten(text, File!Printed(File!Scanned(text) + Head(todo[w])))
    <3> SUFFICES ASSUME NEW d \in {1, -1}, Only(d)' PROVE text' = File!Printed(d * Together(Written'))
      BY <2>1, <2>4 DEF TextIsSum, Together, Order
    <3> DEFINE m == Together(Written)
    <3>1. Only(d)
      BY <1>2, <2>1
    <3>2. text = File!Printed(d * m)
      BY <3>1 DEF TextIsSum
    <3>3. Written \in [Workers -> Nat]
      BY WrittenIs
    <3>4. Written' \in [Workers -> Nat]
      <4>1. Written' = [v \in Workers |-> Written'[v]]
        BY DEF Written
      <4>2. \A v \in Workers : Written'[v] \in Nat
        BY <2>3, <3>3
      <4> QED BY <4>1, <4>2
    <3>5. m \in Nat /\ Together(Written') = m + 1
      BY <2>3, <3>3, <3>4, TogetherGrows
    <3>6. Head(todo[w]) = d
      <4>1. todo[w] = <<d>>
        BY <2>3, <3>1, LastCallIs
      <4> QED BY <4>1
    <3> HIDE DEF m
    <3>7. File!Scanned(text) = d * m
      <4>1. d * m \in Int
        BY <3>5
      <4> QED BY <3>2, <4>1, PrintedIsRead
    <3>8. text' = File!Overwritten(File!Printed(d * m), File!Printed(d * m + d))
      BY <2>3, <3>2, <3>6, <3>7
    <3> QED BY <3>5, <3>8, NextText
  <2> QED BY <2>1, <2>2, <2>3
<1>6. ASSUME UNCHANGED allVars PROVE Recorded' /\ InLastCall' /\ TextIsSum'
  <2>1. UNCHANGED <<executed, text, call, todo>>
    BY <1>6 DEF allVars, vars, fileVars
  <2>2. Recorded' /\ InLastCall'
    BY <2>1 DEF Recorded, InLastCall
  <2>3. Written' = Written
    BY <2>1 DEF Written, Pending
  <2> QED BY <1>2, <1>3, <2>1, <2>2, <2>3
<1>7. Recorded' /\ InLastCall' /\ TextIsSum'
  BY <1>4, <1>5, <1>6 DEF JobsNext, Over
<1> QED BY <1>1, <1>7

(* What the calls change the counter by. *)
LEMMA ChangesAre ==
  ASSUME Recorded, IsFiniteSet(Workers), \A w \in Workers : Share(w) = executed[w]
  PROVE  /\ Changes = FlattenSeq([k \in DOMAIN Order |-> [w \in Workers |-> Effect(executed[w])][Order[k]]])
         /\ Changes \in Seq({1, -1})
         /\ \A w \in Workers : \A n \in DOMAIN executed[w] : \A d :
              Change(executed[w][n]) = <<d>> => d \in ToSet(Changes)
<1> DEFINE g == [w \in Workers |-> Effect(executed[w])]
           s == [k \in DOMAIN Order |-> g[Order[k]]]
           N == Len(Order)
           T == {1, -1}
           V == Seq(T)
<1>1. \A w \in Workers : \E S : executed[w] \in Seq(S)
  BY DEF Recorded
<1>2. N \in Nat /\ DOMAIN Order = 1 .. N /\ \A k \in 1 .. N : Order[k] \in Workers
  <2>1. Order \in Seq(Workers)
    BY OrderHasAll
  <2> QED BY <2>1
<1>3. \A w \in Workers : g[w] = Effect(executed[w]) /\ g[w] \in V
  BY <1>1, EffectIs
<1> HIDE DEF g
<1>4. s \in Seq(V) /\ DOMAIN s = 1 .. N /\ Len(s) = N /\ \A k \in 1 .. N : s[k] = g[Order[k]]
  <2> DEFINE c(k) == g[Order[k]]
  <2>1. \A k \in 1 .. N : c(k) \in V
    BY <1>2, <1>3
  <2>2. s = [k \in 1 .. N |-> c(k)]
    BY <1>2
  <2> HIDE DEF N, V, c, s
  <2>3. s \in Seq(V) /\ DOMAIN s = 1 .. N /\ Len(s) = N /\ \A k \in 1 .. N : s[k] = c(k)
    BY <1>2, <2>1, <2>2
  <2> QED BY <2>3 DEF c
<1>5. Changes = FlattenSeq(s)
  <2>1. \A k \in DOMAIN Order : g[Order[k]] =
          FlattenSeq([n \in DOMAIN executed[Order[k]] |-> Change(executed[Order[k]][n])])
    BY <1>2, <1>3 DEF Effect
  <2> HIDE DEF N, V, T
  <2>2. s = [k \in DOMAIN Order |->
          FlattenSeq([n \in DOMAIN Share(Order[k]) |-> Change(Share(Order[k])[n])])]
    <3>1. \A k \in DOMAIN Order : Share(Order[k]) = executed[Order[k]]
      BY <1>2
    <3>2. \A k \in DOMAIN Order : g[Order[k]] =
            FlattenSeq([n \in DOMAIN Share(Order[k]) |-> Change(Share(Order[k])[n])])
      BY <2>1, <3>1
    <3> QED BY <3>2
  <2> QED BY <2>2 DEF Changes, Order
<1> HIDE DEF s, N
<1>6. Changes \in Seq(T)
  <2> HIDE DEF T
  <2> QED BY <1>4, <1>5, FlattenAppend
<1>7. ASSUME NEW w \in Workers, NEW n \in DOMAIN executed[w], NEW d, Change(executed[w][n]) = <<d>>
      PROVE  d \in ToSet(Changes)
  <2> DEFINE M == executed[w]
             e == [j \in DOMAIN M |-> Change(M[j])]
  <2>1. PICK S : M \in Seq(S)
    BY <1>1
  <2> HIDE DEF M
  <2>2. DOMAIN M = 1 .. Len(M) /\ Len(M) \in Nat /\ n \in 1 .. Len(M) /\ Change(M[n]) = <<d>>
    BY <1>7, <2>1 DEF M
  <2>3. e \in Seq(V) /\ Len(e) = Len(M) /\ e[n] = <<d>>
    <3> DEFINE c(j) == Change(M[j])
    <3>1. \A j : c(j) \in V
      <4>1. <<>> \in Seq({1, -1}) /\ <<1>> \in Seq({1, -1}) /\ <<-1>> \in Seq({1, -1})
        OBVIOUS
      <4>2. \A x : Change(x) \in Seq({1, -1})
        BY <4>1, EffectIs
      <4> QED BY <4>2
    <3>2. e = [j \in 1 .. Len(M) |-> c(j)]
      BY <2>2
    <3>3. c(n) = <<d>>
      BY <2>2
    <3> HIDE DEF V, c, e
    <3>4. e \in Seq(V) /\ Len(e) = Len(M) /\ e[n] = c(n)
      BY <2>2, <3>1, <3>2
    <3> QED BY <3>3, <3>4
  <2>4. Effect(M) = FlattenSeq(e)
    BY DEF Effect
  <2> HIDE DEF e
  <2>5. d \in ToSet(Effect(M))
    <3>1. n \in 1 .. Len(e) /\ 1 \in DOMAIN e[n] /\ e[n][1] = d
      BY <2>2, <2>3
    <3>2. e[n][1] \in ToSet(FlattenSeq(e))
      <4> HIDE DEF T
      <4> QED BY <2>3, <3>1, JoinedHolds
    <3> QED BY <2>4, <3>1, <3>2
  <2>6. PICK k \in 1 .. N : Order[k] = w
    BY OrderHasAll DEF N
  <2>7. s[k] = Effect(M) /\ k \in 1 .. Len(s)
    BY <1>3, <1>4, <2>6 DEF M
  <2>8. PICK x \in DOMAIN s[k] : s[k][x] = d
    BY <2>5, <2>7 DEF ToSet
  <2>9. s[k][x] \in ToSet(FlattenSeq(s))
    <3> HIDE DEF T
    <3> QED BY <1>4, <2>7, JoinedHolds
  <2> QED BY <1>5, <2>8, <2>9
<1> QED BY <1>5, <1>6, <1>7 DEF s, g

(* When all have returned, the file holds the sum. *)
LEMMA FileIsRight ==
  ASSUME RunInv, FileInv, FitLines, IsFiniteSet(Workers)
  PROVE  FileHoldsTheLines
<1> SUFFICES ASSUME AllReturned, Cardinality(ToSet(Changes)) <= 1
             PROVE  text = File!Printed(FoldLeft(+, 0, Changes))
  BY DEF FileHoldsTheLines
<1> DEFINE g == [w \in Workers |-> Effect(executed[w])]
<1>1. Recorded /\ InLastCall /\ TextIsSum
  BY DEF FileInv
<1>9. \A w \in Workers : Share(w) = executed[w]
  <2> SUFFICES ASSUME NEW w \in Workers, w \notin mixed PROVE Meaning(line[w]) = executed[w]
    BY DEF Share
  <2>1. w \in Clean /\ pc[w] = "done"
    BY DEF Clean, AllReturned
  <2> QED BY <2>1, LineExecuted
<1>2. /\ Changes = FlattenSeq([k \in DOMAIN Order |-> g[Order[k]]])
      /\ Changes \in Seq({1, -1})
      /\ \A w \in Workers : \A n \in DOMAIN executed[w] : \A d :
           Change(executed[w][n]) = <<d>> => d \in ToSet(Changes)
  BY <1>1, <1>9, ChangesAre
<1>3. g \in [Workers -> Seq({1, -1})] /\ \A w \in Workers : Len(g[w]) = Written[w]
  <2>1. \A w \in Workers : Effect(executed[w]) \in Seq({1, -1})
    BY <1>1, EffectIs DEF Recorded
  <2>2. ASSUME NEW w \in Workers PROVE Len(Effect(executed[w])) = Written[w]
    <3>2. ~Pending(w)
      BY DEF AllReturned, Idle, Pending
    <3>3. Written[w] = Len(Effect(executed[w])) - 0
      BY <3>2 DEF Written
    <3>4. Len(Effect(executed[w])) \in Nat
      BY <2>1
    <3> QED BY <3>3, <3>4
  <2> QED BY <2>1, <2>2
<1>4. Len(Changes) = Together(Written)
  <2>1. Written \in [Workers -> Nat]
    BY <1>1, WrittenIs
  <2> HIDE DEF g
  <2> QED BY <1>2, <1>3, <2>1, TogetherIs
<1>5. PICK d \in {1, -1} : \A x \in ToSet(Changes) : x = d
  <2>1. \A x \in ToSet(Changes) : x \in {1, -1}
    BY <1>2 DEF ToSet
  <2>2. ~(1 \in ToSet(Changes) /\ -1 \in ToSet(Changes))
    <3> SUFFICES ASSUME 1 \in ToSet(Changes), -1 \in ToSet(Changes) PROVE FALSE
      OBVIOUS
    <3>1. ToSet(Changes) = {1} \cup {-1}
      BY <2>1
    <3>2. IsFiniteSet({1}) /\ Cardinality({1}) = 1
      BY FS_Singleton
    <3>3. -1 \notin {1}
      OBVIOUS
    <3>4. Cardinality({1} \cup {-1}) = Cardinality({1}) + 1
      BY <3>2, <3>3, FS_AddElement
    <3> QED BY <3>1, <3>2, <3>4
  <2> QED BY <2>1, <2>2
<1>6. Only(d)
  <2> SUFFICES ASSUME NEW w \in Workers, NEW n \in DOMAIN executed[w]
               PROVE  Change(executed[w][n]) \in {<<>>, <<d>>}
    BY DEF Only
  <2>1. Change(executed[w][n]) \in {<<>>, <<1>>, <<-1>>}
    BY EffectIs
  <2>2. \A x : Change(executed[w][n]) = <<x>> => x = d
    BY <1>2, <1>5
  <2> QED BY <2>1, <2>2
<1>7. Changes \in Seq({d})
  <2> DEFINE q == Changes
  <2>1. q \in Seq({1, -1}) /\ \A k \in DOMAIN q : q[k] = d
    BY <1>2, <1>5 DEF ToSet
  <2> HIDE DEF q
  <2>2. q \in Seq({d})
    BY <2>1
  <2> QED BY <2>2 DEF q
<1>8. FoldLeft(+, 0, Changes) = d * Len(Changes)
  BY <1>7, SumOfEquals
<1> QED BY <1>1, <1>4, <1>6, <1>8 DEF TextIsSum

(* When all have returned, the file of the counter holds what the lines of *)
(* the workers add up to, of those that strtok mixed up what they called   *)
(* (run_job, increment, decrement): for any finite number of workers,      *)
(* lines of any length and rounds of any number.                           *)
THEOREM FileCorrect ==
  ASSUME FitLines, IsFiniteSet(Workers)
  PROVE  JobsSpec => []FileHoldsTheLines
<1>1. JobsInit => FileInv /\ RunInv
  BY FileInvAtFirst, RunInvAtFirst DEF JobsInit
<1>2. (FileInv /\ RunInv) /\ [JobsNext]_allVars => (FileInv /\ RunInv)'
  BY FileInvStays, RunInvStays
<1>3. FileInv /\ RunInv => FileHoldsTheLines
  BY FileIsRight
<1> QED BY <1>1, <1>2, <1>3, PTL DEF JobsSpec
=============================================================================
