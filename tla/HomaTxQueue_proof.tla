------------------------- MODULE HomaTxQueue_proof -------------------------
(***************************************************************************)
(* Proofs about HomaTxQueue for every number of threads, datagrams and     *)
(* levels and every budget: what one pass of wait_batch takes and leaves,  *)
(* by induction over the levels, and from it that no datagram is lost,     *)
(* repeated, overtaken by a lower rank or left behind by Drop.             *)
(***************************************************************************)
EXTENDS HomaTxQueue, FiniteSetTheorems, WellFoundedInduction, TLAPS

(* The provers in the order in which a leaf tries them, then again with more time. *)
USE SMT, Zenon, SMTT(60), ZenonT(60)

-----------------------------------------------------------------------------
(* Induction over sets of numbers, and the recursion it justifies. *)
LEMMA LeastNumber ==
  ASSUME NEW T, T \subseteq Nat, T # {}
  PROVE  \E x \in T : \A y \in T : x <= y
<1> DEFINE R == {ss \in Nat \X Nat : ss[1] < ss[2]}
<1>1. IsWellFoundedOn(R, Nat)
  BY ZenonT(60), NatLessThanWellFounded DEF OpToRel
<1> HIDE DEF R
<1>2. PICK x \in T : \A y \in T : ~(<<y, x>> \in R)
  BY ZenonT(60), WFMin, <1>1
<1>3. ASSUME NEW y \in T PROVE x <= y
  <2>1. <<y, x>> \in Nat \X Nat /\ ~(<<y, x>> \in R)
    BY <1>2
  <2> QED BY <2>1 DEF R
<1> QED BY <1>3

LEMMA SetInduction ==
  ASSUME NEW A, A \subseteq Nat, 0 \in A, \A n \in A : n + 1 \in A
  PROVE  A = Nat
<1> SUFFICES ASSUME Nat \ A # {} PROVE FALSE
  BY ZenonT(60)
<1>1. PICK x \in Nat \ A : \A y \in Nat \ A : x <= y
  BY ZenonT(60), LeastNumber
<1>2. x \in Nat /\ x # 0 /\ x - 1 \in Nat /\ (x - 1) + 1 = x
  OBVIOUS
<1>3. x - 1 \in A
  BY <1>1, <1>2
<1> QED BY ZenonT(60), <1>2, <1>3

Runs(N, S, a, F) == \E f \in [0 .. N -> S] : f[0] = a /\ \A k \in 1 .. N : f[k] = F[k][f[k - 1]]
LEMMA Recursion ==
  ASSUME NEW N \in Nat, NEW S, NEW a \in S, NEW F \in [1 .. N -> [S -> S]]
  PROVE  Runs(N, S, a, F)
<1> USE DEF Runs
<1> DEFINE Rec(f, n) == f[0] = a /\ \A k \in 1 .. n : f[k] = F[k][f[k - 1]]
           A == {n \in Nat : n > N \/ \E f \in [0 .. n -> S] : Rec(f, n)}
<1>1. 0 \in A
  <2>1. [k \in 0 .. 0 |-> a] \in [0 .. 0 -> S] /\ Rec([k \in 0 .. 0 |-> a], 0)
    OBVIOUS
  <2> QED BY ZenonT(60), <2>1
<1>2. ASSUME NEW n \in A PROVE n + 1 \in A
  <2>1. n \in Nat /\ n + 1 \in Nat
    OBVIOUS
  <2>2. CASE n + 1 > N
    BY <2>1, <2>2
  <2>3. CASE ~(n + 1 > N)
    <3>1. n + 1 \in 1 .. N /\ ~(n > N)
      BY <2>1, <2>3
    <3>2. PICK f \in [0 .. n -> S] : Rec(f, n)
      BY ZenonT(60), <3>1
    <3> DEFINE v == F[n + 1][f[n]]
               g == [k \in 0 .. n + 1 |-> IF k = n + 1 THEN v ELSE f[k]]
    <3>3. v \in S
      <4>1. f[n] \in S /\ F[n + 1] \in [S -> S]
        BY <2>1, <3>1
      <4> QED BY ZenonT(60), <4>1
    <3> HIDE DEF v
    <3>4. g \in [0 .. n + 1 -> S]
      BY <2>1, <3>3
    <3>5. g[0] = a
      BY <2>1, <3>2
    <3>6. ASSUME NEW k \in 1 .. n + 1 PROVE g[k] = F[k][g[k - 1]]
      <4>1. CASE k = n + 1
        <5>1. k - 1 = n /\ k - 1 \in 0 .. n + 1 /\ k \in 0 .. n + 1 /\ k - 1 # n + 1
          BY <2>1, <4>1
        <5>2. g[k] = v /\ g[k - 1] = f[n]
          BY <4>1, <5>1
        <5> QED BY ZenonT(60), <4>1, <5>2 DEF v
      <4>2. CASE k # n + 1
        <5>1. k \in 1 .. n /\ k \in 0 .. n + 1 /\ k - 1 \in 0 .. n + 1 /\ k - 1 # n + 1
          BY <2>1, <4>2
        <5>2. g[k] = f[k] /\ g[k - 1] = f[k - 1]
          BY <4>2, <5>1
        <5> QED BY ZenonT(60), <3>2, <5>1, <5>2
      <4> QED BY <4>1, <4>2
    <3> HIDE DEF g
    <3>7. Rec(g, n + 1)
      BY ZenonT(60), <3>5, <3>6
    <3> QED BY ZenonT(60), <2>1, <3>4, <3>7
  <2> QED BY ZenonT(60), <2>2, <2>3
<1>3. A \subseteq Nat
  BY ZenonT(60)
<1> HIDE DEF A
<1>4. A = Nat
  BY ZenonT(60), <1>1, <1>2, <1>3, SetInduction
<1>5. N \in A /\ ~(N > N)
  BY <1>4
<1> QED BY ZenonT(60), <1>5 DEF A

-----------------------------------------------------------------------------
(* A state of a pass: what it took so far and what it left. *)
Passes == [out : Seq(Items), queues : [Priorities -> Seq(Items \ Control)]]
Held(d) == Range(d.out) \cup UNION { Range(d.queues[p]) : p \in Priorities }

(* Nothing is there twice, and DATA is in the queue of its level. *)
Sound(d) ==
  /\ d \in Passes
  /\ IsInjective(d.out)
  /\ \A p \in Priorities :
       /\ IsInjective(d.queues[p])
       /\ \A i \in Range(d.queues[p]) : Prio[i] = p /\ i \notin Range(d.out)

(* After k levels nothing taken ranks below anything left, and something is
   left on those levels only if the batch is full. *)
Ordered(d, k) ==
  /\ \A i \in Range(d.out) : Rank(i) <= k
  /\ \A p \in Priorities : p < k /\ d.queues[p] # <<>> => Len(d.out) >= Budget
  /\ \A i \in Range(d.out), p \in Priorities : \A l \in Range(d.queues[p]) : Rank(i) <= Rank(l)

LEMMA Constants ==
  /\ NumPriorities \in Nat /\ NumPriorities # 0 /\ Budget \in Nat /\ Budget # 0
  /\ Priorities = 0 .. NumPriorities - 1 /\ Control \subseteq Items
  /\ \A i \in Items : Prio[i] \in Priorities /\ Rank(i) \in Nat
  /\ \A i \in Items \ Control : Rank(i) = Prio[i] + 1
  /\ \A i \in Control : Rank(i) = 0
BY TxConstants DEF Priorities, Rank

(* The front of q, moved behind s. *)
Moved(T, s, U, q, n, a, b) ==
  /\ a \in Seq(T) /\ b \in Seq(U) /\ Len(a) = Len(s) + n /\ Len(b) = Len(q) - n
  /\ \A i \in 1 .. Len(s) : a[i] = s[i]
  /\ \A i \in 1 .. n : a[Len(s) + i] = q[i]
  /\ \A i \in 1 .. Len(q) - n : b[i] = q[n + i]
LEMMA Cut ==
  ASSUME NEW T, NEW s \in Seq(T), NEW U, U \subseteq T, NEW q \in Seq(U), NEW n \in 0 .. Len(q)
  PROVE  Moved(T, s, U, q, n, s \o SubSeq(q, 1, n), SubSeq(q, n + 1, Len(q)))
<1> DEFINE c == SubSeq(q, 1, n)
           a == s \o c
           b == SubSeq(q, n + 1, Len(q))
<1>1. q \in Seq(T) /\ Len(q) \in Nat /\ Len(s) \in Nat /\ n \in Nat /\ n <= Len(q)
  OBVIOUS
<1>2. c \in Seq(T) /\ Len(c) = n /\ \A i \in 1 .. n : c[i] = q[i]
  BY <1>1
<1>3. b \in Seq(U) /\ Len(b) = Len(q) - n /\ \A i \in 1 .. Len(q) - n : b[i] = q[n + i]
  BY <1>1
<1> HIDE DEF c, b
<1>4. a \in Seq(T) /\ Len(a) = Len(s) + n /\ (\A i \in 1 .. Len(s) : a[i] = s[i])
      /\ \A i \in 1 .. n : a[Len(s) + i] = c[i]
  BY <1>1, <1>2
<1> QED BY ZenonT(60), <1>2, <1>3, <1>4 DEF c, b, Moved

(* What it does to the elements. *)
LEMMA CutRange ==
  ASSUME NEW T, NEW s \in Seq(T), NEW U, U \subseteq T, NEW q \in Seq(U), NEW n \in 0 .. Len(q),
         IsInjective(s), IsInjective(q), Range(s) \cap Range(q) = {}
  PROVE  LET a == s \o SubSeq(q, 1, n)
             b == SubSeq(q, n + 1, Len(q))
         IN  /\ Range(a) \cup Range(b) = Range(s) \cup Range(q)
             /\ Range(a) \cap Range(b) = {} /\ Range(s) \subseteq Range(a) /\ Range(b) \subseteq Range(q)
             /\ IsInjective(a) /\ IsInjective(b)
             /\ (n = 0 => Range(a) = Range(s)) /\ (b = <<>> <=> n = Len(q))
<1> DEFINE a == s \o SubSeq(q, 1, n)
           b == SubSeq(q, n + 1, Len(q))
<1>1. /\ a \in Seq(T) /\ b \in Seq(U) /\ Len(a) = Len(s) + n /\ Len(b) = Len(q) - n
      /\ \A i \in 1 .. Len(s) : a[i] = s[i]
      /\ \A i \in 1 .. n : a[Len(s) + i] = q[i]
      /\ \A i \in 1 .. Len(q) - n : b[i] = q[n + i]
  <2>1. Moved(T, s, U, q, n, a, b)
    BY ZenonT(60), Cut
  <2> HIDE DEF a, b
  <2> QED BY ZenonT(60), <2>1 DEF Moved
<1> HIDE DEF a, b
<1>2. /\ Len(q) \in Nat /\ Len(s) \in Nat /\ n \in Nat /\ n <= Len(q)
      /\ DOMAIN a = 1 .. Len(a) /\ DOMAIN b = 1 .. Len(b) /\ DOMAIN s = 1 .. Len(s) /\ DOMAIN q = 1 .. Len(q)
  BY <1>1
<1>3. \A i \in DOMAIN a : i \in 1 .. Len(s) \/ (i - Len(s) \in 1 .. n /\ a[i] = q[i - Len(s)])
  <2> SUFFICES ASSUME NEW i \in DOMAIN a, i \notin 1 .. Len(s) PROVE i - Len(s) \in 1 .. n /\ a[i] = q[i - Len(s)]
    OBVIOUS
  <2>1. i \in 1 .. Len(s) + n
    BY <1>1, <1>2
  <2>2. i - Len(s) \in 1 .. n /\ Len(s) + (i - Len(s)) = i
    BY <1>2, <2>1
  <2> QED BY <1>1, <2>2
<1>4. \A i \in DOMAIN b : n + i \in DOMAIN q /\ n + i > n /\ b[i] = q[n + i]
  BY SMT, SMTT(30), ZenonT(60), <1>1, <1>2
<1>5. \A x \in Range(a) : x \in Range(s) \/ \E j \in 1 .. n : x = q[j]
  <2> SUFFICES ASSUME NEW i \in DOMAIN a PROVE a[i] \in Range(s) \/ \E j \in 1 .. n : a[i] = q[j]
    BY ZenonT(60) DEF Range
  <2>1. CASE i \in 1 .. Len(s)
    BY ZenonT(60), <1>1, <1>2, <2>1 DEF Range
  <2> QED BY ZenonT(60), <1>3, <2>1
<1>6. \A x \in Range(b) : \E j \in DOMAIN q : j > n /\ x = q[j]
  BY <1>4 DEF Range
<1>7. Range(s) \subseteq Range(a) /\ \A j \in 1 .. n : q[j] \in Range(a)
  <2>1. \A i \in 1 .. Len(s) : i \in DOMAIN a
    BY <1>1, <1>2
  <2>2. \A j \in 1 .. n : Len(s) + j \in DOMAIN a
    BY <1>1, <1>2
  <2> QED BY ZenonT(60), <1>1, <1>2, <2>1, <2>2 DEF Range
<1>8. \A j \in DOMAIN q : j > n => q[j] \in Range(b)
  <2> SUFFICES ASSUME NEW j \in DOMAIN q, j > n PROVE q[j] \in Range(b)
    OBVIOUS
  <2>1. j - n \in 1 .. Len(q) - n /\ n + (j - n) = j /\ j - n \in DOMAIN b
    BY <1>1, <1>2
  <2>2. b[j - n] = q[j]
    BY ZenonT(60), <1>1, <2>1
  <2> QED BY ZenonT(60), <2>1, <2>2 DEF Range
<1>9. 1 .. n \subseteq DOMAIN q
  BY <1>2
<1>10. Range(a) \cup Range(b) = Range(s) \cup Range(q)
  <2>1. \A x \in Range(q) : x \in Range(a) \cup Range(b)
    <3> SUFFICES ASSUME NEW j \in DOMAIN q PROVE q[j] \in Range(a) \cup Range(b)
      BY DEF Range
    <3>1. j > n \/ j \in 1 .. n
      BY <1>2
    <3> QED BY <1>7, <1>8, <3>1
  <2>2. \A j \in DOMAIN q : q[j] \in Range(q)
    BY DEF Range
  <2>3. \A x \in Range(a) \cup Range(b) : x \in Range(s) \cup Range(q)
    <3>1. \A j \in 1 .. n : q[j] \in Range(q)
      BY ZenonT(60), <1>9, <2>2
    <3>2. \A x \in Range(a) : x \in Range(s) \/ x \in Range(q)
      BY ZenonT(60), <1>5, <3>1
    <3>3. \A x \in Range(b) : x \in Range(q)
      BY ZenonT(60), <1>6, <2>2
    <3> QED BY ZenonT(60), <3>2, <3>3
  <2>4. \A x \in Range(s) \cup Range(q) : x \in Range(a) \cup Range(b)
    BY ZenonT(60), <1>7, <2>1
  <2> QED BY ZenonT(60), <2>3, <2>4
<1>11. Range(a) \cap Range(b) = {}
  <2> SUFFICES ASSUME NEW x \in Range(a), x \in Range(b) PROVE FALSE
    BY ZenonT(60)
  <2>1. PICK j \in DOMAIN q : j > n /\ x = q[j]
    BY ZenonT(60), <1>6
  <2>2. x \in Range(q) /\ x \notin Range(s)
    BY ZenonT(60), <2>1 DEF Range
  <2>3. PICK k \in 1 .. n : x = q[k]
    BY ZenonT(60), <1>5, <2>2
  <2>4. k \in DOMAIN q /\ k # j
    BY <1>2, <2>1
  <2> QED BY ZenonT(60), <2>1, <2>3, <2>4 DEF IsInjective
<1>12. IsInjective(a)
  <2> SUFFICES ASSUME NEW i \in DOMAIN a, NEW k \in DOMAIN a, a[i] = a[k] PROVE i = k
    BY ZenonT(60) DEF IsInjective
  <2>1. \A j \in 1 .. n : j \in DOMAIN q /\ q[j] \notin Range(s)
    BY ZenonT(60), <1>9 DEF Range
  <2>2. \A j \in 1 .. Len(s) : a[j] = s[j] /\ s[j] \in Range(s)
    BY ZenonT(60), <1>1, <1>2 DEF Range
  <2>3. CASE i \in 1 .. Len(s) /\ k \in 1 .. Len(s)
    BY ZenonT(60), <1>2, <2>2, <2>3 DEF IsInjective
  <2>4. CASE i \notin 1 .. Len(s) /\ k \notin 1 .. Len(s)
    <3>1. i - Len(s) \in DOMAIN q /\ k - Len(s) \in DOMAIN q /\ q[i - Len(s)] = q[k - Len(s)]
      BY ZenonT(60), <1>3, <2>1, <2>4
    <3>2. i - Len(s) = k - Len(s)
      BY ZenonT(60), <3>1 DEF IsInjective
    <3>3. i \in Nat /\ k \in Nat
      BY <1>2
    <3> QED BY <1>2, <3>2, <3>3
  <2> QED BY ZenonT(60), <1>3, <2>1, <2>2, <2>3, <2>4
<1>13. IsInjective(b)
  <2> SUFFICES ASSUME NEW i \in DOMAIN b, NEW k \in DOMAIN b, b[i] = b[k] PROVE i = k
    BY ZenonT(60) DEF IsInjective
  <2>1. n + i = n + k
    BY ZenonT(60), <1>4 DEF IsInjective
  <2> QED BY <1>2, <2>1
<1>14. (n = 0 => Range(a) = Range(s)) /\ (b = <<>> <=> n = Len(q))
  <2>1. n = 0 => 1 .. n = {}
    BY <1>2
  <2>2. b = <<>> <=> Len(b) = 0
    <3>1. b \in Seq(U)
      BY ZenonT(60), <1>1
    <3> QED BY ONLY SMT, Zenon, SMTT(60), ZenonT(60), <3>1
  <2>3. Len(b) = 0 <=> n = Len(q)
    BY <1>1, <1>2
  <2> QED BY ZenonT(60), <1>5, <1>7, <2>1, <2>2, <2>3
<1>15. Range(b) \subseteq Range(q)
  BY <1>6 DEF Range
<1> QED BY ZenonT(60), <1>7, <1>10, <1>11, <1>12, <1>13, <1>14, <1>15 DEF a, b

(* One level of a pass. *)
LEMMA PopSound ==
  ASSUME NEW d, NEW k \in Priorities, Sound(d), Ordered(d, k)
  PROVE  /\ Sound(Popped(d, k)) /\ Ordered(Popped(d, k), k + 1)
         /\ Held(Popped(d, k)) = Held(d)
<1> DEFINE q == d.queues[k]
           n == Fits(d.out, q)
           a == d.out \o SubSeq(q, 1, n)
           b == SubSeq(q, n + 1, Len(q))
           e == Popped(d, k)
<1>1. /\ d.out \in Seq(Items) /\ d.queues \in [Priorities -> Seq(Items \ Control)] /\ q \in Seq(Items \ Control)
      /\ IsInjective(d.out) /\ IsInjective(q)
      /\ Range(d.out) \cap Range(q) = {}
  BY ZenonT(60) DEF Sound, Passes
<1>2. Len(d.out) \in Nat /\ Len(q) \in Nat /\ Budget \in Nat
  BY <1>1, Constants
<1>3. /\ n \in 0 .. Len(q)
      /\ n # 0 => Len(d.out) < Budget
      /\ n # Len(q) => Len(d.out) + n >= Budget
  <2> DEFINE L == Len(d.out)
             K == Len(q)
  <2>1. n = IF L >= Budget THEN 0 ELSE IF K < Budget - L THEN K ELSE Budget - L
    BY ZenonT(60) DEF Fits
  <2> HIDE DEF n, L, K
  <2>2. L \in Nat /\ K \in Nat /\ Budget \in Nat
    BY ZenonT(60), <1>2 DEF L, K
  <2>3. n \in 0 .. K /\ (n # 0 => L < Budget) /\ (n # K => L + n >= Budget)
    BY ONLY SMT, Zenon, SMTT(60), ZenonT(60), <2>1, <2>2
  <2> QED BY ZenonT(60), <2>3 DEF L, K
<1>4. e = [out |-> a, queues |-> [d.queues EXCEPT ![k] = b]]
  BY ZenonT(60) DEF Popped
<1> HIDE DEF n
<1>5. /\ a \in Seq(Items) /\ b \in Seq(Items \ Control) /\ Len(a) = Len(d.out) + n
  <2>1. Items \ Control \subseteq Items
    BY ZenonT(60)
  <2> DEFINE s == d.out
  <2>2. s \in Seq(Items) /\ q \in Seq(Items \ Control) /\ n \in 0 .. Len(q)
    BY ZenonT(60), <1>1, <1>3
  <2> HIDE DEF q, s
  <2>3. LET x == s \o SubSeq(q, 1, n)
            y == SubSeq(q, n + 1, Len(q))
        IN  x \in Seq(Items) /\ y \in Seq(Items \ Control) /\ Len(x) = Len(s) + n
    BY <2>1, <2>2, Cut
  <2> QED BY ZenonT(60), <2>3 DEF s
<1>6. /\ Range(a) \cup Range(b) = Range(d.out) \cup Range(q)
      /\ Range(a) \cap Range(b) = {} /\ Range(d.out) \subseteq Range(a) /\ Range(b) \subseteq Range(q)
      /\ IsInjective(a) /\ IsInjective(b)
      /\ (n = 0 => Range(a) = Range(d.out)) /\ (b = <<>> <=> n = Len(q))
  BY <1>1, <1>3, CutRange
<1> HIDE DEF a, b, e
<1>7. /\ e.out = a /\ e.queues \in [Priorities -> Seq(Items \ Control)] /\ e \in Passes
      /\ e.queues[k] = b /\ \A p \in Priorities \ {k} : e.queues[p] = d.queues[p]
  BY ZenonT(60), <1>1, <1>4, <1>5 DEF Passes
<1> HIDE DEF q
<1>8. \A p \in Priorities : \A i \in Range(d.queues[p]) : Prio[i] = p /\ i \notin Range(d.out) /\ i \in Items \ Control
  <2>1. \A p \in Priorities : Range(d.queues[p]) \subseteq Items \ Control
    BY <1>1 DEF Range
  <2> QED BY ZenonT(60), <2>1 DEF Sound
<1>9. \A p \in Priorities : Range(e.queues[p]) \subseteq Range(d.queues[p])
  BY ZenonT(60), <1>6, <1>7 DEF q
<1>10. \A i \in Range(a) : i \in Range(d.out) \/ (n # 0 /\ i \in Range(q) /\ Prio[i] = k /\ Rank(i) = k + 1)
  <2>1. \A i \in Range(q) : Prio[i] = k /\ Rank(i) = k + 1
    BY ZenonT(60), <1>8, Constants DEF q
  <2> QED BY ZenonT(60), <1>6, <2>1
<1>11. ASSUME NEW p \in Priorities, NEW i \in Range(e.queues[p]) PROVE Prio[i] = p /\ i \notin Range(e.out)
  <2>1. Prio[i] = p /\ i \notin Range(d.out) /\ i \in Range(d.queues[p])
    BY ZenonT(60), <1>8, <1>9
  <2>2. CASE p = k
    BY ZenonT(60), <1>6, <1>7, <2>1, <2>2
  <2>3. CASE p # k
    BY ZenonT(60), <1>7, <1>10, <2>1, <2>3
  <2> QED BY ZenonT(60), <2>2, <2>3
<1>12. Sound(e)
  <2>1. \A p \in Priorities : IsInjective(e.queues[p])
    BY ZenonT(60), <1>6, <1>7 DEF Sound
  <2> QED BY ZenonT(60), <1>6, <1>7, <1>11, <2>1 DEF Sound
<1>13. Held(e) = Held(d)
  <2>1. \A x \in Held(e) : x \in Held(d)
    BY ZenonT(60), <1>6, <1>7, <1>9 DEF Held, q
  <2>2. \A x \in Held(d) : x \in Held(e)
    <3>1. \A x \in Range(d.out) : x \in Held(e)
      BY ZenonT(60), <1>6, <1>7 DEF Held
    <3>2. \A p \in Priorities : \A x \in Range(d.queues[p]) : x \in Held(e)
      BY ZenonT(60), <1>6, <1>7 DEF Held, q
    <3> QED BY ZenonT(60), <3>1, <3>2 DEF Held
  <2> QED BY ZenonT(60), <2>1, <2>2
<1>14. k \in Nat /\ k + 1 \in Nat /\ k < k + 1 /\ Priorities \subseteq Nat
  BY Constants
<1>15. \A i \in Items : Rank(i) \in Nat
  BY ZenonT(60), Constants
<1>16. Range(d.out) \subseteq Items
  BY <1>1 DEF Range
<1>17. \A i \in Range(e.out) : Rank(i) <= k + 1
  <2> SUFFICES ASSUME NEW i \in Range(e.out) PROVE Rank(i) <= k + 1
    BY ZenonT(60)
  <2>1. CASE i \in Range(d.out)
    <3>1. Rank(i) \in Nat /\ Rank(i) <= k
      BY ZenonT(60), <1>15, <1>16, <2>1 DEF Ordered
    <3> QED BY <1>14, <3>1
  <2>2. CASE i \notin Range(d.out)
    <3>1. Rank(i) = k + 1
      BY ZenonT(60), <1>7, <1>10, <2>2
    <3> QED BY <1>14, <3>1
  <2> QED BY ZenonT(60), <2>1, <2>2
<1>18. ASSUME NEW p \in Priorities, p < k + 1, e.queues[p] # <<>> PROVE Len(e.out) >= Budget
  <2>1. CASE p = k
    <3>1. n # Len(q)
      BY ZenonT(60), <1>6, <1>7, <1>18, <2>1
    <3> QED BY ZenonT(60), <1>3, <1>5, <1>7, <3>1
  <2>2. CASE p # k
    <3>1. p < k /\ d.queues[p] # <<>>
      BY <1>7, <1>14, <1>18, <2>2
    <3>2. Len(d.out) >= Budget
      BY ZenonT(60), <3>1 DEF Ordered
    <3> QED BY <1>2, <1>3, <1>5, <1>7, <3>2
  <2> QED BY ZenonT(60), <2>1, <2>2
<1>19. ASSUME NEW i \in Range(e.out), NEW p \in Priorities, NEW l \in Range(e.queues[p]) PROVE Rank(i) <= Rank(l)
  <2>1. l \in Range(d.queues[p]) /\ l \in Items \ Control /\ Prio[l] = p
    BY ZenonT(60), <1>8, <1>9
  <2>2. CASE i \in Range(d.out)
    BY ZenonT(60), <2>1, <2>2 DEF Ordered
  <2>3. CASE i \notin Range(d.out)
    <3>1. n # 0 /\ Rank(i) = k + 1
      BY ZenonT(60), <1>7, <1>10, <2>3
    <3>2. d.queues[p] # <<>>
      BY <2>1 DEF Range
    <3>3. ~(p < k)
      <4>1. ~(Len(d.out) >= Budget)
        BY <1>2, <1>3, <3>1
      <4> QED BY ZenonT(60), <3>2, <4>1 DEF Ordered
    <3>4. Rank(l) = p + 1
      BY ZenonT(60), <2>1, Constants
    <3> QED BY <1>14, <3>1, <3>3, <3>4
  <2> QED BY ZenonT(60), <2>2, <2>3
<1>20. Ordered(e, k + 1)
  BY ZenonT(60), <1>17, <1>18, <1>19 DEF Ordered
<1> QED BY ZenonT(60), <1>12, <1>13, <1>20 DEF e

Start == [out |-> control, queues |-> queues]

(* A level keeps to the types whatever the pass is. *)
LEMMA PopType ==
  ASSUME NEW d \in Passes, NEW p \in Priorities
  PROVE  Popped(d, p) \in Passes
<1> DEFINE q == d.queues[p]
           n == Fits(d.out, q)
           a == d.out \o SubSeq(q, 1, n)
           b == SubSeq(q, n + 1, Len(q))
<1>1. d.out \in Seq(Items) /\ d.queues \in [Priorities -> Seq(Items \ Control)] /\ q \in Seq(Items \ Control)
  BY ZenonT(60) DEF Passes
<1>2. Len(d.out) \in Nat /\ Len(q) \in Nat /\ Budget \in Nat
  BY <1>1, Constants
<1>3. n \in 0 .. Len(q)
  <2> DEFINE L == Len(d.out)
             K == Len(q)
  <2>1. n = IF L >= Budget THEN 0 ELSE IF K < Budget - L THEN K ELSE Budget - L
    BY ZenonT(60) DEF Fits
  <2> HIDE DEF n, L, K
  <2>2. L \in Nat /\ K \in Nat /\ Budget \in Nat
    BY ZenonT(60), <1>2 DEF L, K
  <2>3. n \in 0 .. K
    BY ONLY SMT, Zenon, SMTT(60), ZenonT(60), <2>1, <2>2
  <2> QED BY ZenonT(60), <2>3 DEF K
<1> HIDE DEF n
<1>4. a \in Seq(Items) /\ b \in Seq(Items \ Control)
  <2>1. Items \ Control \subseteq Items
    BY ZenonT(60)
  <2> DEFINE s == d.out
  <2>2. s \in Seq(Items) /\ q \in Seq(Items \ Control) /\ n \in 0 .. Len(q)
    BY ZenonT(60), <1>1, <1>3
  <2> HIDE DEF q, s
  <2>3. s \o SubSeq(q, 1, n) \in Seq(Items) /\ SubSeq(q, n + 1, Len(q)) \in Seq(Items \ Control)
    BY <2>1, <2>2, Cut
  <2> QED BY ZenonT(60), <2>3 DEF s
<1>5. Popped(d, p) = [out |-> a, queues |-> [d.queues EXCEPT ![p] = b]]
  BY ZenonT(60) DEF Popped, n
<1> HIDE DEF a, b
<1>6. [d.queues EXCEPT ![p] = b] \in [Priorities -> Seq(Items \ Control)]
  BY ZenonT(60), <1>1, <1>4
<1> DEFINE w == [d.queues EXCEPT ![p] = b]
<1> HIDE DEF w
<1>7. w \in [Priorities -> Seq(Items \ Control)] /\ Popped(d, p) = [out |-> a, queues |-> w]
  BY ZenonT(60), <1>5, <1>6 DEF w
<1> QED BY <1>4, <1>7 DEF Passes

(* The whole pass: what it took and left are what was queued, each once, by
   rank; it took nothing only if there was nothing. *)
LEMMA DrainSound ==
  ASSUME Sound(Start), control \in Seq(Control)
  PROVE  /\ Sound(Drained) /\ Ordered(Drained, NumPriorities) /\ Held(Drained) = Queued
         /\ Batch = <<>> <=> Queued = {}
<1> DEFINE N == NumPriorities
           after[k \in 0 .. N] == IF k = 0 THEN Start ELSE Popped(after[k - 1], Level(k))
           F == [k \in 1 .. N |-> [d \in Passes |-> Popped(d, Level(k))]]
<1>1. N \in Nat /\ N # 0 /\ \A k \in 1 .. N : Level(k) \in Priorities /\ Level(k) = k - 1 /\ Level(k) + 1 = k /\ k - 1 \in 0 .. N
  BY Constants DEF Level
<1>2. Drained = after[N]
  BY ZenonT(60) DEF Drained, Start
<1>3. PICK f \in [0 .. N -> Passes] : f[0] = Start /\ \A k \in 1 .. N : f[k] = F[k][f[k - 1]]
  <2>1. F \in [1 .. N -> [Passes -> Passes]]
    BY ZenonT(60), <1>1, PopType
  <2>2. Start \in Passes
    BY ZenonT(60) DEF Sound
  <2> HIDE DEF F, N
  <2>3. N \in Nat
    BY ZenonT(60), <1>1
  <2>4. Runs(N, Passes, Start, F)
    BY ZenonT(60), <2>1, <2>2, <2>3, Recursion
  <2> QED BY ZenonT(60), <2>4 DEF Runs
<1>4. f = [k \in 0 .. N |-> IF k = 0 THEN Start ELSE Popped(f[k - 1], Level(k))]
  <2>1. \A k \in 1 .. N : f[k] = Popped(f[k - 1], Level(k))
    BY ZenonT(60), <1>1, <1>3
  <2>2. \A k \in 0 .. N : k = 0 \/ k \in 1 .. N
    BY <1>1
  <2>3. \A k \in 0 .. N : f[k] = IF k = 0 THEN Start ELSE Popped(f[k - 1], Level(k))
    BY ZenonT(60), <1>3, <2>1, <2>2
  <2> HIDE DEF N
  <2> QED BY ZenonT(60), <2>3
<1>5. after = [k \in 0 .. N |-> IF k = 0 THEN Start ELSE Popped(after[k - 1], Level(k))]
  BY ZenonT(60), <1>4
<1> HIDE DEF after
<1>6. after[0] = Start /\ \A k \in 1 .. N : after[k] = Popped(after[k - 1], Level(k))
  <2>1. 0 \in 0 .. N /\ \A k \in 1 .. N : k \in 0 .. N /\ k # 0
    BY <1>1
  <2> QED BY ZenonT(60), <1>5, <2>1
<1> DEFINE Done(k) == Sound(after[k]) /\ Ordered(after[k], k) /\ Held(after[k]) = Queued
           A == {k \in Nat : k > N \/ Done(k)}
<1>7. 0 \in A
  <2>1. Range(control) \subseteq Control /\ Control \subseteq Items
    BY Constants DEF Range
  <2>2. \A i \in Range(control) : Rank(i) = 0
    BY ZenonT(60), <2>1, Constants
  <2>3. \A p \in Priorities : Range(queues[p]) \subseteq Items
    BY DEF Range, Sound, Passes, Start
  <2>4. \A i \in Items : Rank(i) \in Nat
    BY ZenonT(60), Constants
  <2>5. Start.out = control /\ Start.queues = queues
    BY DEF Start
  <2>6. \A p \in Priorities : ~(p < 0)
    BY Constants
  <2>7. \A i \in Range(control), p \in Priorities : \A l \in Range(queues[p]) : Rank(i) <= Rank(l)
    BY <2>2, <2>3, <2>4
  <2>8. \A i \in Range(control) : Rank(i) <= 0
    BY <2>2
  <2>9. Ordered(Start, 0)
    BY ZenonT(60), <2>5, <2>6, <2>7, <2>8 DEF Ordered
  <2>10. Held(Start) = Queued
    BY ZenonT(60), <2>5 DEF Held, Queued
  <2> QED BY ZenonT(60), <1>6, <2>9, <2>10
<1>8. ASSUME NEW k \in A PROVE k + 1 \in A
  <2>0. k \in Nat
    BY ZenonT(60)
  <2>1. k \in Nat /\ k + 1 \in Nat
    BY ONLY SMT, Zenon, SMTT(60), ZenonT(60), <2>0
  <2>2. CASE k + 1 > N
    BY ZenonT(60), <2>1, <2>2
  <2>3. CASE ~(k + 1 > N)
    <3>1. k + 1 \in 1 .. N /\ ~(k > N) /\ k \in Priorities /\ (k + 1) - 1 = k
      BY <1>1, <2>1, <2>3, Constants
    <3>2. Done(k) /\ after[k + 1] = Popped(after[k], k)
      BY ZenonT(60), <1>1, <1>6, <3>1
    <3>3. Done(k + 1)
      BY ZenonT(60), <3>1, <3>2, PopSound
    <3> QED BY ZenonT(60), <2>1, <3>3
  <2> QED BY ZenonT(60), <2>2, <2>3
<1>9. A \subseteq Nat
  BY ZenonT(60)
<1>10. Done(N)
  <2> HIDE DEF A
  <2>1. A = Nat
    BY ZenonT(60), <1>7, <1>8, <1>9, SetInduction
  <2>2. N \in A /\ ~(N > N)
    BY <1>1, <2>1
  <2> QED BY ZenonT(60), <2>2 DEF A
<1>11. Sound(Drained) /\ Ordered(Drained, NumPriorities) /\ Held(Drained) = Queued
  BY ZenonT(60), <1>2, <1>10 DEF N
<1>12. Batch = <<>> => Queued = {}
  <2> SUFFICES ASSUME Batch = <<>> PROVE Queued = {}
    OBVIOUS
  <2>1. Len(Drained.out) = 0 /\ Range(Drained.out) = {} /\ ~(Len(Drained.out) >= Budget)
    BY Constants DEF Batch, Range
  <2>2. \A p \in Priorities : p < NumPriorities
    BY Constants
  <2>3. \A p \in Priorities : Drained.queues[p] = <<>>
    BY ZenonT(60), <1>11, <2>1, <2>2 DEF Ordered
  <2>4. \A p \in Priorities : Range(Drained.queues[p]) = {}
    BY <2>3 DEF Range
  <2> QED BY ZenonT(60), <1>11, <2>1, <2>4 DEF Held
<1>13. Queued = {} => Batch = <<>>
  <2>1. Drained.out \in Seq(Items)
    BY ZenonT(60), <1>11 DEF Sound, Passes
  <2>2. Queued = {} => Range(Drained.out) = {}
    BY ZenonT(60), <1>11 DEF Held
  <2> DEFINE s == Drained.out
  <2> HIDE DEF s
  <2>3. s \in Seq(Items) => (Range(s) = {} => s = <<>>)
    <3> SUFFICES ASSUME s \in Seq(Items), s # <<>> PROVE Range(s) # {}
      BY ZenonT(60)
    <3>1. 1 \in DOMAIN s
      OBVIOUS
    <3> QED BY ZenonT(60), <3>1 DEF Range
  <2> QED BY ZenonT(60), <2>1, <2>2, <2>3 DEF Batch, s
<1> QED BY ZenonT(60), <1>11, <1>12, <1>13

-----------------------------------------------------------------------------
(* Where a datagram is: queued, in one place of one batch, or sent. *)
InBatch(i, t) == i \in Range(batch[t])
QueueInv ==
  /\ Sound(Start) /\ control \in Seq(Control)
  /\ \A i \in Queued : i \in pushed /\ sent[i] = 0
BatchInv ==
  /\ \A t \in Threads : IsInjective(batch[t]) /\ (pc[t] = "send" <=> batch[t] # <<>>)
  /\ \A t \in Threads : \A i \in Range(batch[t]) : i \in pushed /\ i \notin Queued /\ sent[i] = 0
  /\ \A t, u \in Threads : t # u => Range(batch[t]) \cap Range(batch[u]) = {}
SentInv ==
  /\ \A i \in Items : sent[i] = 1 => i \in pushed
  /\ \A i \in pushed : i \in Queued \/ sent[i] = 1 \/ \E t \in Threads : InBatch(i, t)
PlaceInv == TypeOK /\ QueueInv /\ BatchInv /\ SentInv

(* Whoever holds the mutex between two steps found the queue empty; a thread
   that exited left nothing early behind. *)
FlushInv ==
  /\ \A t \in Threads : pc[t] \in {"suspend", "empty"} <=> lock = t
  /\ lock # "free" => Queued = {}
  /\ closed <=> drop # "alive"
  /\ \A t \in Threads : pc[t] = "exited" => drop # "alive" /\ early \cap Queued = {}
  /\ drop = "dropped" => \A t \in Threads : pc[t] = "exited"

LEMMA AppendFacts ==
  ASSUME NEW T, NEW s \in Seq(T), NEW x \in T
  PROVE  /\ Append(s, x) \in Seq(T) /\ Append(s, x) # <<>> /\ Range(Append(s, x)) = Range(s) \cup {x}
         /\ IsInjective(s) /\ x \notin Range(s) => IsInjective(Append(s, x))
<1> DEFINE a == Append(s, x)
           n == Len(s)
<1>1. /\ a \in Seq(T) /\ n \in Nat /\ DOMAIN s = 1 .. n /\ DOMAIN a = 1 .. n + 1 /\ a # <<>>
      /\ a[n + 1] = x /\ \A i \in 1 .. n : a[i] = s[i]
  OBVIOUS
<1> HIDE DEF a, n
<1>2. \A i \in 1 .. n + 1 : i \in 1 .. n \/ i = n + 1
  BY <1>1
<1>3. n + 1 \in 1 .. n + 1 /\ n + 1 \notin 1 .. n /\ \A i \in 1 .. n : i \in 1 .. n + 1
  BY <1>1
<1>4. Range(a) = Range(s) \cup {x}
  <2>1. \A y \in Range(a) : y \in Range(s) \cup {x}
    BY ZenonT(60), <1>1, <1>2 DEF Range
  <2>2. \A y \in Range(s) \cup {x} : y \in Range(a)
    BY ZenonT(60), <1>1, <1>3 DEF Range
  <2> QED BY ZenonT(60), <2>1, <2>2
<1>5. ASSUME IsInjective(s), x \notin Range(s) PROVE IsInjective(a)
  <2>1. \A i \in 1 .. n : s[i] # x
    BY ZenonT(60), <1>1, <1>5 DEF Range
  <2>2. \A i, j \in 1 .. n : s[i] = s[j] => i = j
    BY ZenonT(60), <1>1, <1>5 DEF IsInjective
  <2>3. ASSUME NEW i \in 1 .. n + 1, NEW j \in 1 .. n + 1, a[i] = a[j] PROVE i = j
    BY ZenonT(60), <1>1, <1>2, <2>1, <2>2, <2>3
  <2> QED BY ZenonT(60), <1>1, <2>3 DEF IsInjective
<1> QED BY ZenonT(60), <1>1, <1>4, <1>5 DEF a

LEMMA TailFacts ==
  ASSUME NEW T, NEW s \in Seq(T), s # <<>>, IsInjective(s)
  PROVE  /\ Head(s) \in T /\ Head(s) \in Range(s) /\ Tail(s) \in Seq(T)
         /\ Range(Tail(s)) = Range(s) \ {Head(s)} /\ IsInjective(Tail(s))
         /\ Len(s) = 1 <=> Tail(s) = <<>>
<1> DEFINE b == Tail(s)
           h == Head(s)
           n == Len(s)
<1>1. /\ b \in Seq(T) /\ n \in Nat /\ n >= 1 /\ DOMAIN s = 1 .. n /\ DOMAIN b = 1 .. n - 1 /\ h = s[1]
      /\ \A i \in 1 .. n - 1 : b[i] = s[i + 1]
  OBVIOUS
<1>2. b = <<>> <=> n = 1
  <2>1. Len(b) = n - 1 /\ Len(<<>>) = 0
    OBVIOUS
  <2>2. \A q \in Seq(T) : Len(q) = 0 => q = <<>>
    OBVIOUS
  <2> HIDE DEF b, n
  <2>3. b = <<>> => n = 1
    BY <1>1, <2>1
  <2> QED BY <1>1, <2>1, <2>2, <2>3
<1> HIDE DEF b, h, n
<1>3. 1 \in 1 .. n /\ \A i \in 1 .. n - 1 : i + 1 \in 1 .. n /\ i + 1 # 1
  BY <1>1
<1>4. \A i \in 1 .. n : i = 1 \/ (i - 1 \in 1 .. n - 1 /\ (i - 1) + 1 = i)
  BY <1>1
<1>5. \A i, j \in 1 .. n - 1 : i + 1 = j + 1 => i = j
  BY <1>1
<1>6. \A i, j \in 1 .. n : s[i] = s[j] => i = j
  BY ZenonT(60), <1>1 DEF IsInjective
<1>7. h \in Range(s) /\ h \in T
  <2>1. h \in Range(s)
    BY ZenonT(60), <1>1, <1>3 DEF Range
  <2>2. \A i \in DOMAIN s : s[i] \in T
    OBVIOUS
  <2> QED BY ZenonT(60), <1>1, <1>3, <2>1, <2>2
<1>8. Range(b) = Range(s) \ {h}
  <2>1. \A y \in Range(b) : y \in Range(s) /\ y # h
    <3> SUFFICES ASSUME NEW i \in 1 .. n - 1 PROVE b[i] \in Range(s) /\ b[i] # h
      BY ZenonT(60), <1>1 DEF Range
    <3>1. b[i] = s[i + 1] /\ i + 1 \in 1 .. n /\ i + 1 # 1
      BY ZenonT(60), <1>1, <1>3
    <3>2. b[i] # h
      BY ZenonT(60), <1>1, <1>3, <1>6, <3>1
    <3> QED BY ZenonT(60), <1>1, <3>1, <3>2 DEF Range
  <2>2. \A y \in Range(s) : y # h => y \in Range(b)
    <3> SUFFICES ASSUME NEW i \in 1 .. n, s[i] # h PROVE s[i] \in Range(b)
      BY ZenonT(60), <1>1 DEF Range
    <3>1. i - 1 \in 1 .. n - 1 /\ s[i] = b[i - 1]
      BY ZenonT(60), <1>1, <1>4
    <3> QED BY ZenonT(60), <1>1, <3>1 DEF Range
  <2> QED BY ZenonT(60), <2>1, <2>2
<1>9. IsInjective(b)
  <2>1. ASSUME NEW i \in 1 .. n - 1, NEW j \in 1 .. n - 1, b[i] = b[j] PROVE i = j
    <3>1. s[i + 1] = s[j + 1] /\ i + 1 \in 1 .. n /\ j + 1 \in 1 .. n
      BY ZenonT(60), <1>1, <1>3, <2>1
    <3> QED BY ZenonT(60), <1>5, <1>6, <3>1
  <2> QED BY ZenonT(60), <1>1, <2>1 DEF IsInjective
<1> QED BY ZenonT(60), <1>1, <1>2, <1>7, <1>8, <1>9 DEF b, h, n

LEMMA WokenFacts ==
  ASSUME TypeOK
  PROVE  /\ Woken \in [Threads -> {"enter", "suspend", "waiting", "empty", "send", "exited"}]
         /\ \A t \in Threads, c \in {"send", "exited", "suspend", "empty"} : Woken[t] = c <=> pc[t] = c
BY DEF Woken, TypeOK

(* A step that moves no datagram. *)
LEMMA StayPlace ==
  ASSUME PlaceInv, TypeOK', queueVars' = queueVars, batch' = batch, pushed' = pushed, sent' = sent,
         \A t \in Threads : pc'[t] = "send" <=> pc[t] = "send"
  PROVE  PlaceInv'
<1>1. control' = control /\ queues' = queues
  BY DEF queueVars
<1>2. Queued' = Queued /\ Start' = Start
  BY ZenonT(60), <1>1 DEF Queued, Start
<1>3. QueueInv'
  BY ZenonT(60), <1>1, <1>2 DEF PlaceInv, QueueInv, Sound
<1>4. BatchInv'
  BY ZenonT(60), <1>2 DEF PlaceInv, BatchInv
<1>5. SentInv'
  BY ZenonT(60), <1>2 DEF PlaceInv, SentInv, InBatch
<1> QED BY ZenonT(60), <1>3, <1>4, <1>5 DEF PlaceInv

LEMMA PushPlace ==
  ASSUME PlaceInv, NEW i \in Items, Push(i)
  PROVE  PlaceInv' /\ Queued' = Queued \cup {i}
<1>1. TypeOK /\ i \notin pushed /\ sent[i] = 0 /\ i \notin Queued /\ \A t \in Threads : i \notin Range(batch[t])
  <2>1. TypeOK /\ i \notin pushed /\ i \notin Queued /\ (\A t \in Threads : i \notin Range(batch[t])) /\ sent[i] # 1
    BY ZenonT(60) DEF PlaceInv, QueueInv, BatchInv, SentInv, Push
  <2>2. sent[i] \in 0 .. 1
    BY ZenonT(60), <2>1 DEF TypeOK
  <2>3. sent[i] = 0
    BY ONLY SMT, Zenon, SMTT(60), ZenonT(60), <2>1, <2>2
  <2> QED BY ZenonT(60), <2>1, <2>3
<1>2. /\ batch' = batch /\ sent' = sent /\ pushed' = pushed \cup {i} /\ pc' = Woken
      /\ lock' = lock /\ txClosed' = txClosed /\ closed' = closed /\ drop' = drop /\ io' = io /\ missed' = missed
      /\ early' \subseteq early \cup {i}
  BY DEF Push, endVars
<1>3. /\ control' \in Seq(Control) /\ queues' \in [Priorities -> Seq(Items \ Control)]
      /\ Sound(Start)' /\ Queued' = Queued \cup {i}
  <2>0. /\ control \in Seq(Control) /\ queues \in [Priorities -> Seq(Items \ Control)] /\ Sound(Start)
        /\ Start.out = control /\ Start.queues = queues /\ Start'.out = control' /\ Start'.queues = queues'
    BY ZenonT(60), <1>1 DEF PlaceInv, QueueInv, TypeOK, Start
  <2>1. /\ IsInjective(control)
        /\ \A p \in Priorities : /\ queues[p] \in Seq(Items \ Control) /\ IsInjective(queues[p])
                                 /\ \A l \in Range(queues[p]) : Prio[l] = p /\ l \notin Range(control)
    BY ZenonT(60), <2>0 DEF Sound
  <2>2. i \notin Range(control) /\ \A p \in Priorities : i \notin Range(queues[p])
    BY ZenonT(60), <1>1 DEF Queued
  <2>3. CASE i \in Control
    <3>1. control' = Append(control, i) /\ queues' = queues
      BY ZenonT(60), <2>3 DEF Push
    <3>2. control' \in Seq(Control) /\ IsInjective(control') /\ Range(control') = Range(control) \cup {i}
      <4>1. control \in Seq(Control) /\ i \in Control /\ IsInjective(control) /\ i \notin Range(control)
        BY ZenonT(60), <2>0, <2>1, <2>2, <2>3
      <4> QED BY SMTT(60), <3>1, <4>1, AppendFacts
    <3>3. Queued' = Queued \cup {i}
      BY ZenonT(60), <3>1, <3>2 DEF Queued
    <3>4. control' \in Seq(Items)
      BY <3>2, Constants
    <3>5. Start' \in Passes
      BY ZenonT(60), <2>0, <3>1, <3>4 DEF Start, Passes
    <3>6. \A p \in Priorities : /\ IsInjective(queues'[p])
                                /\ \A l \in Range(queues'[p]) : Prio[l] = p /\ l \notin Range(control')
      <4>1. \A p \in Priorities : \A l \in Range(queues[p]) : l \notin Range(control')
        <5> SUFFICES ASSUME NEW p \in Priorities, NEW l \in Range(queues[p]) PROVE l \notin Range(control')
          BY ZenonT(60)
        <5>1. i \notin Range(queues[p]) /\ l \notin Range(control)
          BY ZenonT(60), <2>1, <2>2
        <5>2. l \in Range(queues[p])
          BY ZenonT(60)
        <5>3. l # i
          BY ONLY <5>1, <5>2, SMTT(60)
        <5> QED BY ZenonT(60), <3>2, <5>1, <5>3
      <4> QED BY ZenonT(60), <2>1, <3>1, <4>1
    <3>7. Sound(Start)'
      BY ZenonT(60), <2>0, <3>2, <3>5, <3>6 DEF Sound
    <3> QED BY ZenonT(60), <2>0, <3>1, <3>2, <3>3, <3>7
  <2>4. CASE i \notin Control
    <3> DEFINE P == Prio[i]
               a == Append(queues[P], i)
    <3>1. control' = control /\ queues' = [queues EXCEPT ![P] = a]
      BY ZenonT(60), <2>4 DEF Push
    <3>2. P \in Priorities
      BY ZenonT(60), Constants
    <3>3. a \in Seq(Items \ Control) /\ IsInjective(a) /\ Range(a) = Range(queues[P]) \cup {i}
      <4>1. queues[P] \in Seq(Items \ Control) /\ i \in Items \ Control /\ IsInjective(queues[P]) /\ i \notin Range(queues[P])
        BY ZenonT(60), <2>1, <2>2, <2>4, <3>2
      <4> QED BY SMTT(60), <4>1, AppendFacts
    <3> HIDE DEF P, a
    <3>4. queues' \in [Priorities -> Seq(Items \ Control)] /\ queues'[P] = a /\ \A p \in Priorities : p # P => queues'[p] = queues[p]
      BY ZenonT(60), <2>0, <3>1, <3>2, <3>3
    <3>5. Queued' = Queued \cup {i}
      <4>1. \A l : l \in Queued' <=> l \in Range(control) \/ \E p \in Priorities : l \in Range(queues'[p])
        BY ZenonT(60), <3>1 DEF Queued
      <4>2. \A l : l \in Queued <=> l \in Range(control) \/ \E p \in Priorities : l \in Range(queues[p])
        BY ZenonT(60) DEF Queued
      <4>3. \A l : (\E p \in Priorities : l \in Range(queues'[p])) <=> l = i \/ \E p \in Priorities : l \in Range(queues[p])
        BY ZenonT(60), <3>2, <3>3, <3>4
      <4> QED BY ZenonT(60), <4>1, <4>2, <4>3
    <3>6. control' \in Seq(Items)
      BY <2>0, <3>1, Constants
    <3>7. Start' \in Passes
      BY ZenonT(60), <3>4, <3>6 DEF Start, Passes
    <3>8. ASSUME NEW p \in Priorities
          PROVE  IsInjective(queues'[p]) /\ \A l \in Range(queues'[p]) : Prio[l] = p /\ l \notin Range(control')
      <4>1. CASE p # P
        BY ZenonT(60), <2>1, <3>1, <3>4, <4>1
      <4>2. CASE p = P
        <5>1. \A l \in Range(a) : Prio[l] = P /\ l \notin Range(control)
          BY ZenonT(60), <2>1, <2>2, <3>2, <3>3 DEF P
        <5> QED BY ZenonT(60), <3>1, <3>3, <3>4, <4>2, <5>1
      <4> QED BY ZenonT(60), <4>1, <4>2
    <3>9. Sound(Start)'
      BY ZenonT(60), <2>0, <2>1, <3>1, <3>7, <3>8 DEF Sound
    <3> QED BY ZenonT(60), <2>0, <3>1, <3>4, <3>5, <3>9
  <2> QED BY ZenonT(60), <2>3, <2>4
<1>4. Woken \in [Threads -> {"enter", "suspend", "waiting", "empty", "send", "exited"}]
      /\ \A t \in Threads : Woken[t] = "send" <=> pc[t] = "send"
  BY ZenonT(60), <1>1, WokenFacts
<1>5. TypeOK'
  BY ZenonT(60), <1>1, <1>2, <1>3, <1>4 DEF TypeOK
<1>6. QueueInv'
  BY ZenonT(60), <1>1, <1>2, <1>3 DEF PlaceInv, QueueInv
<1>7. BatchInv'
  <2>1. BatchInv
    BY ZenonT(60) DEF PlaceInv
  <2>2. \A t \in Threads : IsInjective(batch'[t]) /\ (pc'[t] = "send" <=> batch'[t] # <<>>)
    BY ZenonT(60), <1>2, <1>4, <2>1 DEF BatchInv
  <2>3. \A t \in Threads : \A l \in Range(batch'[t]) : l \in pushed' /\ l \notin Queued' /\ sent'[l] = 0
    BY ZenonT(60), <1>1, <1>2, <1>3, <2>1 DEF BatchInv
  <2>4. \A t, u \in Threads : t # u => Range(batch'[t]) \cap Range(batch'[u]) = {}
    BY ZenonT(60), <1>2, <2>1 DEF BatchInv
  <2> QED BY ZenonT(60), <2>2, <2>3, <2>4 DEF BatchInv
<1>8. SentInv'
  BY ZenonT(60), <1>1, <1>2, <1>3 DEF PlaceInv, SentInv, InBatch
<1> QED BY ZenonT(60), <1>3, <1>5, <1>6, <1>7, <1>8 DEF PlaceInv

LEMMA TakePlace ==
  ASSUME PlaceInv, NEW t \in Threads, TakeBatch(t)
  PROVE  /\ PlaceInv' /\ Queued' \subseteq Queued
         /\ batch'[t] = Batch /\ Queued \ Range(Batch) = Queued' /\ Ordered(Drained, NumPriorities)
         /\ \A i \in Queued' : \E p \in Priorities : i \in Range(Drained.queues[p])
<1>1. /\ TypeOK /\ QueueInv /\ BatchInv /\ SentInv /\ pc[t] = "enter" /\ Batch # <<>>
      /\ batch' = [batch EXCEPT ![t] = Batch] /\ control' = <<>> /\ queues' = Drained.queues
      /\ pc' = [pc EXCEPT ![t] = "send"]
  BY ZenonT(60) DEF PlaceInv, TakeBatch
<1>2. /\ lock' = lock /\ txClosed' = txClosed /\ closed' = closed /\ drop' = drop /\ io' = io /\ missed' = missed
      /\ early' = early /\ pushed' = pushed /\ sent' = sent
  BY DEF TakeBatch, endVars, history
<1>3. Sound(Drained) /\ Ordered(Drained, NumPriorities) /\ Held(Drained) = Queued
  BY ZenonT(60), <1>1, DrainSound DEF QueueInv
<1>4. /\ Batch \in Seq(Items) /\ queues' \in [Priorities -> Seq(Items \ Control)] /\ IsInjective(Batch)
      /\ \A p \in Priorities : /\ IsInjective(queues'[p])
                               /\ \A i \in Range(queues'[p]) : Prio[i] = p /\ i \notin Range(Batch)
  <2>1. Drained.out \in Seq(Items) /\ Drained.queues \in [Priorities -> Seq(Items \ Control)]
    BY ZenonT(60), <1>3 DEF Sound, Passes
  <2> QED BY ZenonT(60), <1>1, <1>3, <2>1 DEF Sound, Batch
<1>5. Range(control') = {} /\ control' \in Seq(Control) /\ control' \in Seq(Items) /\ IsInjective(control')
  BY <1>1 DEF Range, IsInjective
<1>6. (\A i : i \in Queued' <=> \E p \in Priorities : i \in Range(queues'[p]))
      /\ (\A i : i \in Queued <=> i \in Range(Batch) \/ \E p \in Priorities : i \in Range(queues'[p]))
  <2>1. \A i : i \in Queued' <=> \E p \in Priorities : i \in Range(queues'[p])
    BY ZenonT(60), <1>5 DEF Queued
  <2>2. \A i : i \in Queued <=> i \in Range(Batch) \/ \E p \in Priorities : i \in Range(queues'[p])
    BY ZenonT(60), <1>1, <1>3 DEF Held, Batch
  <2> QED BY ZenonT(60), <2>1, <2>2
<1>7. Queued' = Queued \ Range(Batch)
  BY ZenonT(60), <1>4, <1>6
<1>8. batch \in [Threads -> Seq(Items)] /\ pc \in [Threads -> {"enter", "suspend", "waiting", "empty", "send", "exited"}]
  BY ZenonT(60), <1>1 DEF TypeOK
<1>9. /\ batch'[t] = Batch /\ pc'[t] = "send" /\ \A u \in Threads \ {t} : batch'[u] = batch[u] /\ pc'[u] = pc[u]
      /\ batch' \in [Threads -> Seq(Items)]
      /\ pc' \in [Threads -> {"enter", "suspend", "waiting", "empty", "send", "exited"}]
  BY ZenonT(60), <1>1, <1>4, <1>8
<1>10. batch[t] = <<>> /\ Range(batch[t]) = {}
  <2>1. batch[t] = <<>>
    BY ZenonT(60), <1>1 DEF BatchInv
  <2> QED BY <2>1 DEF Range
<1>11. TypeOK'
  BY ZenonT(60), <1>1, <1>2, <1>4, <1>5, <1>9 DEF TypeOK
<1>12. QueueInv'
  <2>1. Start'.out = control' /\ Start'.queues = queues'
    BY ZenonT(60) DEF Start
  <2>2. Start' \in Passes
    BY ZenonT(60), <1>4, <1>5 DEF Start, Passes
  <2>3. Sound(Start)'
    BY ZenonT(60), <1>4, <1>5, <2>1, <2>2 DEF Sound
  <2>4. \A i \in Queued' : i \in pushed' /\ sent'[i] = 0
    BY ZenonT(60), <1>1, <1>2, <1>7 DEF QueueInv
  <2> QED BY ZenonT(60), <1>5, <2>3, <2>4 DEF QueueInv
<1>13. BatchInv'
  <2>1. \A u \in Threads : IsInjective(batch'[u]) /\ (pc'[u] = "send" <=> batch'[u] # <<>>)
    BY ZenonT(60), <1>1, <1>4, <1>9 DEF BatchInv
  <2>2. ASSUME NEW u \in Threads, NEW i \in Range(batch'[u])
        PROVE  i \in pushed' /\ i \notin Queued' /\ sent'[i] = 0
    <3>1. CASE u = t
      <4>1. i \in Range(Batch)
        BY ZenonT(60), <1>9, <2>2, <3>1
      <4>2. i \in Queued /\ i \notin Queued'
        BY ZenonT(60), <1>6, <1>7, <4>1
      <4> QED BY ZenonT(60), <1>1, <1>2, <4>2 DEF QueueInv
    <3>2. CASE u # t
      BY ZenonT(60), <1>1, <1>2, <1>7, <1>9, <2>2, <3>2 DEF BatchInv
    <3> QED BY ZenonT(60), <3>1, <3>2
  <2>3. ASSUME NEW u \in Threads \ {t} PROVE Range(batch'[u]) \cap Range(batch'[t]) = {}
    <3>1. \A i \in Range(batch[u]) : i \notin Queued
      BY ZenonT(60), <1>1 DEF BatchInv
    <3>2. \A i \in Range(Batch) : i \in Queued
      BY ZenonT(60), <1>6
    <3> QED BY ZenonT(60), <1>9, <3>1, <3>2
  <2>4. ASSUME NEW u \in Threads, NEW v \in Threads, u # v PROVE Range(batch'[u]) \cap Range(batch'[v]) = {}
    <3>1. CASE u = t \/ v = t
      BY ZenonT(60), <2>3, <2>4, <3>1
    <3>2. CASE u # t /\ v # t
      BY ZenonT(60), <1>1, <1>9, <2>4, <3>2 DEF BatchInv
    <3> QED BY ZenonT(60), <3>1, <3>2
  <2> QED BY ZenonT(60), <2>1, <2>2, <2>4 DEF BatchInv
<1>14. SentInv'
  <2>1. \A i \in Items : sent'[i] = 1 => i \in pushed'
    BY ZenonT(60), <1>1, <1>2 DEF SentInv
  <2>2. ASSUME NEW i \in pushed' PROVE i \in Queued' \/ sent'[i] = 1 \/ \E u \in Threads : i \in Range(batch'[u])
    <3>1. i \in Queued \/ sent[i] = 1 \/ \E u \in Threads : i \in Range(batch[u])
      BY ZenonT(60), <1>1, <1>2, <2>2 DEF SentInv, InBatch
    <3>2. i \in Queued => i \in Queued' \/ i \in Range(batch'[t])
      BY ZenonT(60), <1>7, <1>9
    <3>3. \A u \in Threads : i \in Range(batch[u]) => i \in Range(batch'[u])
      BY ZenonT(60), <1>9, <1>10
    <3> QED BY ZenonT(60), <1>2, <3>1, <3>2, <3>3
  <2> QED BY ZenonT(60), <2>1, <2>2 DEF SentInv, InBatch
<1> QED BY ZenonT(60), <1>1, <1>3, <1>6, <1>7, <1>9, <1>11, <1>12, <1>13, <1>14 DEF PlaceInv

LEMMA SendPlace ==
  ASSUME PlaceInv, NEW t \in Threads, SendOne(t)
  PROVE  PlaceInv' /\ Queued' = Queued /\ batch'[t] = Tail(batch[t])
         /\ batch[t] # <<>> /\ \A u \in Threads \ {t} : batch'[u] = batch[u]
<1> DEFINE q == batch[t]
           h == Head(q)
<1>1. /\ TypeOK /\ QueueInv /\ BatchInv /\ SentInv /\ pc[t] = "send"
      /\ sent' = [sent EXCEPT ![h] = @ + 1] /\ batch' = [batch EXCEPT ![t] = Tail(q)]
      /\ pc' = [pc EXCEPT ![t] = IF Len(q) = 1 THEN "enter" ELSE "send"]
  BY ZenonT(60) DEF PlaceInv, SendOne
<1>2. /\ lock' = lock /\ txClosed' = txClosed /\ closed' = closed /\ drop' = drop /\ io' = io /\ missed' = missed
      /\ early' = early /\ pushed' = pushed /\ control' = control /\ queues' = queues
  BY DEF SendOne, endVars, queueVars
<1>3. Queued' = Queued /\ Start' = Start
  BY ZenonT(60), <1>2 DEF Queued, Start
<1>4. /\ batch \in [Threads -> Seq(Items)] /\ sent \in [Items -> 0 .. 1]
      /\ pc \in [Threads -> {"enter", "suspend", "waiting", "empty", "send", "exited"}]
      /\ q \in Seq(Items) /\ q # <<>> /\ IsInjective(q)
  BY ZenonT(60), <1>1 DEF TypeOK, BatchInv
<1>5. /\ h \in Items /\ h \in Range(q) /\ Tail(q) \in Seq(Items) /\ Range(Tail(q)) = Range(q) \ {h}
      /\ IsInjective(Tail(q)) /\ (Len(q) = 1 <=> Tail(q) = <<>>)
  BY ZenonT(60), <1>4, TailFacts
<1>6. h \in pushed /\ h \notin Queued /\ sent[h] = 0 /\ \A u \in Threads \ {t} : h \notin Range(batch[u])
  BY ZenonT(60), <1>1, <1>5 DEF BatchInv
<1>7. /\ sent' \in [Items -> 0 .. 1] /\ sent'[h] = 1 /\ \A i \in Items : i # h => sent'[i] = sent[i]
  <2> HIDE DEF h
  <2>1. sent' = [sent EXCEPT ![h] = 1]
    <3>1. sent[h] + 1 = 1
      BY <1>6
    <3> QED BY ZenonT(60), <1>1, <3>1
  <2>2. 1 \in 0 .. 1
    OBVIOUS
  <2> QED BY ZenonT(60), <1>4, <1>5, <2>1, <2>2
<1>8. /\ batch' \in [Threads -> Seq(Items)] /\ batch'[t] = Tail(q)
      /\ pc' \in [Threads -> {"enter", "suspend", "waiting", "empty", "send", "exited"}]
      /\ (pc'[t] = "send" <=> Tail(q) # <<>>)
      /\ \A u \in Threads \ {t} : batch'[u] = batch[u] /\ pc'[u] = pc[u]
  BY ZenonT(60), <1>1, <1>4, <1>5
<1>9. \A u \in Threads : Range(batch'[u]) \subseteq Range(batch[u]) /\ h \notin Range(batch'[u])
  BY ZenonT(60), <1>5, <1>6, <1>8
<1>10. TypeOK'
  BY ZenonT(60), <1>1, <1>2, <1>7, <1>8 DEF TypeOK
<1> HIDE DEF h
<1>11. \A u \in Threads : Range(batch[u]) \subseteq Items
  BY <1>4 DEF Range
<1>12. QueueInv'
  <2>1. \A i \in Queued : i \in Items /\ i # h
    BY ZenonT(60), <1>1, <1>6 DEF QueueInv, TypeOK
  <2> QED BY ZenonT(60), <1>1, <1>2, <1>3, <1>7, <2>1 DEF QueueInv, Sound
<1>13. BatchInv'
  <2>1. \A u \in Threads : IsInjective(batch'[u]) /\ (pc'[u] = "send" <=> batch'[u] # <<>>)
    BY ZenonT(60), <1>1, <1>5, <1>8 DEF BatchInv
  <2>2. ASSUME NEW u \in Threads, NEW i \in Range(batch'[u]) PROVE i \in pushed' /\ i \notin Queued' /\ sent'[i] = 0
    <3>1. i \in Range(batch[u]) /\ i # h /\ i \in Items
      BY ZenonT(60), <1>9, <1>11, <2>2
    <3> QED BY ZenonT(60), <1>1, <1>2, <1>3, <1>7, <3>1 DEF BatchInv
  <2>3. \A u, v \in Threads : u # v => Range(batch'[u]) \cap Range(batch'[v]) = {}
    BY ZenonT(60), <1>1, <1>9 DEF BatchInv
  <2> QED BY ZenonT(60), <2>1, <2>2, <2>3 DEF BatchInv
<1>14. SentInv'
  <2>1. \A i \in Items : sent'[i] = 1 => i \in pushed'
    BY ZenonT(60), <1>1, <1>2, <1>6, <1>7 DEF SentInv
  <2>2. ASSUME NEW i \in pushed' PROVE i \in Queued' \/ sent'[i] = 1 \/ \E u \in Threads : i \in Range(batch'[u])
    <3>1. CASE i = h
      BY ZenonT(60), <1>7, <3>1
    <3>2. CASE i # h
      <4>1. i \in Items
        BY ZenonT(60), <1>1, <1>2, <2>2 DEF TypeOK
      <4>2. i \in Queued \/ sent[i] = 1 \/ \E u \in Threads : i \in Range(batch[u])
        BY ZenonT(60), <1>1, <1>2, <2>2 DEF SentInv, InBatch
      <4>3. \A u \in Threads : i \in Range(batch[u]) => i \in Range(batch'[u])
        BY ZenonT(60), <1>5, <1>8, <3>2
      <4> QED BY ZenonT(60), <1>3, <1>7, <3>2, <4>1, <4>2, <4>3
    <3> QED BY ZenonT(60), <3>1, <3>2
  <2> QED BY ZenonT(60), <2>1, <2>2 DEF SentInv, InBatch
<1> QED BY ZenonT(60), <1>3, <1>4, <1>8, <1>10, <1>12, <1>13, <1>14 DEF PlaceInv

LEMMA PlaceInit == Init => PlaceInv
<1> SUFFICES ASSUME Init PROVE PlaceInv
  OBVIOUS
<1>1. TypeOK
  <2>1. \A S : <<>> \in Seq(S)
    OBVIOUS
  <2>2. 0 \in 0 .. 1
    OBVIOUS
  <2> QED BY ZenonT(60), <2>1, <2>2 DEF Init, TypeOK
<1>2. Range(<<>>) = {} /\ IsInjective(<<>>) /\ \A S : <<>> \in Seq(S)
  BY DEF Range, IsInjective
<1>3. /\ control = <<>> /\ (\A p \in Priorities : queues[p] = <<>>) /\ (\A t \in Threads : batch[t] = <<>> /\ pc[t] = "enter")
      /\ pushed = {} /\ \A i \in Items : sent[i] = 0
  BY ZenonT(60) DEF Init
<1>4. Queued = {}
  BY ZenonT(60), <1>2, <1>3 DEF Queued
<1>5. Sound(Start)
  <2>1. Start \in Passes /\ Start.out = control /\ Start.queues = queues
    BY ZenonT(60), <1>1, <1>2, <1>3 DEF Start, Passes, TypeOK
  <2> QED BY ZenonT(60), <1>2, <1>3, <2>1 DEF Sound
<1>6. QueueInv
  BY ZenonT(60), <1>2, <1>3, <1>4, <1>5 DEF QueueInv
<1>7. BatchInv
  BY ZenonT(60), <1>2, <1>3 DEF BatchInv
<1>8. SentInv
  <2>1. \A i \in Items : sent[i] # 1
    BY <1>3
  <2> QED BY ZenonT(60), <1>3, <2>1 DEF SentInv
<1> QED BY ZenonT(60), <1>1, <1>6, <1>7, <1>8 DEF PlaceInv

LEMMA PlaceStep == PlaceInv /\ [Next]_vars => PlaceInv'
<1> SUFFICES ASSUME PlaceInv, [Next]_vars PROVE PlaceInv'
  OBVIOUS
<1>1. TypeOK /\ pc \in [Threads -> {"enter", "suspend", "waiting", "empty", "send", "exited"}]
  BY ZenonT(60) DEF PlaceInv, TypeOK
<1>2. CASE UNCHANGED vars
  <2>1. /\ queueVars' = queueVars /\ batch' = batch /\ pushed' = pushed /\ sent' = sent /\ pc' = pc
        /\ control' = control /\ queues' = queues /\ lock' = lock /\ txClosed' = txClosed /\ closed' = closed
        /\ drop' = drop /\ io' = io /\ early' = early /\ missed' = missed
    BY <1>2 DEF vars, queueVars
  <2>2. TypeOK'
    BY ZenonT(60), <1>1, <2>1 DEF TypeOK
  <2> QED BY ZenonT(60), <2>1, <2>2, StayPlace
<1>3. ASSUME NEW i \in Items, Push(i) PROVE PlaceInv'
  BY ZenonT(60), <1>3, PushPlace
<1>4. ASSUME NEW t \in Threads, ThreadStep(t) PROVE PlaceInv'
  <2>1. CASE TakeBatch(t)
    BY ZenonT(60), <2>1, TakePlace
  <2>2. CASE SendOne(t)
    BY ZenonT(60), <2>2, SendPlace
  <2>3. CASE FindEmpty(t) \/ Suspend(t) \/ EmptyBatch(t)
    <3>1. /\ queueVars' = queueVars /\ batch' = batch /\ pushed' = pushed /\ sent' = sent
          /\ control' = control /\ queues' = queues /\ txClosed' = txClosed /\ closed' = closed
          /\ drop' = drop /\ io' = io /\ early' = early /\ missed' = missed
          /\ lock' \in {t, "free"} /\ pc[t] \in {"enter", "suspend", "empty"}
      BY <2>3 DEF FindEmpty, Suspend, EmptyBatch, endVars, queueVars, history
    <3>2. \E c \in {"empty", "suspend", "waiting", "exited", "enter"} : pc' = [pc EXCEPT ![t] = c]
      BY ZenonT(60), <2>3 DEF FindEmpty, Suspend, EmptyBatch
    <3>3. /\ pc' \in [Threads -> {"enter", "suspend", "waiting", "empty", "send", "exited"}]
          /\ \A u \in Threads : pc'[u] = "send" <=> pc[u] = "send"
      BY <1>1, <3>1, <3>2
    <3>4. TypeOK'
      BY ZenonT(60), <1>1, <3>1, <3>3 DEF TypeOK
    <3> QED BY ZenonT(60), <3>1, <3>3, <3>4, StayPlace
  <2> QED BY ZenonT(60), <1>4, <2>1, <2>2, <2>3 DEF ThreadStep
<1>5. CASE SetClosed \/ SetTxClosed \/ NotifyAll \/ IoExit \/ Join
  <2>1. /\ queueVars' = queueVars /\ batch' = batch /\ pushed' = pushed /\ sent' = sent
        /\ control' = control /\ queues' = queues /\ lock' = lock /\ early' = early
        /\ pc' \in {pc, Woken} /\ txClosed' \in {txClosed, TRUE} /\ closed' \in {closed, TRUE}
        /\ drop' \in {drop, "closed", "txClosed", "joining", "dropped"} /\ io' \in {io, "exited"}
    BY ZenonT(60), <1>5 DEF SetClosed, SetTxClosed, NotifyAll, IoExit, Join, queueVars, history
  <2>2. missed' \in BOOLEAN
    BY ZenonT(60), <1>1, <1>5 DEF SetClosed, SetTxClosed, NotifyAll, IoExit, Join, TypeOK
  <2>3. /\ pc' \in [Threads -> {"enter", "suspend", "waiting", "empty", "send", "exited"}]
        /\ \A t \in Threads : pc'[t] = "send" <=> pc[t] = "send"
    BY ZenonT(60), <1>1, <2>1, WokenFacts
  <2>4. TypeOK'
    BY ZenonT(60), <1>1, <2>1, <2>2, <2>3 DEF TypeOK
  <2> QED BY ZenonT(60), <2>1, <2>3, <2>4, StayPlace
<1> QED BY ZenonT(60), <1>2, <1>3, <1>4, <1>5 DEF Next

LEMMA PlaceIsOne == PlaceInv => ExactlyOnePlace
<1> SUFFICES ASSUME PlaceInv, NEW i \in Items
             PROVE  (IF i \in Queued THEN 1 ELSE 0) + sent[i] + Cardinality({t \in Threads : i \in Range(batch[t])})
                    = (IF i \in pushed THEN 1 ELSE 0)
  BY ZenonT(60) DEF PlaceInv, ExactlyOnePlace
<1> DEFINE B == {t \in Threads : i \in Range(batch[t])}
           c == Cardinality(B)
           s == sent[i]
<1>1. TypeOK /\ QueueInv /\ BatchInv /\ SentInv
  BY ZenonT(60) DEF PlaceInv
<1>2. s \in 0 .. 1
  BY ZenonT(60), <1>1 DEF TypeOK
<1>3. CASE B = {}
  <2>1. c = 0
    BY ZenonT(60), <1>3, FS_EmptySet
  <2>2. \A t \in Threads : i \notin Range(batch[t])
    BY ZenonT(60), <1>3
  <2>3. (i \in Queued => i \in pushed /\ s = 0) /\ (s = 1 => i \in pushed) /\ (i \in pushed => i \in Queued \/ s = 1)
    BY ZenonT(60), <1>1, <2>2 DEF QueueInv, SentInv, InBatch
  <2> HIDE DEF s, c
  <2>4. (IF i \in Queued THEN 1 ELSE 0) + s + c = (IF i \in pushed THEN 1 ELSE 0)
    BY <1>2, <2>1, <2>3
  <2> QED BY ZenonT(60), <2>4 DEF s, c
<1>4. CASE B # {}
  <2>1. PICK t \in Threads : i \in Range(batch[t])
    BY ZenonT(60), <1>4
  <2>2. \A u \in Threads : i \in Range(batch[u]) => u = t
    BY ZenonT(60), <1>1, <2>1 DEF BatchInv
  <2>3. B = {t}
    BY ZenonT(60), <2>1, <2>2
  <2>4. c = 1
    BY ZenonT(60), <2>3, FS_Singleton
  <2>5. i \in pushed /\ i \notin Queued /\ s = 0
    BY ZenonT(60), <1>1, <2>1 DEF BatchInv
  <2> HIDE DEF s, c
  <2>6. (IF i \in Queued THEN 1 ELSE 0) + s + c = (IF i \in pushed THEN 1 ELSE 0)
    BY <2>4, <2>5
  <2> QED BY ZenonT(60), <2>6 DEF s, c
<1> QED BY ZenonT(60), <1>3, <1>4

LEMMA PlaceAlways == Spec => []PlaceInv
BY PlaceInit, PlaceStep, PTL DEF Spec

(* However many threads drain the queue in wait_batch, every pushed datagram
   is queued, in one batch or sent, and only once. *)
THEOREM OnePlaceHolds == Spec => []ExactlyOnePlace
BY PlaceAlways, PlaceIsOne, PTL

-----------------------------------------------------------------------------
LEMMA FlushInit == Init => FlushInv
<1> SUFFICES ASSUME Init PROVE FlushInv
  OBVIOUS
<1>1. /\ lock = "free" /\ closed = FALSE /\ drop = "alive" /\ \A t \in Threads : pc[t] = "enter" /\ t # "free"
  BY ZenonT(60), TxConstants DEF Init
<1> QED BY <1>1 DEF FlushInv

LEMMA FlushStep == PlaceInv /\ FlushInv /\ [Next]_vars => FlushInv'
<1> SUFFICES ASSUME PlaceInv, FlushInv, [Next]_vars PROVE FlushInv'
  OBVIOUS
<1>1. /\ TypeOK /\ pc \in [Threads -> {"enter", "suspend", "waiting", "empty", "send", "exited"}]
      /\ early \subseteq pushed /\ drop \in {"alive", "closed", "txClosed", "joining", "dropped"}
      /\ \A t \in Threads : t # "free"
  BY ZenonT(60), TxConstants DEF PlaceInv, TypeOK
<1>2. CASE UNCHANGED vars
  <2>1. /\ control' = control /\ queues' = queues /\ lock' = lock /\ pc' = pc /\ closed' = closed
        /\ drop' = drop /\ early' = early
    BY <1>2 DEF vars
  <2>2. Queued' = Queued
    BY ZenonT(60), <2>1 DEF Queued
  <2> QED BY ZenonT(60), <2>1, <2>2 DEF FlushInv
<1>3. ASSUME NEW i \in Items, Push(i) PROVE FlushInv'
  <2>1. Queued' = Queued \cup {i}
    BY ZenonT(60), <1>3, PushPlace
  <2>2. /\ lock = "free" /\ lock' = lock /\ pc' = Woken /\ closed' = closed /\ drop' = drop /\ i \notin pushed
        /\ drop # "alive" => early' = early
    BY <1>3 DEF Push, endVars
  <2>3. \A t \in Threads : pc'[t] \in {"suspend", "empty"} <=> lock' = t
    BY ZenonT(60), <1>1, <2>2, WokenFacts DEF FlushInv
  <2>4. \A t \in Threads : pc'[t] = "exited" <=> pc[t] = "exited"
    BY ZenonT(60), <1>1, <2>2, WokenFacts
  <2>5. ASSUME NEW t \in Threads, pc'[t] = "exited" PROVE drop' # "alive" /\ early' \cap Queued' = {}
    <3>1. drop # "alive" /\ early \cap Queued = {}
      BY ZenonT(60), <2>4, <2>5 DEF FlushInv
    <3>2. i \notin early
      BY ZenonT(60), <1>1, <2>2
    <3> QED BY ZenonT(60), <2>1, <2>2, <3>1, <3>2
  <2> QED BY ZenonT(60), <2>2, <2>3, <2>4, <2>5 DEF FlushInv
<1>4. ASSUME NEW t \in Threads, ThreadStep(t) PROVE FlushInv'
  <2>1. /\ closed' = closed /\ drop' = drop /\ early' = early
    BY <1>4 DEF ThreadStep, TakeBatch, FindEmpty, Suspend, EmptyBatch, SendOne, endVars, history
  <2>2. Queued' \subseteq Queued
    <3>1. CASE TakeBatch(t)
      BY ZenonT(60), <3>1, TakePlace
    <3>2. CASE ~TakeBatch(t)
      <4>1. control' = control /\ queues' = queues
        BY <1>4, <3>2 DEF ThreadStep, FindEmpty, Suspend, EmptyBatch, SendOne, queueVars
      <4> QED BY ZenonT(60), <4>1 DEF Queued
    <3> QED BY ZenonT(60), <3>1, <3>2
  <2>3. PICK c \in {"enter", "suspend", "waiting", "empty", "send", "exited"} : pc' = [pc EXCEPT ![t] = c]
    BY ZenonT(60), <1>4 DEF ThreadStep, TakeBatch, FindEmpty, Suspend, EmptyBatch, SendOne
  <2>4. pc'[t] = c /\ \A u \in Threads \ {t} : pc'[u] = pc[u]
    BY ZenonT(60), <1>1, <2>3
  <2>5. pc[t] # "exited" /\ drop # "dropped"
    <3>1. pc[t] # "exited"
      BY ZenonT(60), <1>4 DEF ThreadStep, TakeBatch, FindEmpty, Suspend, EmptyBatch, SendOne
    <3> QED BY ZenonT(60), <3>1 DEF FlushInv
  <2>6. /\ (c \in {"suspend", "empty"} <=> lock' = t)
        /\ (lock' \notin {t, "free"} => lock' = lock)
        /\ (lock = lock' \/ lock \in {t, "free"})
        /\ (lock' # "free" => Queued = {})
        /\ (c = "exited" => closed /\ Queued = {})
        /\ (lock' = t => lock \in {t, "free"})
        /\ (lock # lock' => lock' \in {t, "free"})
    <3>1. lock = t <=> pc[t] \in {"suspend", "empty"}
      BY ZenonT(60) DEF FlushInv
    <3>2. CASE TakeBatch(t) \/ SendOne(t)
      <4>1. lock' = lock /\ pc[t] \in {"enter", "send"} /\ pc'[t] \in {"send", "enter"}
        BY <1>1, <3>2 DEF TakeBatch, SendOne
      <4>2. lock' # "free" => Queued = {}
        BY ZenonT(60), <4>1 DEF FlushInv
      <4> QED BY <2>4, <3>1, <4>1, <4>2
    <3>3. CASE FindEmpty(t)
      <4>1. lock = "free" /\ lock' = t /\ pc'[t] \in {"suspend", "empty"} /\ Batch = <<>>
        BY <1>1, <3>3 DEF FindEmpty
      <4>2. Queued = {}
        BY ZenonT(60), <4>1, DrainSound DEF PlaceInv, QueueInv
      <4> QED BY <2>4, <4>1, <4>2
    <3>4. CASE Suspend(t) \/ EmptyBatch(t)
      <4>1. lock' = "free" /\ pc[t] \in {"suspend", "empty"} /\ pc'[t] \in {"waiting", "exited", "enter"} /\ (pc'[t] = "exited" => closed)
        BY <1>1, <3>4 DEF Suspend, EmptyBatch
      <4>2. lock = t /\ Queued = {}
        BY ZenonT(60), <1>1, <3>1, <4>1 DEF FlushInv
      <4> QED BY <1>1, <2>4, <4>1, <4>2
    <3> QED BY ZenonT(60), <1>4, <3>2, <3>3, <3>4 DEF ThreadStep
  <2>7. ASSUME NEW u \in Threads PROVE pc'[u] \in {"suspend", "empty"} <=> lock' = u
    <3>1. CASE u = t
      BY ZenonT(60), <2>4, <2>6, <3>1
    <3>2. CASE u # t
      <4>1. pc'[u] = pc[u] /\ (pc[u] \in {"suspend", "empty"} <=> lock = u) /\ u # "free"
        BY ZenonT(60), <1>1, <2>4, <3>2 DEF FlushInv
      <4>2. lock' = u <=> lock = u
        BY SMTT(60), <2>6, <3>2, <4>1
      <4> QED BY ZenonT(60), <4>1, <4>2
    <3> QED BY ZenonT(60), <3>1, <3>2
  <2>8. ASSUME NEW u \in Threads, pc'[u] = "exited" PROVE drop' # "alive" /\ early' \cap Queued' = {}
    <3>1. CASE u = t
      <4>1. closed /\ Queued = {}
        BY ZenonT(60), <2>4, <2>6, <2>8, <3>1
      <4> QED BY ZenonT(60), <2>1, <2>2, <4>1 DEF FlushInv
    <3>2. CASE u # t
      <4>1. drop # "alive" /\ early \cap Queued = {}
        BY ZenonT(60), <2>4, <2>8, <3>2 DEF FlushInv
      <4> QED BY ZenonT(60), <2>1, <2>2, <4>1
    <3> QED BY ZenonT(60), <3>1, <3>2
  <2>9. lock' # "free" => Queued' = {}
    BY ZenonT(60), <2>2, <2>6
  <2> QED BY ZenonT(60), <2>1, <2>5, <2>7, <2>8, <2>9 DEF FlushInv
<1>5. CASE SetClosed \/ SetTxClosed \/ NotifyAll \/ IoExit \/ Join
  <2>1. /\ control' = control /\ queues' = queues /\ lock' = lock /\ early' = early /\ pc' \in {pc, Woken}
    BY ZenonT(60), <1>5 DEF SetClosed, SetTxClosed, NotifyAll, IoExit, Join, queueVars, history
  <2>2. Queued' = Queued
    BY ZenonT(60), <2>1 DEF Queued
  <2>3. \A t \in Threads, c \in {"send", "exited", "suspend", "empty"} : pc'[t] = c <=> pc[t] = c
    BY ZenonT(60), <1>1, <2>1, WokenFacts
  <2>4. \A t \in Threads : (pc'[t] \in {"suspend", "empty"} <=> pc[t] \in {"suspend", "empty"}) /\ (pc'[t] = "exited" <=> pc[t] = "exited")
    BY ZenonT(60), <2>3
  <2>5. /\ (closed' <=> drop' # "alive") /\ (drop # "alive" => drop' # "alive")
        /\ (drop' = "dropped" => \A t \in Threads : pc[t] = "exited")
    <3>1. CASE SetClosed
      BY <3>1 DEF SetClosed
    <3>2. CASE SetTxClosed \/ NotifyAll
      <4>1. drop \in {"closed", "txClosed"} /\ drop' \in {"txClosed", "joining"} /\ closed' = closed
        BY ZenonT(60), <3>2 DEF SetTxClosed, NotifyAll
      <4>2. closed
        BY <4>1 DEF FlushInv
      <4> QED BY <4>1, <4>2
    <3>3. CASE IoExit
      <4>1. drop' = drop /\ closed' = closed
        BY ZenonT(60), <3>3 DEF IoExit
      <4> QED BY ZenonT(60), <4>1 DEF FlushInv
    <3>4. CASE Join
      <4>1. drop = "joining" /\ drop' = "dropped" /\ closed' = closed /\ \A t \in Threads : pc[t] = "exited"
        BY ZenonT(60), <3>4 DEF Join
      <4>2. closed
        BY <4>1 DEF FlushInv
      <4> QED BY <4>1, <4>2
    <3> QED BY ZenonT(60), <1>5, <3>1, <3>2, <3>3, <3>4
  <2> QED BY ZenonT(60), <2>1, <2>2, <2>4, <2>5 DEF FlushInv
<1> QED BY ZenonT(60), <1>2, <1>3, <1>4, <1>5 DEF Next

(* send_loop keeps flushing after shutdown until the queue is empty: when the
   drop of the Transport returns, everything pushed before it was sent. *)
THEOREM FlushHolds == Spec => []FlushedBeforeDropped
<1>1. PlaceInv /\ FlushInv => FlushedBeforeDropped
  <2> SUFFICES ASSUME PlaceInv, FlushInv, drop = "dropped", NEW i \in early PROVE sent[i] = 1
    BY ZenonT(60) DEF FlushedBeforeDropped
  <2>1. \A t \in Threads : pc[t] = "exited" /\ early \cap Queued = {}
    BY ZenonT(60) DEF FlushInv
  <2>2. i \notin Queued
    BY ZenonT(60), <2>1, TxConstants
  <2>3. \A t \in Threads : batch[t] = <<>>
    BY ZenonT(60), <2>1 DEF PlaceInv, BatchInv
  <2>4. \A t \in Threads : i \notin Range(batch[t])
    BY <2>3 DEF Range
  <2>5. i \in pushed
    BY ZenonT(60) DEF PlaceInv, TypeOK
  <2> QED BY ZenonT(60), <2>2, <2>4, <2>5 DEF PlaceInv, SentInv, InBatch
<1> QED BY <1>1, PlaceAlways, FlushInit, FlushStep, PTL DEF Spec

(* A batch never leaves behind a datagram that outranks one it takes, for any
   number of levels and any FLUSH_BUDGET. *)
THEOREM HighestFirstHolds == Spec => HighestFirst
<1> DEFINE Better == \A t \in Threads : batch[t] = <<>> /\ batch'[t] # <<>> =>
                       \A taken \in Range(batch'[t]), left \in Queued \ Range(batch'[t]) : Rank(taken) <= Rank(left)
<1>1. PlaceInv /\ [Next]_vars => [Better]_vars
  <2> SUFFICES ASSUME PlaceInv, Next, NEW t \in Threads, batch[t] = <<>>, batch'[t] # <<>>,
                      NEW taken \in Range(batch'[t]), NEW left \in Queued \ Range(batch'[t])
               PROVE  Rank(taken) <= Rank(left)
    BY ZenonT(60)
  <2>1. TakeBatch(t)
    <3>1. batch' # batch
      BY ZenonT(60)
    <3>2. PICK u \in Threads : TakeBatch(u) \/ SendOne(u)
      BY ZenonT(60), <3>1 DEF Next, Push, ThreadStep, FindEmpty, Suspend, EmptyBatch, SetClosed, SetTxClosed, NotifyAll, IoExit, Join
    <3>3. ~SendOne(u)
      <4> SUFFICES ASSUME SendOne(u) PROVE FALSE
        BY ZenonT(60)
      <4>1. batch[u] # <<>> /\ \A v \in Threads \ {u} : batch'[v] = batch[v]
        BY ZenonT(60), SendPlace
      <4> QED BY ZenonT(60), <4>1
    <3>4. u = t
      <4>1. batch' = [batch EXCEPT ![u] = Batch] /\ batch \in [Threads -> Seq(Items)]
        BY ZenonT(60), <3>2, <3>3 DEF TakeBatch, PlaceInv, TypeOK
      <4> QED BY ZenonT(60), <4>1
    <3> QED BY ZenonT(60), <3>2, <3>3, <3>4
  <2>2. batch'[t] = Batch /\ Ordered(Drained, NumPriorities) /\ left \in Queued'
    BY ZenonT(60), <2>1, TakePlace
  <2>3. PICK p \in Priorities : left \in Range(Drained.queues[p])
    BY ZenonT(60), <2>1, <2>2, TakePlace
  <2>4. taken \in Range(Drained.out)
    BY ZenonT(60), <2>2 DEF Batch
  <2> QED BY ZenonT(60), <2>2, <2>3, <2>4 DEF Ordered
<1>2. Spec => [][Better]_vars
  BY <1>1, PlaceAlways, PTL DEF Spec
<1> QED BY <1>2 DEF HighestFirst
=============================================================================
