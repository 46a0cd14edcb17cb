----------------------------- MODULE KernelProofs -----------------------------
(***************************************************************************)
(* What the other modules' proofs have in common: facts about sets,        *)
(* remainders and lists, and what the operators of KernelOps preserve.     *)
(***************************************************************************)
EXTENDS KernelOps, Integers, FiniteSets, TLAPS, WellFoundedInduction,
        FiniteSetTheorems, Lists, SequenceTheorems

(* Stated for an arbitrary set of naturals; used for the ready group of    *)
(* rt_schedule, for the positions rt_ipc_list_suspend searches, and where  *)
(* a search of the firmware has to end.                                    *)
LEMMA LeastElementExists ==
  ASSUME NEW S \in SUBSET Nat, S # {}
  PROVE  \E x \in S : \A y \in S : x <= y
<1> DEFINE R == {ss \in Nat \X Nat : ss[1] < ss[2]}
<1>1. IsWellFoundedOn(R, Nat)
  BY NatLessThanWellFounded DEF OpToRel
<1>2. \A x, y \in Nat : <<y, x>> \in R <=> y < x
  OBVIOUS
<1> HIDE DEF R
<1>3. PICK x \in S : \A y \in S : ~(<<y, x>> \in R)
  BY <1>1, WFMin, Zenon
<1>4. ASSUME NEW y \in S PROVE x <= y
  <2>1. x \in Nat /\ y \in Nat
    OBVIOUS
  <2>2. ~(y < x)
    BY <1>2, <1>3, <2>1, Zenon
  <2> QED BY <2>1, <2>2
<1> QED BY <1>4

(* Induction on the naturals, over a set: the members of T. *)
LEMMA Induct ==
  ASSUME NEW T, 0 \in T, \A n \in Nat : n \in T => n + 1 \in T
  PROVE  Nat \subseteq T
<1> DEFINE S == Nat \ T
<1>1. SUFFICES ASSUME S # {} PROVE FALSE
  OBVIOUS
<1>2. PICK x \in S : \A y \in S : x <= y
  BY <1>1, LeastElementExists
<1>3. x # 0 /\ x \in Nat
  BY <1>2
<1>4. x - 1 \in Nat /\ x - 1 \notin S
  BY <1>2, <1>3
<1> QED BY <1>2, <1>3, <1>4

(* A function defined by recursion on its argument exists and has its      *)
(* values where the steps stay.                                            *)
Iteration(X, base, step, n, f) ==
  /\ f \in [0 .. n -> X]
  /\ f[0] = base /\ \A i \in 1 .. n : f[i] = step[<<i, f[i - 1]>>]

LEMMA Iterated ==
  ASSUME NEW X, NEW base \in X, NEW step, \A x \in X, i \in Nat : step[<<i, x>>] \in X
  PROVE  \A n \in Nat : \E f : Iteration(X, base, step, n, f)
<1> DEFINE Good(n, f) == Iteration(X, base, step, n, f)
           T == {n \in Nat : \E f : Good(n, f)}
<1>1. 0 \in T
  <2> DEFINE g == [i \in 0 .. 0 |-> base]
  <2>1. Good(0, g)
    BY DEF Iteration
  <2> HIDE DEF Good, g
  <2> QED BY <2>1
<1>2. ASSUME NEW n \in T PROVE n + 1 \in T
  <2>1. PICK f : Good(n, f)
    BY <1>2
  <2> DEFINE g == [i \in 0 .. n + 1 |-> IF i = n + 1 THEN step[<<i, f[n]>>] ELSE f[i]]
  <2>2. Good(n + 1, g)
    <3>0. n \in Nat
      OBVIOUS
    <3>1. f[n] \in X /\ step[<<n + 1, f[n]>>] \in X
      <4>1. n \in 0 .. n /\ n + 1 \in Nat
        BY <3>0
      <4>2. f \in [0 .. n -> X]
        BY <2>1 DEF Iteration
      <4>3. f[n] \in X
        BY <4>1, <4>2
      <4> DEFINE m == n + 1
      <4>4. m \in Nat
        BY <4>1
      <4> HIDE DEF m
      <4>5. step[<<m, f[n]>>] \in X
        BY <4>3, <4>4
      <4> QED BY <4>3, <4>5 DEF m
    <3>2. g \in [0 .. n + 1 -> X]
      BY <2>1, <3>1, <3>0 DEF Iteration
    <3>3. ASSUME NEW i \in 1 .. n + 1 PROVE g[i] = step[<<i, g[i - 1]>>]
      <4>1. CASE i = n + 1
        BY <4>1, <3>0
      <4>2. CASE i # n + 1
        BY <4>2, <3>0, <2>1 DEF Iteration
      <4> QED BY <4>1, <4>2
    <3>4. g[0] = base
      BY <2>1, <3>0 DEF Iteration
    <3> QED BY <3>2, <3>3, <3>4 DEF Iteration
  <2> HIDE DEF Good, g
  <2> QED BY <2>2
<1>3. Nat \subseteq T
  BY <1>1, <1>2, Induct
<1> HIDE DEF T
<1> QED BY <1>3 DEF T

(* Counting by a correspondence between two sets.                          *)
LEMMA SameCardinality ==
  ASSUME NEW S, NEW T, IsFiniteSet(S), NEW f \in [S -> T],
         \A x, y \in S : f[x] = f[y] => x = y,
         \A y \in T : \E x \in S : f[x] = y
  PROVE  IsFiniteSet(T) /\ Cardinality(T) = Cardinality(S)
<1>1. f \in Injection(S, T)
  BY DEF Injection, IsInjective
<1>2. f \in Surjection(S, T)
  BY DEF Surjection
<1>3. ExistsBijection(S, T)
  BY <1>1, <1>2 DEF Bijection, ExistsBijection
<1> QED BY <1>3, FS_Bijection

(* The remainder is the one number below N that is left after whole laps.  *)
LEMMA Remainder ==
  ASSUME NEW N \in Nat, N > 0, NEW q \in Int, NEW r \in 0 .. N - 1
  PROVE  (q * N + r) % N = r
<1> DEFINE n == q * N + r
           x == n \div N
           s == n % N
           j == q - x
<1>1. n \in Int /\ n = N * x + s /\ x \in Int /\ s \in 0 .. N - 1
  OBVIOUS
<1>2. n = q * N + r
  OBVIOUS
<1> HIDE DEF x, s, n
<1>3. s - r = j * N /\ j \in Int
  BY <1>1, <1>2
<1> HIDE DEF j
<1>4. CASE j >= 1
  <2>1. (j - 1) * N >= 0
    BY <1>3, <1>4
  <2> QED BY <2>1, <1>1, <1>3
<1>5. CASE j <= -1
  <2>1. (-j - 1) * N >= 0
    BY <1>3, <1>5
  <2> QED BY <2>1, <1>1, <1>3
<1>6. CASE j = 0
  BY <1>1, <1>3, <1>6
<1> QED BY <1>3, <1>4, <1>5, <1>6 DEF n, s

(* The two cases a counter or an index meets *)
LEMMA NoLap ==
  ASSUME NEW N \in Nat, NEW n \in 0 .. N - 1
  PROVE  n % N = n
<1>1. N > 0 /\ 0 * N + n = n
  OBVIOUS
<1> QED BY <1>1, Remainder

LEMMA OneLap ==
  ASSUME NEW N \in Nat, NEW n \in N .. 2 * N - 1
  PROVE  n % N = n - N
<1>1. N > 0 /\ 1 * N + (n - N) = n /\ n - N \in 0 .. N - 1
  OBVIOUS
<1>2. (1 * N + (n - N)) % N = n - N
  BY <1>1, Remainder
<1> QED BY <1>1, <1>2

-----------------------------------------------------------------------------
(* Lists *)

Injective(s) == \A i, j \in DOMAIN s : s[i] = s[j] => i = j

LEMMA LeastExists ==
  ASSUME NEW S \in SUBSET Nat, S # {}
  PROVE  LeastOf(S) \in S /\ \A y \in S : LeastOf(S) <= y
BY LeastElementExists DEF LeastOf

LEMMA LinkOutProperties ==
  ASSUME NEW S, NEW s \in Seq(S), NEW i \in 1 .. Len(s)
  PROVE  /\ LinkOut(s, i) \in Seq(S)
         /\ Len(LinkOut(s, i)) = Len(s) - 1
         /\ \A j \in 1 .. Len(s) - 1 :
              LinkOut(s, i)[j] = IF j < i THEN s[j] ELSE s[j + 1]
<1> DEFINE u == SubSeq(s, 1, i - 1)
           v == SubSeq(s, i + 1, Len(s))
           w == u \o v
<1>1. /\ u \in Seq(S)
      /\ Len(u) = i - 1
      /\ \A j \in 1 .. i - 1 : u[j] = s[j]
  BY SubSeqProperties
<1>2. /\ v \in Seq(S)
      /\ Len(v) = Len(s) - i
      /\ \A j \in 1 .. Len(s) - i : v[j] = s[i + j]
  BY SubSeqProperties
<1>3. LinkOut(s, i) = w
  BY DEF LinkOut
<1> HIDE DEF u, v
<1>4. /\ w \in Seq(S)
      /\ Len(w) = Len(u) + Len(v)
      /\ \A j \in 1 .. Len(u) + Len(v) :
           w[j] = IF j <= Len(u) THEN u[j] ELSE v[j - Len(u)]
  BY <1>1, <1>2, ConcatProperties, Zenon
<1> HIDE DEF w
<1>5. ASSUME NEW j \in 1 .. Len(s) - 1
      PROVE  w[j] = IF j < i THEN s[j] ELSE s[j + 1]
  <2>1. CASE j < i
    <3>1. j <= Len(u) /\ j \in 1 .. i - 1 /\ j \in 1 .. Len(u) + Len(v)
      BY <2>1, <1>1, <1>2
    <3> QED BY <2>1, <3>1, <1>1, <1>4
  <2>2. CASE ~(j < i)
    <3>1. ~(j <= Len(u)) /\ j \in 1 .. Len(u) + Len(v)
          /\ j - Len(u) = j - i + 1 /\ j - i + 1 \in 1 .. Len(s) - i
          /\ i + (j - i + 1) = j + 1
      BY <2>2, <1>1, <1>2
    <3> QED BY <2>2, <3>1, <1>2, <1>4
  <2> QED BY <2>1, <2>2
<1>6. Len(w) = Len(s) - 1
  BY <1>1, <1>2, <1>4
<1> QED BY <1>3, <1>4, <1>5, <1>6

LEMMA LinkInProperties ==
  ASSUME NEW S, NEW s \in Seq(S), NEW i \in 1 .. Len(s) + 1, NEW t \in S
  PROVE  /\ LinkIn(s, i, t) \in Seq(S)
         /\ Len(LinkIn(s, i, t)) = Len(s) + 1
         /\ \A j \in 1 .. Len(s) + 1 :
              LinkIn(s, i, t)[j] =
                IF j < i THEN s[j] ELSE IF j = i THEN t ELSE s[j - 1]
<1> DEFINE u == SubSeq(s, 1, i - 1)
           v == SubSeq(s, i, Len(s))
           x == u \o <<t>>
           w == x \o v
<1>1. /\ u \in Seq(S)
      /\ Len(u) = i - 1
      /\ \A j \in 1 .. i - 1 : u[j] = s[j]
  BY SubSeqProperties
<1>2. /\ v \in Seq(S)
      /\ Len(v) = Len(s) - i + 1
      /\ \A j \in 1 .. Len(s) - i + 1 : v[j] = s[i + j - 1]
  BY SubSeqProperties
<1>3. LinkIn(s, i, t) = w
  BY DEF LinkIn
<1> HIDE DEF u, v
<1>4. /\ <<t>> \in Seq(S)
      /\ Len(<<t>>) = 1
      /\ <<t>>[1] = t
  OBVIOUS
<1>5. /\ x \in Seq(S)
      /\ Len(x) = Len(u) + Len(<<t>>)
      /\ \A j \in 1 .. Len(u) + Len(<<t>>) :
           x[j] = IF j <= Len(u) THEN u[j] ELSE <<t>>[j - Len(u)]
  BY <1>1, <1>4, ConcatProperties, Zenon
<1>6. /\ x \in Seq(S)
      /\ Len(x) = i
      /\ \A j \in 1 .. i : x[j] = IF j < i THEN s[j] ELSE t
  BY <1>1, <1>4, <1>5
<1> HIDE DEF x
<1>7. /\ w \in Seq(S)
      /\ Len(w) = Len(x) + Len(v)
      /\ \A j \in 1 .. Len(x) + Len(v) :
           w[j] = IF j <= Len(x) THEN x[j] ELSE v[j - Len(x)]
  BY <1>2, <1>6, ConcatProperties, Zenon
<1> HIDE DEF w
<1>8. ASSUME NEW j \in 1 .. Len(s) + 1
      PROVE  w[j] = IF j < i THEN s[j] ELSE IF j = i THEN t ELSE s[j - 1]
  <2>1. CASE j <= i
    BY <2>1, <1>2, <1>6, <1>7
  <2>2. CASE ~(j <= i)
    <3>1. w[j] = v[j - i]
      BY <2>2, <1>2, <1>6, <1>7
    <3>2. v[j - i] = s[i + (j - i) - 1]
      BY <2>2, <1>2
    <3> QED BY <2>2, <3>1, <3>2
  <2> QED BY <2>1, <2>2
<1>9. Len(w) = Len(s) + 1
  BY <1>2, <1>6, <1>7
<1> QED BY <1>3, <1>7, <1>8, <1>9

(* rt_list_remove takes the node out and leaves the others in their order. *)
LEMMA DropProperties ==
  ASSUME NEW S, NEW s \in Seq(S), Injective(s), NEW t
  PROVE  /\ Drop(s, t) \in Seq(S)
         /\ Injective(Drop(s, t))
         /\ \A u : IsIn(Drop(s, t), u) <=> IsIn(s, u) /\ u # t
<1>1. CASE ~IsIn(s, t)
  BY <1>1 DEF Drop, IsIn
<1>2. CASE IsIn(s, t)
  <2> DEFINE n == CHOOSE i \in DOMAIN s : s[i] = t
             d == LinkOut(s, n)
  <2>1. n \in 1 .. Len(s) /\ s[n] = t
    BY <1>2 DEF IsIn
  <2>2. Drop(s, t) = d
    BY <1>2 DEF Drop
  <2> HIDE DEF n
  <2>3. /\ d \in Seq(S)
        /\ Len(d) = Len(s) - 1
        /\ \A j \in 1 .. Len(s) - 1 : d[j] = IF j < n THEN s[j] ELSE s[j + 1]
    BY <2>1, LinkOutProperties
  <2> HIDE DEF d
  <2>4. DOMAIN d = 1 .. Len(s) - 1 /\ DOMAIN s = 1 .. Len(s) /\ Len(s) \in Nat
    BY <2>3
  <2>5. Injective(d)
    BY <2>1, <2>3, <2>4 DEF Injective
  <2>6. ASSUME NEW u PROVE IsIn(d, u) <=> IsIn(s, u) /\ u # t
    <3>1. ASSUME IsIn(d, u) PROVE IsIn(s, u) /\ u # t
      <4>1. PICK j \in 1 .. Len(s) - 1 : d[j] = u
        BY <3>1, <2>4 DEF IsIn
      <4>2. PICK m \in 1 .. Len(s) : m # n /\ s[m] = u
        BY <4>1, <2>1, <2>3
      <4> QED BY <4>2, <2>1, <2>4 DEF IsIn, Injective
    <3>2. ASSUME IsIn(s, u), u # t PROVE IsIn(d, u)
      <4>1. PICK m \in 1 .. Len(s) : s[m] = u
        BY <3>2, <2>4 DEF IsIn
      <4>2. m # n
        BY <4>1, <3>2, <2>1
      <4>3. CASE m < n
        <5>1. m \in 1 .. Len(s) - 1 /\ d[m] = u
          BY <4>1, <4>3, <2>1, <2>3
        <5> QED BY <5>1, <2>4 DEF IsIn
      <4>4. CASE m > n
        <5>1. m - 1 \in 1 .. Len(s) - 1 /\ d[m - 1] = u
          BY <4>1, <4>4, <2>1, <2>3
        <5> QED BY <5>1, <2>4 DEF IsIn
      <4> QED BY <4>2, <4>3, <4>4, <2>1
    <3> QED BY <3>1, <3>2
  <2> QED BY <2>2, <2>3, <2>5, <2>6
<1> QED BY <1>1, <1>2

(* A list with one more node: the others stay, the new one is there once.  *)
LEMMA LinkInList ==
  ASSUME NEW S, NEW s \in Seq(S), Injective(s), NEW t \in S, ~IsIn(s, t),
         NEW i \in 1 .. Len(s) + 1
  PROVE  /\ LinkIn(s, i, t) \in Seq(S)
         /\ Injective(LinkIn(s, i, t))
         /\ \A u : IsIn(LinkIn(s, i, t), u) <=> IsIn(s, u) \/ u = t
<1> DEFINE w == LinkIn(s, i, t)
<1>1. /\ w \in Seq(S)
      /\ Len(w) = Len(s) + 1
      /\ \A j \in 1 .. Len(s) + 1 :
           w[j] = IF j < i THEN s[j] ELSE IF j = i THEN t ELSE s[j - 1]
  BY LinkInProperties
<1>0. w = LinkIn(s, i, t)
  OBVIOUS
<1> HIDE DEF w
<1>2. DOMAIN w = 1 .. Len(s) + 1 /\ DOMAIN s = 1 .. Len(s) /\ Len(s) \in Nat
  BY <1>1
<1>3. \A j \in 1 .. Len(s) : s[j] # t
  BY <1>2 DEF IsIn
<1>4. Injective(w)
  <2> SUFFICES ASSUME NEW m \in 1 .. Len(s) + 1, NEW n \in 1 .. Len(s) + 1,
                      m < n, w[m] = w[n]
               PROVE  FALSE
    BY <1>2 DEF Injective
  <2>1. CASE n < i
    BY <2>1, <1>1, <1>2 DEF Injective
  <2>2. CASE n = i
    BY <2>2, <1>1, <1>3
  <2>3. CASE m = i
    BY <2>3, <1>1, <1>3
  <2>4. CASE m < i /\ n > i
    BY <2>4, <1>1, <1>2 DEF Injective
  <2>5. CASE m > i
    <3>1. /\ m - 1 \in 1 .. Len(s) /\ n - 1 \in 1 .. Len(s) /\ m - 1 # n - 1
          /\ w[m] = s[m - 1] /\ w[n] = s[n - 1]
      BY <2>5, <1>1, <1>2
    <3> QED BY <3>1, <1>2 DEF Injective
  <2> QED BY <2>1, <2>2, <2>3, <2>4, <2>5
<1>5. ASSUME NEW u PROVE IsIn(w, u) <=> IsIn(s, u) \/ u = t
  <2>1. ASSUME IsIn(w, u) PROVE IsIn(s, u) \/ u = t
    <3>1. PICK j \in 1 .. Len(s) + 1 : w[j] = u
      BY <2>1, <1>2 DEF IsIn
    <3>2. u = t \/ \E m \in 1 .. Len(s) : s[m] = u
      BY <3>1, <1>1
    <3> QED BY <3>2, <1>2 DEF IsIn
  <2>2. ASSUME IsIn(s, u) PROVE IsIn(w, u)
    <3>1. PICK m \in 1 .. Len(s) : s[m] = u
      BY <2>2, <1>2 DEF IsIn
    <3>2. CASE m < i
      <4>1. m \in 1 .. Len(s) + 1 /\ w[m] = u
        BY <3>1, <3>2, <1>1
      <4> QED BY <4>1, <1>2 DEF IsIn
    <3>3. CASE m >= i
      <4>1. m + 1 \in 1 .. Len(s) + 1 /\ w[m + 1] = u
        BY <3>1, <3>3, <1>1
      <4> QED BY <4>1, <1>2 DEF IsIn
    <3> QED BY <3>2, <3>3
  <2>3. ASSUME u = t PROVE IsIn(w, u)
    BY <2>3, <1>1, <1>2 DEF IsIn
  <2> QED BY <2>1, <2>2, <2>3
<1> QED BY <1>0, <1>1, <1>4, <1>5

(* The order of a list that is searched for the place of a new node        *)
Sorted(s, key) == \A i, j \in DOMAIN s : i < j => key[s[i]] <= key[s[j]]

LEMMA SortedDrop ==
  ASSUME NEW S, NEW s \in Seq(S), NEW key, Sorted(s, key), NEW t
  PROVE  Sorted(Drop(s, t), key)
<1>1. CASE ~IsIn(s, t)
  BY <1>1 DEF Drop
<1>2. CASE IsIn(s, t)
  <2> DEFINE n == CHOOSE i \in DOMAIN s : s[i] = t
             d == LinkOut(s, n)
  <2>1. n \in 1 .. Len(s)
    BY <1>2 DEF IsIn
  <2>2. Drop(s, t) = d
    BY <1>2 DEF Drop
  <2> HIDE DEF n
  <2>3. /\ d \in Seq(S)
        /\ Len(d) = Len(s) - 1
        /\ \A j \in 1 .. Len(s) - 1 : d[j] = IF j < n THEN s[j] ELSE s[j + 1]
    BY <2>1, LinkOutProperties
  <2> HIDE DEF d
  <2>4. DOMAIN d = 1 .. Len(s) - 1 /\ DOMAIN s = 1 .. Len(s) /\ Len(s) \in Nat
    BY <2>3
  <2>5. ASSUME NEW i \in 1 .. Len(s) - 1, NEW j \in 1 .. Len(s) - 1, i < j
        PROVE  key[d[i]] <= key[d[j]]
    <3>1. PICK a \in 1 .. Len(s) : d[i] = s[a] /\ a = IF i < n THEN i ELSE i + 1
      BY <2>1, <2>3, <2>4
    <3>2. PICK b \in 1 .. Len(s) : d[j] = s[b] /\ b = IF j < n THEN j ELSE j + 1
      BY <2>1, <2>3, <2>4
    <3>3. a < b
      BY <2>1, <2>5, <3>1, <3>2
    <3> QED BY <2>4, <3>1, <3>2, <3>3 DEF Sorted
  <2> QED BY <2>2, <2>4, <2>5 DEF Sorted
<1> QED BY <1>1, <1>2

(* The place of a node: behind those with a key as small, before the rest. *)
LEMMA SortedLinkIn ==
  ASSUME NEW S, NEW key \in [S -> Int], NEW s \in Seq(S), Sorted(s, key), NEW t \in S,
         NEW n \in 1 .. Len(s) + 1,
         \A i \in 1 .. Len(s) : i < n => key[s[i]] <= key[t],
         n = Len(s) + 1 \/ key[t] <= key[s[n]]
  PROVE  Sorted(LinkIn(s, n, t), key)
<1> DEFINE d == LinkIn(s, n, t)
<1>1. /\ d \in Seq(S) /\ Len(d) = Len(s) + 1
      /\ \A j \in 1 .. Len(s) + 1 :
           d[j] = IF j < n THEN s[j] ELSE IF j = n THEN t ELSE s[j - 1]
  BY LinkInProperties
<1>2. Sorted(d, key) <=> \A i, j \in 1 .. Len(s) + 1 : i < j => key[d[i]] <= key[d[j]]
  <2>1. DOMAIN d = 1 .. Len(s) + 1
    BY <1>1
  <2> QED BY <2>1 DEF Sorted
<1> HIDE DEF d
<1>3. DOMAIN s = 1 .. Len(s) /\ Len(s) \in Nat
  OBVIOUS
<1>6. key[t] \in Int /\ \A i \in 1 .. Len(s) : s[i] \in S /\ key[s[i]] \in Int
  OBVIOUS
<1>7. \A i, j \in 1 .. Len(s) : i < j => key[s[i]] <= key[s[j]]
  BY <1>3 DEF Sorted
<1>9. \A i \in 1 .. Len(s) : n <= i => key[t] <= key[s[i]]
  <2> SUFFICES ASSUME NEW i \in 1 .. Len(s), n <= i PROVE key[t] <= key[s[i]]
    OBVIOUS
  <2>1. n \in 1 .. Len(s) /\ key[t] <= key[s[n]]
    BY <1>3
  <2>2. key[s[n]] <= key[s[i]]
    <3>1. CASE n = i
      BY <1>6, <2>1, <3>1
    <3>2. CASE n < i
      BY <1>7, <2>1, <3>2
    <3> QED BY <3>1, <3>2
  <2> QED BY <1>6, <2>1, <2>2
<1>10. ASSUME NEW i \in 1 .. Len(s) + 1, NEW j \in 1 .. Len(s) + 1, i < j
       PROVE  key[d[i]] <= key[d[j]]
  <2>1. CASE j < n
    <3>1. d[i] = s[i] /\ d[j] = s[j] /\ i \in 1 .. Len(s) /\ j \in 1 .. Len(s)
      BY <1>1, <1>3, <1>10, <2>1
    <3> QED BY <1>7, <1>10, <3>1
  <2>2. CASE j = n
    <3>1. d[j] = t /\ i \in 1 .. Len(s) /\ i < n /\ d[i] = s[i]
      BY <1>1, <1>3, <1>10, <2>2
    <3> QED BY  <3>1
  <2>3. CASE j > n
    <3>1. d[j] = s[j - 1] /\ j - 1 \in 1 .. Len(s) /\ n <= j - 1
      BY <1>1, <1>3, <1>10, <2>3
    <3>2. CASE i < n
      <4>1. d[i] = s[i] /\ i \in 1 .. Len(s) /\ i < j - 1
        BY <1>1, <1>3, <2>3, <3>2
      <4> QED BY <1>7, <3>1, <4>1
    <3>3. CASE i = n
      BY <1>1, <1>9, <3>1, <3>3
    <3>4. CASE i > n
      <4>1. d[i] = s[i - 1] /\ i - 1 \in 1 .. Len(s) /\ i - 1 < j - 1
        BY <1>1, <1>3, <1>10, <3>4
      <4> QED BY <1>7, <3>1, <4>1
    <3> QED BY <3>2, <3>3, <3>4
  <2> QED BY <2>1, <2>2, <2>3
<1> QED BY <1>2, <1>10 DEF d

-----------------------------------------------------------------------------
(* The operators of KernelOps.  Its lists are only used through two facts, *)
(* which list a thread is in (IsIn) and that no thread is in a list twice, *)
(* so each lemma about a list operator says what it does to those two.     *)

(* A list with one more node: the others stay, the new one is there once.  *)
AddsTo(s2, s, t) ==
  /\ s2 \in Seq(Thread)
  /\ Injective(s2)
  /\ \A u : IsIn(s2, u) <=> IsIn(s, u) \/ u = t

LEMMA InsertAtList ==
  ASSUME NEW s \in Seq(Thread), Injective(s), NEW t \in Thread, ~IsIn(s, t),
         NEW i \in 1 .. Len(s) + 1
  PROVE  AddsTo(LinkIn(s, i, t), s, t)
BY LinkInList DEF AddsTo

LEMMA AppendList ==
  ASSUME NEW s \in Seq(Thread), Injective(s), NEW t \in Thread, ~IsIn(s, t)
  PROVE  AddsTo(Append(s, t), s, t)
<1> DEFINE w == Append(s, t)
<1>1. /\ w \in Seq(Thread)
      /\ Len(w) = Len(s) + 1
      /\ \A j \in 1 .. Len(s) : w[j] = s[j]
      /\ w[Len(s) + 1] = t
  BY AppendProperties
<1>0. w = Append(s, t)
  OBVIOUS
<1> HIDE DEF w
<1>2. DOMAIN w = 1 .. Len(s) + 1 /\ DOMAIN s = 1 .. Len(s) /\ Len(s) \in Nat
  BY <1>1
<1>3. \A j \in 1 .. Len(s) : s[j] # t
  BY <1>2 DEF IsIn
<1>4. Injective(w)
  BY <1>1, <1>2, <1>3 DEF Injective
<1>5. \A u : IsIn(w, u) <=> IsIn(s, u) \/ u = t
  BY <1>1, <1>2 DEF IsIn
<1> QED BY <1>0, <1>1, <1>4, <1>5 DEF AddsTo

LEMMA EmptyList ==
  ASSUME NEW s \in Seq(Thread)
  PROVE  s # <<>> <=> \E u \in Thread : IsIn(s, u)
BY DEF IsIn

-----------------------------------------------------------------------------
(* The lists of a kernel *)

(* OneList on the field, the form the operators on lists are proved for.   *)
ListsOK(L) ==
  /\ L \in [ListHeads -> Seq(Thread)]
  /\ \A h \in ListHeads : Injective(L[h])
  /\ \A g, h \in ListHeads, t \in Thread : IsIn(L[g], t) /\ IsIn(L[h], t) => g = h

Unlinked(L, t) == \A h \in ListHeads : ~IsIn(L[h], t)

(* rt_list_remove unlinks the thread and leaves every other one where it   *)
(* is.                                                                     *)
LEMMA RemoveFromLists ==
  ASSUME NEW L, ListsOK(L), NEW t \in Thread, NEW L2,
         L2 = [h \in ListHeads |-> Drop(L[h], t)]
  PROVE  /\ ListsOK(L2)
         /\ Unlinked(L2, t)
         /\ \A h \in ListHeads, u \in Thread :
              IsIn(L2[h], u) <=> IsIn(L[h], u) /\ u # t
<1>1. ASSUME NEW h \in ListHeads
      PROVE  /\ L2[h] \in Seq(Thread)
             /\ Injective(L2[h])
             /\ \A u : IsIn(L2[h], u) <=> IsIn(L[h], u) /\ u # t
  <2>1. L[h] \in Seq(Thread) /\ Injective(L[h])
    BY DEF ListsOK
  <2>2. L2[h] = Drop(L[h], t)
    OBVIOUS
  <2> QED BY <2>1, <2>2, DropProperties
<1>2. L2 \in [ListHeads -> Seq(Thread)]
  <2>1. \A h \in ListHeads : Drop(L[h], t) \in Seq(Thread)
    BY <1>1
  <2> QED BY <2>1
<1>3. ListsOK(L2)
  BY <1>1, <1>2, Zenon DEF ListsOK
<1>4. Unlinked(L2, t)
  BY <1>1 DEF Unlinked
<1> QED BY <1>1, <1>3, <1>4

(* Linking a thread that is in no list, in a list that becomes s.          *)
Put(L, h, s) == [L EXCEPT ![h] = s]

LEMMA InsertInLists ==
  ASSUME NEW L, ListsOK(L), NEW t \in Thread, Unlinked(L, t),
         NEW h \in ListHeads, NEW s, AddsTo(s, L[h], t),
         NEW L2, L2 = Put(L, h, s)
  PROVE  /\ ListsOK(L2)
         /\ \A g \in ListHeads, u \in Thread :
              IsIn(L2[g], u) <=> IsIn(L[g], u) \/ (g = h /\ u = t)
<1>1. L2 \in [ListHeads -> Seq(Thread)]
  BY DEF ListsOK, AddsTo, Put
<1>2. L2[h] = s /\ \A g \in ListHeads \ {h} : L2[g] = L[g]
  BY DEF ListsOK, Put
<1>3. \A g \in ListHeads, u \in Thread :
        IsIn(L2[g], u) <=> IsIn(L[g], u) \/ (g = h /\ u = t)
  BY <1>2, Zenon DEF AddsTo
<1>4. \A g \in ListHeads : Injective(L2[g])
  BY <1>2, Zenon DEF ListsOK, AddsTo
<1>5. \A f, g \in ListHeads, u \in Thread : IsIn(L2[f], u) /\ IsIn(L2[g], u) => f = g
  <2> SUFFICES ASSUME NEW f \in ListHeads, NEW g \in ListHeads, NEW u \in Thread,
                      IsIn(L2[f], u), IsIn(L2[g], u)
               PROVE  f = g
    OBVIOUS
  <2>1. CASE u = t
    BY <1>3, <2>1 DEF Unlinked
  <2>2. CASE u # t
    BY <1>3, <2>2 DEF ListsOK
  <2> QED BY <2>1, <2>2
<1> QED BY <1>1, <1>3, <1>4, <1>5 DEF ListsOK

LEMMA KernelFields ==
  ASSUME NEW k, k \in Kernel
  PROVE  /\ k.stat \in [Thread -> Stat]
         /\ k.prio \in [Thread -> Prio]
         /\ k.lists \in [ListHeads -> Seq(Thread)]
         /\ k.group \in SUBSET Prio
         /\ k.armed \in SUBSET Thread
         /\ k.err \in [Thread -> Error]
         /\ k.cur \in Thread
         /\ k.nest \in Nat
BY DEF Kernel

LEMMA OneListLists ==
  ASSUME NEW k, k \in Kernel
  PROVE  OneList(k) <=> ListsOK(k.lists)
BY KernelFields DEF OneList, ListsOK, Injective

LEMMA HeadsAreHeads ==
  /\ \A p \in Prio : Ready(p) \in ListHeads
  /\ \A q \in WaitQueue : Wait(q) \in ListHeads
  /\ \A p, r \in Prio : Ready(p) = Ready(r) => p = r
  /\ \A q, r \in WaitQueue : Wait(q) = Wait(r) => q = r
  /\ \A p \in Prio, q \in WaitQueue : Ready(p) # Wait(q)
  /\ Defunct \in ListHeads
  /\ \A p \in Prio : Ready(p) # Defunct
BY DEF ListHeads, ReadyLists, Ready, Wait, Defunct

-----------------------------------------------------------------------------
(* The operations of thread.c *)

(* rt_thread_suspend of a READY thread: it is in no list afterwards, its   *)
(* timer is stopped and nothing else moved.                                *)
LEMMA SuspendProperties ==
  ASSUME NEW k, KernelOK(k), NEW t \in Thread, k.stat[t] = "READY",
         NEW u, u = Suspend(k, t)
  PROVE  /\ KernelOK(u)
         /\ Unlinked(u.lists, t)
         /\ u.stat = Put(k.stat, t, "SUSPEND")
         /\ u.prio = k.prio /\ u.cur = k.cur /\ u.nest = k.nest /\ u.err = k.err
         /\ u.armed = k.armed \ {t}
         /\ \A h \in ListHeads, x \in Thread \ {t} :
              IsIn(u.lists[h], x) <=> IsIn(k.lists[h], x)
<1> DEFINE L == [h \in ListHeads |-> Drop(k.lists[h], t)]
           g == IF L[Ready(k.prio[t])] = <<>> THEN k.group \ {k.prio[t]} ELSE k.group
<1>0. k \in Kernel /\ ListsOK(k.lists) /\ ReadyListed(k) /\ GroupExact(k) /\ TimersOfSuspended(k)
  BY OneListLists DEF KernelOK
<1>1. /\ u.stat = Put(k.stat, t, "SUSPEND")
      /\ u.prio = k.prio /\ u.cur = k.cur /\ u.nest = k.nest /\ u.err = k.err
      /\ u.armed = k.armed \ {t}
      /\ u.lists = L
      /\ u.group = g
  BY <1>0 DEF Suspend, TimerStop, RemoveReady, ListRemove, Kernel, Put
<1>2. /\ ListsOK(L)
      /\ Unlinked(L, t)
      /\ \A h \in ListHeads, x \in Thread : IsIn(L[h], x) <=> IsIn(k.lists[h], x) /\ x # t
  BY <1>0, RemoveFromLists
<1>3. u \in Kernel
  <2>1. u = [k EXCEPT !.stat = u.stat, !.armed = u.armed, !.lists = u.lists, !.group = u.group]
    BY <1>0 DEF Suspend, TimerStop, RemoveReady, ListRemove, Kernel
  <2>2. /\ u.stat \in [Thread -> Stat] /\ u.armed \in SUBSET Thread
        /\ u.lists \in [ListHeads -> Seq(Thread)] /\ u.group \in SUBSET Prio
    BY <1>0, <1>1, <1>2, KernelFields DEF ListsOK, Stat, Put
  <2> QED BY <1>0, <2>1, <2>2 DEF Kernel
<1> HIDE DEF L, g
<1>4. ReadyListed(u)
  <2> SUFFICES ASSUME NEW x \in Thread, NEW p \in Prio
               PROVE  IsIn(L[Ready(p)], x) <=> u.stat[x] = "READY" /\ k.prio[x] = p
    BY <1>1 DEF ReadyListed
  <2>1. IsIn(L[Ready(p)], x) <=> IsIn(k.lists[Ready(p)], x) /\ x # t
    BY <1>2, HeadsAreHeads
  <2>2. IsIn(k.lists[Ready(p)], x) <=> k.stat[x] = "READY" /\ k.prio[x] = p
    BY <1>0 DEF ReadyListed
  <2>3. u.stat[x] = IF x = t THEN "SUSPEND" ELSE k.stat[x]
    BY <1>0, <1>1, KernelFields DEF Put
  <2> QED BY <2>1, <2>2, <2>3
<1>5. GroupExact(u)
  <2> SUFFICES ASSUME NEW p \in Prio
               PROVE  p \in g <=> L[Ready(p)] # <<>>
    <3>1. g \in SUBSET Prio
      BY <1>1, <1>3, KernelFields
    <3> QED BY <1>1, <3>1 DEF GroupExact
  <2>1. p \in k.group <=> k.lists[Ready(p)] # <<>>
    BY <1>0 DEF GroupExact
  <2>2. CASE p = k.prio[t]
    <3>1. p \in k.group
      <4>1. IsIn(k.lists[Ready(p)], t)
        BY <1>0, <2>2 DEF ReadyListed
      <4>2. k.lists[Ready(p)] # <<>>
        BY <4>1, <1>0, KernelFields, HeadsAreHeads, EmptyList
      <4> QED BY <4>2, <2>1
    <3> QED BY <2>2, <3>1 DEF g
  <2>3. CASE p # k.prio[t]
    <3>1. p \in g <=> p \in k.group
      BY <2>3 DEF g
    <3>2. ~IsIn(k.lists[Ready(p)], t)
      BY <1>0, <2>3 DEF ReadyListed
    <3>3. \A x \in Thread : IsIn(L[Ready(p)], x) <=> IsIn(k.lists[Ready(p)], x)
      BY <1>2, <3>2, HeadsAreHeads
    <3>4. L[Ready(p)] \in Seq(Thread) /\ k.lists[Ready(p)] \in Seq(Thread)
      BY <1>0, <1>2, HeadsAreHeads DEF ListsOK
    <3> QED BY <2>1, <3>1, <3>3, <3>4, EmptyList
  <2> QED BY <2>2, <2>3
<1>6. TimersOfSuspended(u)
  BY <1>0, <1>1, KernelFields DEF TimersOfSuspended, Put
<1>7. OneList(u)
  BY <1>1, <1>2, <1>3, OneListLists
<1> QED BY <1>1, <1>2, <1>3, <1>4, <1>5, <1>6, <1>7 DEF KernelOK

(* rt_schedule_insert_thread of a thread that is suspended, in no list and *)
(* without a timer.                                                        *)
LEMMA InsertReadyProperties ==
  ASSUME NEW k, KernelOK(k), NEW t \in Thread, k.stat[t] # "READY",
         Unlinked(k.lists, t), t \notin k.armed,
         NEW u, u = InsertReady(k, t)
  PROVE  /\ KernelOK(u)
         /\ u.stat = Put(k.stat, t, "READY")
         /\ u.prio = k.prio /\ u.cur = k.cur /\ u.nest = k.nest /\ u.err = k.err
         /\ u.armed = k.armed
         /\ \A h \in ListHeads, x \in Thread :
              IsIn(u.lists[h], x)
                <=> IsIn(k.lists[h], x) \/ (h = Ready(k.prio[t]) /\ x = t)
<1> DEFINE r == Ready(k.prio[t])
           s == Append(k.lists[r], t)
           L == [k.lists EXCEPT ![r] = s]
<1>0. k \in Kernel /\ ListsOK(k.lists) /\ ReadyListed(k) /\ GroupExact(k) /\ TimersOfSuspended(k)
  BY OneListLists DEF KernelOK
<1>1. k.prio[t] \in Prio /\ r \in ListHeads
  BY <1>0, KernelFields, HeadsAreHeads
<1>2. /\ u.stat = Put(k.stat, t, "READY")
      /\ u.prio = k.prio /\ u.cur = k.cur /\ u.nest = k.nest /\ u.err = k.err
      /\ u.armed = k.armed
      /\ u.lists = L
      /\ u.group = k.group \cup {k.prio[t]}
  BY <1>0 DEF InsertReady, InsertLast, Kernel, Put
<1>3. u \in Kernel
  <2>1. u = [k EXCEPT !.stat = u.stat, !.lists = u.lists, !.group = u.group]
    BY <1>0 DEF InsertReady, InsertLast, Kernel
  <2>2. s \in Seq(Thread)
    BY <1>0, <1>1, KernelFields
  <2>3. /\ u.stat \in [Thread -> Stat]
        /\ u.lists \in [ListHeads -> Seq(Thread)] /\ u.group \in SUBSET Prio
    BY <1>0, <1>1, <1>2, <2>2, KernelFields DEF Stat, Put
  <2> QED BY <1>0, <2>1, <2>3 DEF Kernel
<1>4. AddsTo(s, k.lists[r], t)
  <2>1. k.lists[r] \in Seq(Thread) /\ Injective(k.lists[r]) /\ ~IsIn(k.lists[r], t)
    BY <1>0, <1>1 DEF ListsOK, Unlinked
  <2> QED BY <2>1, AppendList
<1>41. L = Put(k.lists, r, s)
  BY DEF Put
<1> HIDE DEF r, s, L
<1>5. /\ ListsOK(L)
      /\ \A h \in ListHeads, x \in Thread :
           IsIn(L[h], x) <=> IsIn(k.lists[h], x) \/ (h = r /\ x = t)
  BY <1>0, <1>1, <1>4, <1>41, InsertInLists
<1>6. ReadyListed(u)
  <2> SUFFICES ASSUME NEW x \in Thread, NEW p \in Prio
               PROVE  IsIn(L[Ready(p)], x) <=> u.stat[x] = "READY" /\ k.prio[x] = p
    BY <1>2 DEF ReadyListed
  <2>1. IsIn(L[Ready(p)], x) <=> IsIn(k.lists[Ready(p)], x) \/ (Ready(p) = r /\ x = t)
    BY <1>5, HeadsAreHeads
  <2>2. IsIn(k.lists[Ready(p)], x) <=> k.stat[x] = "READY" /\ k.prio[x] = p
    BY <1>0 DEF ReadyListed
  <2>3. u.stat[x] = IF x = t THEN "READY" ELSE k.stat[x]
    BY <1>0, <1>2, KernelFields DEF Put
  <2>4. Ready(p) = r <=> p = k.prio[t]
    BY <1>1, HeadsAreHeads DEF r
  <2> QED BY <2>1, <2>2, <2>3, <2>4
<1>7. GroupExact(u)
  <2> SUFFICES ASSUME NEW p \in Prio
               PROVE  p \in u.group <=> L[Ready(p)] # <<>>
    <3>1. u.group \in SUBSET Prio
      BY <1>3, KernelFields
    <3> QED BY <1>2, <3>1 DEF GroupExact
  <2>1. p \in k.group <=> k.lists[Ready(p)] # <<>>
    BY <1>0 DEF GroupExact
  <2>2. L[Ready(p)] \in Seq(Thread) /\ k.lists[Ready(p)] \in Seq(Thread)
    BY <1>0, <1>5, HeadsAreHeads DEF ListsOK
  <2>3. \A x \in Thread : IsIn(L[Ready(p)], x)
           <=> IsIn(k.lists[Ready(p)], x) \/ (p = k.prio[t] /\ x = t)
    BY <1>1, <1>5, HeadsAreHeads DEF r
  <2>4. CASE p = k.prio[t]
    BY <2>2, <2>3, <2>4, <1>2, EmptyList
  <2>5. CASE p # k.prio[t]
    BY <2>1, <2>2, <2>3, <2>5, <1>2, EmptyList
  <2> QED BY <2>4, <2>5
<1>8. TimersOfSuspended(u)
  BY <1>0, <1>2, KernelFields DEF TimersOfSuspended, Put
<1>9. OneList(u)
  BY <1>2, <1>3, <1>5, OneListLists
<1> QED BY <1>2, <1>3, <1>5, <1>6, <1>7, <1>8, <1>9 DEF KernelOK, r

(* thread->error and rt_current_thread are not part of the promises.       *)
LEMMA OtherFields ==
  ASSUME NEW k, KernelOK(k), NEW u, u \in Kernel,
         u.stat = k.stat, u.prio = k.prio, u.lists = k.lists,
         u.group = k.group, u.armed = k.armed
  PROVE  KernelOK(u)
<1>1. OneList(u)
  BY DEF KernelOK, OneList
<1>2. ReadyListed(u)
  BY DEF KernelOK, ReadyListed
<1>3. GroupExact(u)
  BY DEF KernelOK, GroupExact
<1>4. TimersOfSuspended(u)
  BY DEF KernelOK, TimersOfSuspended
<1> QED BY <1>1, <1>2, <1>3, <1>4 DEF KernelOK

LEMMA SetError ==
  ASSUME NEW k, KernelOK(k), NEW t \in Thread, NEW e \in Error
  PROVE  LET u == WithError(k, t, e)
         IN  /\ KernelOK(u)
             /\ u.stat = k.stat /\ u.prio = k.prio /\ u.lists = k.lists
             /\ u.group = k.group /\ u.armed = k.armed /\ u.cur = k.cur /\ u.nest = k.nest
             /\ u.err = Put(k.err, t, e)
<1> DEFINE u == WithError(k, t, e)
<1>1. k \in Kernel
  BY DEF KernelOK
<1>2. u \in Kernel
  BY <1>1 DEF Kernel, WithError
<1>3. /\ u.stat = k.stat /\ u.prio = k.prio /\ u.lists = k.lists
      /\ u.group = k.group /\ u.armed = k.armed /\ u.cur = k.cur /\ u.nest = k.nest
      /\ u.err = Put(k.err, t, e)
  BY <1>1 DEF Kernel, WithError, Put
<1> HIDE DEF u
<1>4. KernelOK(u)
  BY <1>2, <1>3, OtherFields
<1> QED BY <1>3, <1>4 DEF u

(* The wake-up half of rt_thread_resume and rt_thread_timeout: a suspended *)
(* thread leaves the wait list it is in and becomes READY.                 *)
LEMMA WakeProperties ==
  ASSUME NEW k, KernelOK(k), NEW t \in Thread, k.stat[t] = "SUSPEND",
         NEW v, v \in Kernel, NEW u, u = InsertReady(v, t),
         v.stat = k.stat, v.prio = k.prio, v.group = k.group,
         v.cur = k.cur, v.nest = k.nest, v.err = k.err,
         v.armed = k.armed \ {t},
         v.lists = [h \in ListHeads |-> Drop(k.lists[h], t)]
  PROVE  /\ KernelOK(u)
         /\ u.stat = Put(k.stat, t, "READY")
         /\ u.prio = k.prio /\ u.cur = k.cur /\ u.nest = k.nest /\ u.err = k.err
         /\ u.armed = k.armed \ {t}
         /\ \A q \in WaitQueue, x \in Thread :
              IsIn(u.lists[Wait(q)], x) <=> IsIn(k.lists[Wait(q)], x) /\ x # t
<1>0. k \in Kernel /\ ListsOK(k.lists) /\ ReadyListed(k) /\ GroupExact(k) /\ TimersOfSuspended(k)
  BY OneListLists DEF KernelOK
<1>1. /\ ListsOK(v.lists)
      /\ Unlinked(v.lists, t)
      /\ \A h \in ListHeads, x \in Thread :
           IsIn(v.lists[h], x) <=> IsIn(k.lists[h], x) /\ x # t
  BY <1>0, RemoveFromLists
<1>2. \A p \in Prio, x \in Thread : IsIn(v.lists[Ready(p)], x) <=> IsIn(k.lists[Ready(p)], x)
  BY <1>0, <1>1, HeadsAreHeads DEF ReadyListed
<1>3. KernelOK(v)
  <2>1. OneList(v)
    BY <1>1, OneListLists
  <2>2. ReadyListed(v)
    BY <1>0, <1>2 DEF ReadyListed
  <2>3. GroupExact(v)
    <3>1. ASSUME NEW p \in Prio
          PROVE  v.lists[Ready(p)] # <<>> <=> k.lists[Ready(p)] # <<>>
      <4>1. v.lists[Ready(p)] \in Seq(Thread) /\ k.lists[Ready(p)] \in Seq(Thread)
        BY <1>0, <1>1, HeadsAreHeads DEF ListsOK
      <4> QED BY <4>1, <1>2, EmptyList
    <3> QED BY <1>0, <3>1 DEF GroupExact
  <2>4. TimersOfSuspended(v)
    BY <1>0 DEF TimersOfSuspended
  <2> QED BY <2>1, <2>2, <2>3, <2>4 DEF KernelOK
<1>4. v.stat[t] # "READY" /\ t \notin v.armed
  OBVIOUS
<1>5. /\ KernelOK(u)
      /\ u.stat = Put(v.stat, t, "READY")
      /\ u.prio = v.prio /\ u.cur = v.cur /\ u.nest = v.nest /\ u.err = v.err
      /\ u.armed = v.armed
      /\ \A h \in ListHeads, x \in Thread :
           IsIn(u.lists[h], x)
             <=> IsIn(v.lists[h], x) \/ (h = Ready(v.prio[t]) /\ x = t)
  BY <1>1, <1>3, <1>4, InsertReadyProperties
<1>6. ASSUME NEW q \in WaitQueue, NEW x \in Thread
      PROVE  IsIn(u.lists[Wait(q)], x) <=> IsIn(k.lists[Wait(q)], x) /\ x # t
  <2>1. v.prio[t] \in Prio
    BY <1>0, KernelFields
  <2>2. Wait(q) \in ListHeads /\ Wait(q) # Ready(v.prio[t])
    BY <2>1, HeadsAreHeads
  <2> QED BY <1>1, <1>5, <2>2
<1> QED BY <1>5, <1>6

(* rt_thread_resume with interrupts disabled *)
LEMMA ResumeProperties ==
  ASSUME NEW k, KernelOK(k), NEW t \in Thread, k.stat[t] = "SUSPEND"
  PROVE  LET u == Resume(k, t)
         IN  /\ KernelOK(u)
             /\ u.stat = Put(k.stat, t, "READY")
             /\ u.prio = k.prio /\ u.cur = k.cur /\ u.nest = k.nest /\ u.err = k.err
             /\ u.armed = k.armed \ {t}
             /\ \A q \in WaitQueue, x \in Thread :
                  IsIn(u.lists[Wait(q)], x) <=> IsIn(k.lists[Wait(q)], x) /\ x # t
<1> DEFINE u == Resume(k, t)
           v == ResumeUnlink(k, t)
<1>0. k \in Kernel /\ ListsOK(k.lists)
  BY OneListLists DEF KernelOK
<1>1. u = InsertReady(v, t)
  BY DEF Resume
<1>2. v = [k EXCEPT !.lists = [h \in ListHeads |-> Drop(k.lists[h], t)],
                    !.armed = k.armed \ {t}]
  BY <1>0 DEF ResumeUnlink, TimerStop, ListRemove, Kernel
<1> HIDE DEF v
<1>3. /\ v.stat = k.stat /\ v.prio = k.prio /\ v.group = k.group
      /\ v.cur = k.cur /\ v.nest = k.nest /\ v.err = k.err
      /\ v.armed = k.armed \ {t}
      /\ v.lists = [h \in ListHeads |-> Drop(k.lists[h], t)]
  BY <1>0, <1>2 DEF Kernel
<1>4. v \in Kernel
  <2>1. ListsOK(v.lists)
    BY <1>0, <1>3, RemoveFromLists
  <2>2. v.lists \in [ListHeads -> Seq(Thread)]
    BY <2>1 DEF ListsOK
  <2> QED BY <1>0, <1>2, <1>3, <2>2 DEF Kernel
<1> QED BY <1>1, <1>3, <1>4, WakeProperties

(* rt_schedule: with the scheduler unlocked the most urgent READY thread   *)
(* is the current one afterwards.                                          *)
LEMMA ScheduleProperties ==
  ASSUME NEW k, KernelOK(k), NEW x \in Thread, k.stat[x] = "READY"
  PROVE  LET u == Schedule(k)
         IN  /\ KernelOK(u)
             /\ u.stat = k.stat /\ u.prio = k.prio /\ u.lists = k.lists
             /\ u.armed = k.armed /\ u.err = k.err /\ u.nest = k.nest
             /\ k.nest # 0 => u.cur = k.cur
             /\ k.nest = 0 =>
                  /\ u.stat[u.cur] = "READY"
                  /\ \A t \in Thread : k.stat[t] = "READY" => k.prio[u.cur] <= k.prio[t]
<1> DEFINE u == Schedule(k)
<1>0. k \in Kernel /\ ListsOK(k.lists) /\ ReadyListed(k) /\ GroupExact(k)
  BY OneListLists DEF KernelOK
<1>1. ASSUME NEW t \in Thread, k.stat[t] = "READY"
      PROVE  k.prio[t] \in k.group
  <2>1. k.prio[t] \in Prio /\ IsIn(k.lists[Ready(k.prio[t])], t)
    BY <1>0, <1>1, KernelFields DEF ReadyListed
  <2>2. k.lists[Ready(k.prio[t])] # <<>>
    BY <2>1, <1>0, KernelFields, HeadsAreHeads, EmptyList
  <2> QED BY <1>0, <2>1, <2>2 DEF GroupExact
<1>2. k.group # {} /\ k.group \in SUBSET Nat
  BY <1>0, <1>1, PrioAssumption, KernelFields
<1> DEFINE p == LeastOf(k.group)
           c == Highest(k)
<1>3. p \in k.group /\ \A r \in k.group : p <= r
  BY <1>2, LeastExists
<1>5. c = k.lists[Ready(p)][1]
  BY DEF Highest
<1> HIDE DEF p, c
<1>4. p \in Prio /\ k.lists[Ready(p)] # <<>> /\ k.lists[Ready(p)] \in Seq(Thread)
  <2>1. p \in Prio
    BY <1>0, <1>3, KernelFields
  <2>2. k.lists[Ready(p)] # <<>>
    BY <1>0, <1>3, <2>1 DEF GroupExact
  <2> QED BY <1>0, <2>1, <2>2, KernelFields, HeadsAreHeads
<1>6. c \in Thread /\ IsIn(k.lists[Ready(p)], c)
  BY <1>4, <1>5 DEF IsIn
<1>7. k.stat[c] = "READY" /\ k.prio[c] = p
  BY <1>0, <1>4, <1>6 DEF ReadyListed
<1>8. CASE k.nest = 0
  <2>1. u = [k EXCEPT !.cur = c]
    BY <1>8 DEF Schedule, c
  <2>2. /\ u \in Kernel
        /\ u.stat = k.stat /\ u.prio = k.prio /\ u.lists = k.lists /\ u.group = k.group
        /\ u.armed = k.armed /\ u.err = k.err /\ u.nest = k.nest /\ u.cur = c
    BY <1>0, <1>6, <2>1 DEF Kernel
  <2>3. KernelOK(u)
    BY <2>2, OtherFields
  <2>4. \A t \in Thread : k.stat[t] = "READY" => k.prio[c] <= k.prio[t]
    BY <1>1, <1>3, <1>7
  <2> HIDE DEF u
  <2>5. u.stat[u.cur] = "READY"
    BY <1>7, <2>2
  <2> QED BY <1>8, <2>2, <2>3, <2>4, <2>5 DEF u
<1>9. CASE k.nest # 0
  BY <1>9 DEF Schedule
<1> QED BY <1>8, <1>9

(* rt_thread_timeout in the tick interrupt: like a resume, with the error  *)
(* code of the wait set and a schedule.                                    *)
LEMMA TimeoutProperties ==
  ASSUME NEW k, KernelOK(k), NEW t \in Thread, t \in k.armed
  PROVE  LET u == Timeout(k, t)
         IN  /\ KernelOK(u)
             /\ k.stat[t] = "SUSPEND"
             /\ u.stat = Put(k.stat, t, "READY")
             /\ u.prio = k.prio /\ u.nest = k.nest
             /\ u.err = Put(k.err, t, "ETIMEOUT")
             /\ u.armed = k.armed \ {t}
             /\ k.nest = 0 => u.stat[u.cur] = "READY"
             /\ k.nest # 0 => u.cur = k.cur
             /\ \A q \in WaitQueue, x \in Thread :
                  IsIn(u.lists[Wait(q)], x) <=> IsIn(k.lists[Wait(q)], x) /\ x # t
<1> DEFINE u == Timeout(k, t)
           a == WithError(k, t, "ETIMEOUT")
           v == ListRemove(TimerStop(a, t), t)
           w == InsertReady(v, t)
<1>0. k \in Kernel /\ t \in Thread /\ k.stat[t] = "SUSPEND"
  BY KernelFields DEF KernelOK, TimersOfSuspended
<1>1. /\ KernelOK(a)
      /\ a.stat = k.stat /\ a.prio = k.prio /\ a.lists = k.lists
      /\ a.group = k.group /\ a.armed = k.armed /\ a.cur = k.cur /\ a.nest = k.nest
      /\ a.err = Put(k.err, t, "ETIMEOUT")
  BY <1>0, SetError DEF Error
<1>2. u = Schedule(w) /\ w = InsertReady(v, t)
  BY DEF Timeout
<1> HIDE DEF a, w
<1>3. v = [a EXCEPT !.lists = [h \in ListHeads |-> Drop(a.lists[h], t)],
                    !.armed = a.armed \ {t}]
  BY <1>1 DEF TimerStop, ListRemove, KernelOK, Kernel
<1> HIDE DEF v
<1>4. /\ v.stat = a.stat /\ v.prio = a.prio /\ v.group = a.group
      /\ v.cur = a.cur /\ v.nest = a.nest /\ v.err = a.err
      /\ v.armed = a.armed \ {t}
      /\ v.lists = [h \in ListHeads |-> Drop(a.lists[h], t)]
  BY <1>1, <1>3 DEF KernelOK, Kernel
<1>5. v \in Kernel
  <2>1. ListsOK(a.lists)
    BY <1>1, OneListLists DEF KernelOK
  <2>2. ListsOK(v.lists)
    BY <1>0, <1>4, <2>1, RemoveFromLists
  <2>3. v.lists \in [ListHeads -> Seq(Thread)]
    BY <2>2 DEF ListsOK
  <2> QED BY <1>1, <1>3, <1>4, <2>3 DEF Kernel, KernelOK
<1>6. a.stat[t] = "SUSPEND"
  BY <1>0, <1>1
<1>7. /\ KernelOK(w)
      /\ w.stat = Put(a.stat, t, "READY")
      /\ w.prio = a.prio /\ w.cur = a.cur /\ w.nest = a.nest /\ w.err = a.err
      /\ w.armed = a.armed \ {t}
      /\ \A q \in WaitQueue, x \in Thread :
           IsIn(w.lists[Wait(q)], x) <=> IsIn(a.lists[Wait(q)], x) /\ x # t
  BY <1>0, <1>1, <1>2, <1>4, <1>5, <1>6, WakeProperties
<1>8. KernelOK(w) /\ w.stat[t] = "READY" /\ w.nest = k.nest /\ w.cur = k.cur
  BY <1>0, <1>1, <1>7, KernelFields DEF Put
<1>9. /\ KernelOK(u)
      /\ u.stat = w.stat /\ u.prio = w.prio /\ u.lists = w.lists
      /\ u.armed = w.armed /\ u.err = w.err /\ u.nest = w.nest
      /\ k.nest = 0 => u.stat[u.cur] = "READY"
      /\ k.nest # 0 => u.cur = k.cur
  BY <1>0, <1>2, <1>8, ScheduleProperties
<1> QED BY <1>0, <1>1, <1>7, <1>9

(* rt_thread_yield: whatever it does to the ready list, the thread that    *)
(* runs afterwards is READY if the one before was.                         *)
LEMMA YieldProperties ==
  ASSUME NEW k, KernelOK(k)
  PROVE  LET u == Yield(k)
         IN  /\ KernelOK(u)
             /\ u.stat = k.stat /\ u.prio = k.prio /\ u.nest = k.nest /\ u.err = k.err
             /\ u.armed = k.armed
             /\ u.cur = k.cur \/ u.stat[u.cur] = "READY"
             /\ k.nest # 0 => u.cur = k.cur
             /\ \A q \in WaitQueue : u.lists[Wait(q)] = k.lists[Wait(q)]
<1> DEFINE u == Yield(k)
           t == k.cur
           r == Ready(k.prio[t])
           v == ListRemove(k, t)
           w == InsertLast(v, r, t)
<1>0. k \in Kernel /\ ListsOK(k.lists) /\ ReadyListed(k) /\ GroupExact(k) /\ TimersOfSuspended(k)
  BY OneListLists DEF KernelOK
<1>1. t \in Thread /\ k.prio[t] \in Prio /\ r \in ListHeads
  BY <1>0, KernelFields, HeadsAreHeads
<1>2. CASE k.stat[t] = "READY" /\ Len(k.lists[r]) > 1
  <2>1. u = Schedule(w)
    BY <1>2 DEF Yield
  <2> DEFINE L == [h \in ListHeads |-> Drop(k.lists[h], t)]
             s == Append(L[r], t)
             M == [L EXCEPT ![r] = s]
  <2>2. w = [k EXCEPT !.lists = M]
    BY <1>0, <1>1 DEF InsertLast, ListRemove, Kernel
  <2>3. M = Put(L, r, s)
    BY DEF Put
  <2>4. /\ ListsOK(L)
        /\ Unlinked(L, t)
        /\ \A h \in ListHeads, u_1 \in Thread :
             IsIn(L[h], u_1) <=> IsIn(k.lists[h], u_1) /\ u_1 # t
    BY <1>0, <1>1, RemoveFromLists
  <2>5. AddsTo(s, L[r], t)
    <3>1. L[r] \in Seq(Thread) /\ Injective(L[r]) /\ ~IsIn(L[r], t)
      BY <1>1, <2>4, Zenon DEF ListsOK, Unlinked
    <3> QED BY <1>1, <3>1, AppendList
  <2> HIDE DEF L, s, M
  <2>6. /\ ListsOK(M)
        /\ \A h \in ListHeads, x \in Thread :
             IsIn(M[h], x) <=> IsIn(L[h], x) \/ (h = r /\ x = t)
    BY <1>1, <2>3, <2>4, <2>5, InsertInLists
  <2>7. \A h \in ListHeads, x \in Thread : IsIn(M[h], x) <=> IsIn(k.lists[h], x)
    <3>1. IsIn(k.lists[r], t)
      BY <1>0, <1>1, <1>2 DEF ReadyListed
    <3>2. \A h \in ListHeads : IsIn(k.lists[h], t) => h = r
      BY <1>0, <1>1, <3>1 DEF ListsOK
    <3> QED BY <2>4, <2>6, <3>1, <3>2
  <2>8. /\ w \in Kernel
        /\ w.stat = k.stat /\ w.prio = k.prio /\ w.group = k.group /\ w.lists = M
        /\ w.cur = k.cur /\ w.nest = k.nest /\ w.err = k.err /\ w.armed = k.armed
    BY <1>0, <2>2, <2>6 DEF Kernel, ListsOK
  <2>9. KernelOK(w)
    <3>1. OneList(w)
      BY <2>6, <2>8, OneListLists
    <3>2. ReadyListed(w)
      BY <1>0, <2>7, <2>8, HeadsAreHeads DEF ReadyListed
    <3>3. GroupExact(w)
      <4>1. ASSUME NEW p \in Prio
            PROVE  M[Ready(p)] # <<>> <=> k.lists[Ready(p)] # <<>>
        <5>1. M[Ready(p)] \in Seq(Thread) /\ k.lists[Ready(p)] \in Seq(Thread)
          BY <1>0, <2>6, HeadsAreHeads DEF ListsOK
        <5> QED BY <5>1, <2>7, HeadsAreHeads, EmptyList
      <4> QED BY <1>0, <2>8, <4>1 DEF GroupExact
    <3>4. TimersOfSuspended(w)
      BY <1>0, <2>8 DEF TimersOfSuspended
    <3> QED BY <2>8, <3>1, <3>2, <3>3, <3>4 DEF KernelOK
  <2>10. \A q \in WaitQueue : w.lists[Wait(q)] = k.lists[Wait(q)]
    <3> SUFFICES ASSUME NEW q \in WaitQueue PROVE M[Wait(q)] = k.lists[Wait(q)]
      BY <2>8
    <3>1. Wait(q) \in ListHeads /\ Wait(q) # r
      BY <1>1, HeadsAreHeads
    <3>2. ~IsIn(k.lists[Wait(q)], t)
      BY <1>0, <1>1, <1>2, <3>1 DEF ListsOK, ReadyListed
    <3> QED BY <3>1, <3>2 DEF M, L, Drop
  <2>11. w.stat[t] = "READY"
    BY <1>1, <1>2, <2>8
  <2> HIDE DEF w
  <2>12. /\ KernelOK(u)
         /\ u.stat = w.stat /\ u.prio = w.prio /\ u.lists = w.lists
         /\ u.armed = w.armed /\ u.err = w.err /\ u.nest = w.nest
         /\ k.nest = 0 => u.stat[u.cur] = "READY"
         /\ k.nest # 0 => u.cur = w.cur
    BY <1>1, <2>1, <2>8, <2>9, <2>11, ScheduleProperties
  <2> QED BY <2>8, <2>10, <2>12
<1>3. CASE ~(k.stat[t] = "READY" /\ Len(k.lists[r]) > 1)
  BY <1>3 DEF Yield
<1> QED BY <1>2, <1>3

(* A READY thread is in no wait list. *)
LEMMA ReadyNotWaiting ==
  ASSUME NEW k, k \in Kernel, ListsOK(k.lists), ReadyListed(k),
         NEW t \in Thread, k.stat[t] = "READY", NEW q \in WaitQueue
  PROVE  ~IsIn(k.lists[Wait(q)], t)
<1>1. k.prio[t] \in Prio
  BY KernelFields
<1>2. IsIn(k.lists[Ready(k.prio[t])], t)
  BY <1>1 DEF ReadyListed
<1>3. Ready(k.prio[t]) \in ListHeads /\ Wait(q) \in ListHeads /\ Ready(k.prio[t]) # Wait(q)
  BY <1>1, HeadsAreHeads
<1> QED BY <1>2, <1>3 DEF ListsOK

(* rt_thread_control changing a priority: a READY thread moves to the      *)
(* ready list of its new priority, and no wait list changes.               *)
LEMMA ChangePriorityProperties ==
  ASSUME NEW k, KernelOK(k), NEW t \in Thread, NEW p \in Prio,
         k.stat[t] \in {"READY", "SUSPEND"}
  PROVE  LET u == ChangePriority(k, t, p)
         IN  /\ KernelOK(u)
             /\ u.prio = Put(k.prio, t, p)
             /\ u.stat = k.stat /\ u.cur = k.cur /\ u.nest = k.nest /\ u.err = k.err
             /\ u.armed = k.armed
             /\ \A q \in WaitQueue : u.lists[Wait(q)] = k.lists[Wait(q)]
<1> DEFINE u == ChangePriority(k, t, p)
<1>0. k \in Kernel /\ ListsOK(k.lists) /\ ReadyListed(k) /\ GroupExact(k) /\ TimersOfSuspended(k)
  BY OneListLists DEF KernelOK
<1>1. CASE k.stat[t] = "READY"
  <2> DEFINE v == Suspend(k, t)
             z == [v EXCEPT !.prio = Put(k.prio, t, p)]
             r == Ready(p)
  <2>1. /\ KernelOK(v)
        /\ Unlinked(v.lists, t)
        /\ v.stat = Put(k.stat, t, "SUSPEND")
        /\ v.prio = k.prio /\ v.cur = k.cur /\ v.nest = k.nest /\ v.err = k.err
        /\ v.armed = k.armed \ {t}
        /\ \A h \in ListHeads, x \in Thread \ {t} :
             IsIn(v.lists[h], x) <=> IsIn(k.lists[h], x)
    BY <1>1, SuspendProperties
  <2>2. t \notin k.armed /\ v.armed = k.armed
    BY <1>0, <1>1, <2>1 DEF TimersOfSuspended
  <2>3. v \in Kernel /\ ListsOK(v.lists) /\ ReadyListed(v) /\ GroupExact(v) /\ TimersOfSuspended(v)
    BY <2>1, OneListLists DEF KernelOK
  <2>4. /\ z \in Kernel
        /\ z.prio = Put(k.prio, t, p)
        /\ z.stat = v.stat /\ z.lists = v.lists /\ z.group = v.group
        /\ z.cur = v.cur /\ z.nest = v.nest /\ z.err = v.err /\ z.armed = v.armed
    <3>1. Put(k.prio, t, p) \in [Thread -> Prio]
      BY <1>0, KernelFields DEF Put
    <3> QED BY <2>3, <3>1 DEF Kernel
  <2>5. u = InsertReady(z, t)
    <3> DEFINE R == RemoveReady(k, t)
               L == [h \in ListHeads |-> Drop(k.lists[h], t)]
               g == IF L[Ready(k.prio[t])] = <<>> THEN k.group \ {k.prio[t]} ELSE k.group
               y == [R EXCEPT !.prio[t] = p]
    <3>1. u = InsertReady(y, t)
      BY <1>1 DEF ChangePriority
    <3>2. y = [k EXCEPT !.lists = L, !.group = g, !.prio = Put(k.prio, t, p)]
      BY <1>0 DEF RemoveReady, ListRemove, Kernel, Put
    <3>3. v = [k EXCEPT !.lists = L, !.group = g, !.stat = Put(k.stat, t, "SUSPEND"),
                        !.armed = k.armed \ {t}]
      BY <1>0, <1>1 DEF Suspend, TimerStop, RemoveReady, ListRemove, Kernel, Put
    <3> HIDE DEF L, g, y, v, u
    <3>4. z = [k EXCEPT !.lists = L, !.group = g, !.stat = Put(k.stat, t, "SUSPEND"),
                        !.armed = k.armed, !.prio = Put(k.prio, t, p)]
      BY <1>0, <2>2, <3>3 DEF Kernel
    <3>5. z = [y EXCEPT !.stat = Put(k.stat, t, "SUSPEND")]
      BY <1>0, <3>2, <3>4 DEF Kernel
    <3>6. y.stat = k.stat /\ k.stat \in [Thread -> Stat]
      BY <1>0, <3>2, KernelFields DEF Kernel
    <3> HIDE DEF z
    <3>7. [Put(k.stat, t, "SUSPEND") EXCEPT ![t] = "READY"] = [k.stat EXCEPT ![t] = "READY"]
      BY <3>6 DEF Put
    <3>8. InsertReady(z, t) = InsertReady(y, t)
      BY <1>0, <3>2, <3>4, <3>6, <3>7 DEF InsertReady, InsertLast, Kernel
    <3> QED BY <3>1, <3>8
  <2> HIDE DEF u, v, z
  <2>6. z.stat[t] = "SUSPEND" /\ Unlinked(z.lists, t) /\ t \notin z.armed
    <3>1. k.stat \in [Thread -> Stat]
      BY <1>0, KernelFields
    <3> QED BY <2>1, <2>2, <2>4, <3>1 DEF Put
  <2>7. KernelOK(z)
    <3>1. OneList(z)
      BY <2>3, <2>4, OneListLists
    <3>2. ReadyListed(z)
      <4> SUFFICES ASSUME NEW x \in Thread, NEW o \in Prio
                   PROVE  IsIn(v.lists[Ready(o)], x) <=> v.stat[x] = "READY" /\ z.prio[x] = o
        BY <2>4 DEF ReadyListed
      <4>1. CASE x = t
        BY <2>1, <2>4, <2>6, <4>1, HeadsAreHeads DEF Unlinked
      <4>2. CASE x # t
        <5>1. z.prio[x] = v.prio[x]
          BY <1>0, <2>1, <2>4, <4>2, KernelFields DEF Put
        <5> QED BY <2>3, <5>1 DEF ReadyListed
      <4> QED BY <4>1, <4>2
    <3>3. GroupExact(z) /\ TimersOfSuspended(z)
      BY <2>3, <2>4 DEF GroupExact, TimersOfSuspended
    <3> QED BY <2>4, <3>1, <3>2, <3>3 DEF KernelOK
  <2>8. /\ KernelOK(u)
        /\ u.stat = Put(z.stat, t, "READY")
        /\ u.prio = z.prio /\ u.cur = z.cur /\ u.nest = z.nest /\ u.err = z.err
        /\ u.armed = z.armed
    BY <2>5, <2>6, <2>7, InsertReadyProperties
  <2>9. u.stat = k.stat
    <3>1. k.stat \in [Thread -> Stat]
      BY <1>0, KernelFields
    <3> QED BY <1>1, <2>1, <2>4, <2>8, <3>1 DEF Put
  <2>10. ASSUME NEW q \in WaitQueue PROVE u.lists[Wait(q)] = k.lists[Wait(q)]
    <3>1. z.prio[t] = p
      BY <1>0, <2>4, KernelFields DEF Put
    <3>2. u.lists[Wait(q)] = z.lists[Wait(q)]
      <4>1. Wait(q) # Ready(p) /\ Wait(q) \in ListHeads
        BY HeadsAreHeads
      <4> QED BY <2>4, <2>5, <3>1, <4>1 DEF InsertReady, InsertLast, Kernel
    <3>3. ~IsIn(k.lists[Wait(q)], t)
      BY <1>0, <1>1, ReadyNotWaiting
    <3>4. v.lists[Wait(q)] = Drop(k.lists[Wait(q)], t)
      BY <1>0, <1>1, HeadsAreHeads DEF v, Suspend, TimerStop, RemoveReady, ListRemove, Kernel
    <3> QED BY <2>4, <3>2, <3>3, <3>4 DEF Drop
  <2> QED BY <2>1, <2>2, <2>4, <2>8, <2>9, <2>10 DEF u
<1>2. CASE k.stat[t] = "SUSPEND"
  <2>1. u = [k EXCEPT !.prio = Put(k.prio, t, p)]
    BY <1>0, <1>2 DEF ChangePriority, Put
  <2>2. /\ u \in Kernel
        /\ u.prio = Put(k.prio, t, p)
        /\ u.stat = k.stat /\ u.lists = k.lists /\ u.group = k.group
        /\ u.cur = k.cur /\ u.nest = k.nest /\ u.err = k.err /\ u.armed = k.armed
    <3>1. Put(k.prio, t, p) \in [Thread -> Prio]
      BY <1>0, KernelFields DEF Put
    <3> QED BY <1>0, <2>1, <3>1 DEF Kernel
  <2> HIDE DEF u
  <2>3. KernelOK(u)
    <3>1. OneList(u)
      BY <1>0, <2>2, OneListLists
    <3>2. ReadyListed(u)
      <4>1. \A x \in Thread : u.stat[x] = "READY" => u.prio[x] = k.prio[x]
        BY <1>0, <1>2, <2>2, KernelFields DEF Put
      <4> QED BY <1>0, <2>2, <4>1 DEF ReadyListed
    <3>3. GroupExact(u) /\ TimersOfSuspended(u)
      BY <1>0, <2>2 DEF GroupExact, TimersOfSuspended
    <3> QED BY <2>2, <3>1, <3>2, <3>3 DEF KernelOK
  <2> QED BY <2>2, <2>3 DEF u
<1> QED BY <1>1, <1>2

(* The place rt_ipc_list_suspend finds for a thread is one of the list.    *)
LEMMA PrioPositionInList ==
  ASSUME NEW k, NEW s \in Seq(Thread), NEW p
  PROVE  PrioPosition(k, s, p) \in 1 .. Len(s) + 1
<1> DEFINE S == {i \in 1 .. Len(s) + 1 : i = Len(s) + 1 \/ p < k.prio[s[i]]}
<1>1. Len(s) + 1 \in S /\ S \in SUBSET Nat /\ S \subseteq 1 .. Len(s) + 1
  OBVIOUS
<1>2. PrioPosition(k, s, p) = LeastOf(S)
  BY DEF PrioPosition
<1> HIDE DEF S
<1> QED BY <1>1, <1>2, LeastExists

(* rt_ipc_list_suspend: the thread leaves its ready list for the wait list.*)
LEMMA ListSuspendProperties ==
  ASSUME NEW k, KernelOK(k), NEW t \in Thread, k.stat[t] = "READY",
         NEW q \in WaitQueue, NEW flag
  PROVE  LET w == ListSuspend(k, q, t, flag)
         IN  /\ KernelOK(w)
             /\ w.stat = Put(k.stat, t, "SUSPEND")
             /\ w.prio = k.prio /\ w.cur = k.cur /\ w.nest = k.nest /\ w.err = k.err
             /\ w.armed = k.armed \ {t}
             /\ \A o \in WaitQueue, x \in Thread :
                  IsIn(w.lists[Wait(o)], x)
                    <=> (IsIn(k.lists[Wait(o)], x) /\ x # t) \/ (o = q /\ x = t)
<1> DEFINE v == Suspend(k, t)
           s == v.lists[Wait(q)]
           s2 == IF flag = "PRIO" THEN LinkIn(s, PrioPosition(v, s, v.prio[t]), t)
                                  ELSE Append(s, t)
           M == Put(v.lists, Wait(q), s2)
           w == ListSuspend(k, q, t, flag)
<1>1. /\ KernelOK(v)
      /\ Unlinked(v.lists, t)
      /\ v.stat = Put(k.stat, t, "SUSPEND")
      /\ v.prio = k.prio /\ v.cur = k.cur /\ v.nest = k.nest /\ v.err = k.err
      /\ v.armed = k.armed \ {t}
      /\ \A h \in ListHeads, x \in Thread \ {t} :
           IsIn(v.lists[h], x) <=> IsIn(k.lists[h], x)
  BY SuspendProperties
<1>2. w = [v EXCEPT !.lists = M]
  BY DEF ListSuspend, InsertLast, Put
<1> HIDE DEF v
<1>3. /\ v \in Kernel /\ ListsOK(v.lists) /\ ReadyListed(v) /\ GroupExact(v)
      /\ TimersOfSuspended(v)
  BY <1>1, OneListLists DEF KernelOK
<1>4. Wait(q) \in ListHeads /\ \A p \in Prio : Wait(q) # Ready(p)
  BY HeadsAreHeads
<1>5. s \in Seq(Thread) /\ Injective(s) /\ ~IsIn(s, t)
  BY <1>1, <1>3, <1>4, Zenon DEF ListsOK, Unlinked
<1>6. AddsTo(s2, s, t)
  <2>1. CASE flag = "PRIO"
    BY <1>5, <2>1, PrioPositionInList, InsertAtList
  <2>2. CASE flag # "PRIO"
    BY <1>5, <2>2, AppendList
  <2> QED BY <2>1, <2>2
<1> HIDE DEF s2
<1>7. M = Put(v.lists, Wait(q), s2)
  OBVIOUS
<1> HIDE DEF M
<1>8. /\ ListsOK(M)
      /\ \A h \in ListHeads, x \in Thread :
           IsIn(M[h], x) <=> IsIn(v.lists[h], x) \/ (h = Wait(q) /\ x = t)
  BY <1>1, <1>3, <1>4, <1>6, <1>7, InsertInLists
<1>9. /\ w \in Kernel
      /\ w.stat = v.stat /\ w.prio = v.prio /\ w.group = v.group /\ w.lists = M
      /\ w.cur = v.cur /\ w.nest = v.nest /\ w.err = v.err /\ w.armed = v.armed
  BY <1>2, <1>3, <1>8 DEF Kernel, ListsOK
<1> HIDE DEF w
<1>10. KernelOK(w)
  <2>1. OneList(w)
    BY <1>8, <1>9, OneListLists
  <2>2. \A p \in Prio : M[Ready(p)] = v.lists[Ready(p)]
    BY <1>3, <1>4, <1>7, HeadsAreHeads DEF Put, ListsOK
  <2>3. ReadyListed(w)
    BY <1>3, <1>9, <2>2 DEF ReadyListed
  <2>4. GroupExact(w)
    BY <1>3, <1>9, <2>2 DEF GroupExact
  <2>5. TimersOfSuspended(w)
    BY <1>3, <1>9 DEF TimersOfSuspended
  <2> QED BY <1>9, <2>1, <2>3, <2>4, <2>5 DEF KernelOK
<1>11. ASSUME NEW o \in WaitQueue, NEW x \in Thread
       PROVE  IsIn(w.lists[Wait(o)], x)
                <=> (IsIn(k.lists[Wait(o)], x) /\ x # t) \/ (o = q /\ x = t)
  <2>1. Wait(o) \in ListHeads /\ (Wait(o) = Wait(q) <=> o = q)
    BY HeadsAreHeads DEF Wait
  <2>2. ~IsIn(v.lists[Wait(o)], t)
    BY <1>1, <2>1 DEF Unlinked
  <2> QED BY <1>1, <1>8, <1>9, <2>1, <2>2
<1>12. /\ w.stat = Put(k.stat, t, "SUSPEND")
       /\ w.prio = k.prio /\ w.cur = k.cur /\ w.nest = k.nest /\ w.err = k.err
       /\ w.armed = k.armed \ {t}
  BY <1>1, <1>9
<1> QED BY <1>10, <1>11, <1>12 DEF w

(* rt_timer_start on the timer of a suspended thread *)
LEMMA TimerStartProperties ==
  ASSUME NEW k, KernelOK(k), NEW t \in Thread, k.stat[t] = "SUSPEND"
  PROVE  LET u == TimerStart(k, t)
         IN  /\ KernelOK(u)
             /\ u.stat = k.stat /\ u.prio = k.prio /\ u.lists = k.lists
             /\ u.cur = k.cur /\ u.nest = k.nest /\ u.err = k.err
             /\ u.armed = k.armed \cup {t}
<1> DEFINE u == TimerStart(k, t)
<1>1. k \in Kernel /\ u = [k EXCEPT !.armed = k.armed \cup {t}]
  BY DEF TimerStart, Kernel, KernelOK
<1> HIDE DEF u
<1>2. /\ u \in Kernel
      /\ u.stat = k.stat /\ u.prio = k.prio /\ u.group = k.group /\ u.lists = k.lists
      /\ u.cur = k.cur /\ u.nest = k.nest /\ u.err = k.err
      /\ u.armed = k.armed \cup {t}
  BY <1>1 DEF Kernel
<1>3. KernelOK(u)
  <2>1. OneList(u) /\ ReadyListed(u) /\ GroupExact(u)
    BY <1>2 DEF KernelOK, OneList, ReadyListed, GroupExact
  <2>2. TimersOfSuspended(u)
    BY <1>2 DEF KernelOK, TimersOfSuspended
  <2> QED BY <1>2, <2>1, <2>2 DEF KernelOK
<1> QED BY <1>2, <1>3 DEF u

(* The suspend path of a blocking call *)
LEMMA BlockProperties ==
  ASSUME NEW k, KernelOK(k), NEW t \in Thread, k.stat[t] = "READY",
         NEW q \in WaitQueue, NEW flag, NEW timed
  PROVE  LET w == Block(k, q, t, flag, timed)
         IN  /\ KernelOK(w)
             /\ w.stat = Put(k.stat, t, "SUSPEND")
             /\ w.prio = k.prio /\ w.cur = k.cur /\ w.nest = k.nest
             /\ w.err = Put(k.err, t, "EOK")
             /\ \A o \in WaitQueue, x \in Thread :
                  IsIn(w.lists[Wait(o)], x)
                    <=> (IsIn(k.lists[Wait(o)], x) /\ x # t) \/ (o = q /\ x = t)
<1> DEFINE a == WithError(k, t, "EOK")
           u == ListSuspend(a, q, t, flag)
           w == Block(k, q, t, flag, timed)
<1>1. /\ KernelOK(a)
      /\ a.stat = k.stat /\ a.prio = k.prio /\ a.lists = k.lists
      /\ a.armed = k.armed /\ a.cur = k.cur /\ a.nest = k.nest
      /\ a.err = Put(k.err, t, "EOK")
  BY SetError DEF Error
<1>2. w = IF timed THEN TimerStart(u, t) ELSE u
  BY DEF Block
<1> HIDE DEF a
<1>3. /\ KernelOK(u)
      /\ u.stat = Put(a.stat, t, "SUSPEND")
      /\ u.prio = a.prio /\ u.cur = a.cur /\ u.nest = a.nest /\ u.err = a.err
      /\ u.armed = a.armed \ {t}
      /\ \A o \in WaitQueue, x \in Thread :
           IsIn(u.lists[Wait(o)], x)
             <=> (IsIn(a.lists[Wait(o)], x) /\ x # t) \/ (o = q /\ x = t)
  BY <1>1, ListSuspendProperties
<1> HIDE DEF u, w
<1>4. u \in Kernel /\ u.stat[t] = "SUSPEND"
  <2>1. k.stat \in [Thread -> Stat]
    BY KernelFields DEF KernelOK
  <2> QED BY <1>1, <1>3, <2>1 DEF KernelOK, Put
<1>5. CASE timed
  <2>1. w = TimerStart(u, t)
    BY <1>2, <1>5
  <2>2. /\ KernelOK(w)
        /\ w.stat = u.stat /\ w.prio = u.prio /\ w.lists = u.lists
        /\ w.cur = u.cur /\ w.nest = u.nest /\ w.err = u.err
    BY <1>3, <1>4, <2>1, TimerStartProperties
  <2> QED BY <1>1, <1>3, <1>5, <2>2 DEF w
<1>6. CASE ~timed
  BY <1>1, <1>2, <1>3, <1>6 DEF w
<1> QED BY <1>5, <1>6

(* A wait without a time-out is this call, and starts no timer.            *)
LEMMA BlockUntimed ==
  ASSUME NEW k, KernelOK(k), NEW t \in Thread, k.stat[t] = "READY",
         NEW q \in WaitQueue, NEW flag
  PROVE  ListSuspend(WithError(k, t, "EOK"), q, t, flag).armed = k.armed \ {t}
<1> DEFINE a == WithError(k, t, "EOK")
<1>1. KernelOK(a) /\ a.stat[t] = "READY" /\ a.armed = k.armed
  BY SetError DEF Error
<1> HIDE DEF a
<1>2. ListSuspend(a, q, t, flag).armed = a.armed \ {t}
  BY <1>1, ListSuspendProperties
<1> QED BY <1>1, <1>2 DEF a

(* The loop of rt_ipc_list_resume_all wakes the first waiter with an error.*)
LEMMA ResumeFirstProperties ==
  ASSUME NEW k, KernelOK(k), NEW q \in WaitQueue, Waiters(k, q) # <<>>,
         k.stat[Waiters(k, q)[1]] = "SUSPEND"
  PROVE  LET t == Waiters(k, q)[1]
             u == ResumeFirstWithError(k, q)
         IN  /\ t \in Thread
             /\ KernelOK(u)
             /\ u.stat = Put(k.stat, t, "READY")
             /\ u.prio = k.prio /\ u.cur = k.cur /\ u.nest = k.nest
             /\ u.err = Put(k.err, t, "ERROR")
             /\ \A o \in WaitQueue, x \in Thread :
                  IsIn(u.lists[Wait(o)], x) <=> IsIn(k.lists[Wait(o)], x) /\ x # t
<1> DEFINE t == Waiters(k, q)[1]
           a == WithError(k, t, "ERROR")
           u == ResumeFirstWithError(k, q)
<1>1. t \in Thread
  BY KernelFields, HeadsAreHeads DEF KernelOK, Waiters
<1>2. /\ KernelOK(a)
      /\ a.stat = k.stat /\ a.prio = k.prio /\ a.lists = k.lists
      /\ a.armed = k.armed /\ a.cur = k.cur /\ a.nest = k.nest
      /\ a.err = Put(k.err, t, "ERROR")
  BY <1>1, SetError DEF Error
<1>3. u = Resume(a, t)
  BY DEF ResumeFirstWithError
<1>4. k.stat[t] = "SUSPEND"
  OBVIOUS
<1> HIDE DEF a, u, t
<1>5. a.stat[t] = "SUSPEND"
  BY <1>2, <1>4
<1>6. /\ KernelOK(u)
      /\ u.stat = Put(a.stat, t, "READY")
      /\ u.prio = a.prio /\ u.cur = a.cur /\ u.nest = a.nest /\ u.err = a.err
      /\ \A o \in WaitQueue, x \in Thread :
           IsIn(u.lists[Wait(o)], x) <=> IsIn(a.lists[Wait(o)], x) /\ x # t
  BY <1>1, <1>2, <1>3, <1>5, ResumeProperties
<1>7. /\ u.stat = Put(k.stat, t, "READY")
      /\ u.prio = k.prio /\ u.cur = k.cur /\ u.nest = k.nest
      /\ u.err = Put(k.err, t, "ERROR")
      /\ \A o \in WaitQueue, x \in Thread :
           IsIn(u.lists[Wait(o)], x) <=> IsIn(k.lists[Wait(o)], x) /\ x # t
  BY <1>2, <1>6
<1> QED BY <1>1, <1>6, <1>7 DEF t, u

(* When the scheduler starts, the lists are the boot lists and the most    *)
(* urgent thread in one executes.                                          *)
LEMMA BootedLists ==
  ASSUME NEW prio, NEW boot, NEW k, NEW i \in Thread,
         BootLists(prio, boot), IsIn(boot[prio[i]], i), k = Booted(prio, boot)
  PROVE  /\ k \in Kernel /\ OneList(k) /\ GroupExact(k)
         /\ \A p \in Prio, t \in Thread :
              IsIn(k.lists[Ready(p)], t) <=> IsIn(boot[prio[t]], t) /\ prio[t] = p
         /\ k.prio = prio /\ \A t \in Thread : k.stat[t] = "READY"
         /\ k.nest = 0 /\ k.armed = {}
         /\ \A q \in WaitQueue : k.lists[Wait(q)] = <<>>
         /\ k.lists[Defunct] = <<>>
         /\ IsIn(boot[prio[k.cur]], k.cur)
         /\ \A t \in Thread : IsIn(boot[prio[t]], t) => prio[k.cur] <= prio[t]
<1> DEFINE L == [h \in ListHeads |-> IF h[1] = "ready" THEN boot[h[2]] ELSE <<>>]
           g == {p \in Prio : boot[p] # <<>>}
           p0 == LeastOf(g)
           c == boot[p0][1]
<1>1. /\ prio \in [Thread -> Prio]
      /\ \A p \in Prio :
           /\ boot[p] \in Seq({t \in Thread : prio[t] = p})
           /\ Injective(boot[p])
      /\ IsIn(boot[prio[i]], i)
  BY DEF BootLists, Injective
<1>2. ASSUME NEW p \in Prio
      PROVE  /\ boot[p] \in Seq(Thread)
             /\ \A j \in DOMAIN boot[p] : boot[p][j] \in Thread /\ prio[boot[p][j]] = p
  <2> DEFINE T == {t \in Thread : prio[t] = p}
             s == boot[p]
  <2>1. s \in Seq(T)
    BY <1>1
  <2> HIDE DEF s
  <2>2. \A j \in DOMAIN s : s[j] \in T
    BY <2>1
  <2>3. s \in Seq(Thread)
    BY <2>1, <2>2
  <2> QED BY <2>2, <2>3 DEF s
<1>3. \A p \in Prio, t \in Thread : IsIn(boot[p], t) <=> IsIn(boot[prio[t]], t) /\ prio[t] = p
  BY <1>1, <1>2 DEF IsIn
<1>4. /\ \A p \in Prio : Ready(p) \in ListHeads /\ L[Ready(p)] = boot[p]
      /\ \A q \in WaitQueue : Wait(q) \in ListHeads /\ L[Wait(q)] = <<>>
      /\ L[Defunct] = <<>>
  BY DEF Ready, Wait, Defunct, ReadyLists, ListHeads
<1> HIDE DEF L
<1>5. \A h \in ListHeads :
        (\E p \in Prio : h = Ready(p)) \/ L[h] = <<>>
  BY <1>4 DEF ListHeads, ReadyLists
<1>6. ListsOK(L)
  <2>1. L \in [ListHeads -> Seq(Thread)]
    <3>1. ASSUME NEW h \in ListHeads PROVE L[h] \in Seq(Thread)
      <4>1. CASE L[h] = <<>>
        BY <4>1
      <4>2. CASE L[h] # <<>>
        BY <1>2, <1>4, <1>5, <4>2
      <4> QED BY <4>1, <4>2
    <3>2. DOMAIN L = ListHeads /\ L = [h \in ListHeads |-> L[h]]
      BY DEF L
    <3> QED BY <3>1, <3>2
  <2>2. ASSUME NEW h \in ListHeads PROVE Injective(L[h])
    <3>1. CASE L[h] = <<>>
      BY <3>1 DEF Injective
    <3>2. CASE L[h] # <<>>
      BY <1>1, <1>4, <1>5, <3>2
    <3> QED BY <3>1, <3>2
  <2>3. \A g_1, h \in ListHeads, t \in Thread :
          IsIn(L[g_1], t) /\ IsIn(L[h], t) => g_1 = h
    <3>1. ASSUME NEW h \in ListHeads, NEW t \in Thread, IsIn(L[h], t)
          PROVE  h = Ready(prio[t])
      <4>1. L[h] # <<>>
        BY <3>1 DEF IsIn
      <4>2. PICK p \in Prio : h = Ready(p)
        BY <1>5, <4>1
      <4> QED BY <1>3, <1>4, <3>1, <4>2
    <3> QED BY <3>1
  <2> QED BY <2>1, <2>2, <2>3 DEF ListsOK
<1>7. g \subseteq Prio /\ g # {} /\ g \in SUBSET Nat
  <2>1. prio[i] \in Prio /\ boot[prio[i]] # <<>>
    BY <1>1 DEF IsIn
  <2> QED BY <2>1, PrioAssumption
<1>8. p0 \in g /\ \A p \in g : p0 <= p
  BY <1>7, LeastExists
<1> HIDE DEF p0
<1>9. c \in Thread /\ IsIn(boot[p0], c) /\ prio[c] = p0
  <2>1. p0 \in Prio /\ boot[p0] # <<>> /\ boot[p0] \in Seq(Thread)
    BY <1>2, <1>8
  <2>2. 1 \in DOMAIN boot[p0] /\ c = boot[p0][1]
    BY <2>1
  <2> QED BY <1>2, <2>1, <2>2 DEF IsIn
<1>10. k = [ stat  |-> [t \in Thread |-> "READY"],
             prio  |-> prio,
             lists |-> L,
             group |-> g,
             cur   |-> c,
             nest  |-> 0,
             err   |-> [t \in Thread |-> "EOK"],
             armed |-> {} ]
  BY DEF Booted, L, p0
<1> HIDE DEF g, c
<1>11. k \in Kernel
  BY <1>1, <1>6, <1>7, <1>9, <1>10 DEF Kernel, Stat, Error, ListsOK
<1>12. /\ k.stat = [t \in Thread |-> "READY"] /\ k.prio = prio /\ k.lists = L
       /\ k.group = g /\ k.nest = 0 /\ k.armed = {} /\ k.cur = c
  BY <1>10
<1>13. GroupExact(k)
  BY <1>4, <1>12 DEF GroupExact, g
<1>14. OneList(k)
  BY <1>6, <1>11, <1>12, OneListLists
<1>15. ASSUME NEW t \in Thread, IsIn(boot[prio[t]], t) PROVE p0 <= prio[t]
  <2>1. prio[t] \in Prio /\ boot[prio[t]] # <<>>
    BY <1>1, <1>15 DEF IsIn
  <2> QED BY <1>8, <2>1 DEF g
<1>16. IsIn(boot[prio[c]], c) /\ prio[c] = p0
  BY <1>9
<1> QED BY <1>3, <1>4, <1>11, <1>12, <1>13, <1>14, <1>15, <1>16

(* The promises hold when every thread has been started.                   *)
LEMMA BootedProperties ==
  ASSUME NEW prio, NEW boot, BootOK(prio, boot), Thread # {}
  PROVE  LET k == Booted(prio, boot)
         IN  /\ KernelOK(k)
             /\ k.stat = [t \in Thread |-> "READY"]
             /\ k.nest = 0 /\ k.armed = {}
             /\ \A q \in WaitQueue : k.lists[Wait(q)] = <<>>
<1> DEFINE k == Booted(prio, boot)
<1>0. k = Booted(prio, boot)
  OBVIOUS
<1>1. BootLists(prio, boot) /\ \A t \in Thread : IsIn(boot[prio[t]], t)
  BY DEF BootOK
<1>2. PICK i \in Thread : TRUE
  OBVIOUS
<1> HIDE DEF k
<1>3. /\ k \in Kernel /\ OneList(k) /\ GroupExact(k)
      /\ \A p \in Prio, t \in Thread :
           IsIn(k.lists[Ready(p)], t) <=> IsIn(boot[prio[t]], t) /\ prio[t] = p
      /\ k.prio = prio /\ \A t \in Thread : k.stat[t] = "READY"
      /\ k.nest = 0 /\ k.armed = {}
      /\ \A q \in WaitQueue : k.lists[Wait(q)] = <<>>
  BY <1>0, <1>1, <1>2, BootedLists
<1>4. ReadyListed(k)
  BY <1>1, <1>3 DEF ReadyListed
<1>5. TimersOfSuspended(k)
  BY <1>3 DEF TimersOfSuspended
<1>6. k.stat = [t \in Thread |-> "READY"]
  BY <1>0 DEF Booted
<1> QED BY <1>3, <1>4, <1>5, <1>6 DEF KernelOK, k
-----------------------------------------------------------------------------
(* The order of a wait list, and the lists themselves after an operation   *)

(* The place found by rt_ipc_list_suspend: behind those as urgent.         *)
LEMMA SortedInsert ==
  ASSUME NEW k, NEW key \in [Thread -> Prio], key = k.prio,
         NEW s \in Seq(Thread), Sorted(s, key), NEW t \in Thread
  PROVE  Sorted(LinkIn(s, PrioPosition(k, s, key[t]), t), key)
<1> DEFINE S == {i \in 1 .. Len(s) + 1 : i = Len(s) + 1 \/ key[t] < key[s[i]]}
           n == PrioPosition(k, s, key[t])
<1>1. Len(s) + 1 \in S /\ S \in SUBSET Nat /\ n = LeastOf(S) /\ Len(s) \in Nat
  BY DEF PrioPosition
<1>2. n \in S /\ \A i \in S : n <= i
  BY <1>1, LeastExists
<1>3. /\ n \in 1 .. Len(s) + 1
      /\ \A i \in 1 .. Len(s) : i < n => ~(key[t] < key[s[i]])
      /\ n = Len(s) + 1 \/ key[t] < key[s[n]]
  <2>1. n \in 1 .. Len(s) + 1 /\ (n = Len(s) + 1 \/ key[t] < key[s[n]])
    BY <1>2
  <2>2. ASSUME NEW i \in 1 .. Len(s), i < n, key[t] < key[s[i]] PROVE FALSE
    <3>1. i \in S
      BY <1>1, <2>2
    <3> QED BY <1>1, <1>2, <2>1, <2>2, <3>1
  <2> QED BY <2>1, <2>2
<1> HIDE DEF n, S
<1>4. \A x \in Thread : key[x] \in Nat
  BY PrioAssumption
<1>5. /\ key \in [Thread -> Int]
      /\ \A i \in 1 .. Len(s) : i < n => key[s[i]] <= key[t]
      /\ n = Len(s) + 1 \/ key[t] <= key[s[n]]
  BY <1>3, <1>4
<1>6. Sorted(LinkIn(s, n, t), key)
  BY <1>3, <1>5, SortedLinkIn
<1> QED BY <1>6 DEF n

(* A thread that suspends itself is in no wait list before.                *)
LEMMA SuspendWaiters ==
  ASSUME NEW k, KernelOK(k), NEW t \in Thread, k.stat[t] = "READY", NEW q \in WaitQueue
  PROVE  Suspend(k, t).lists[Wait(q)] = k.lists[Wait(q)]
<1>1. k \in Kernel /\ ~IsIn(k.lists[Wait(q)], t)
  BY ReadyNotWaiting, OneListLists DEF KernelOK
<1>2. Suspend(k, t).lists[Wait(q)] = Drop(k.lists[Wait(q)], t)
  BY <1>1, HeadsAreHeads DEF Suspend, TimerStop, RemoveReady, ListRemove, Kernel
<1> QED BY <1>1, <1>2 DEF Drop

(* A blocking call on a RT_IPC_FLAG_PRIO object *)
LEMMA BlockSorts ==
  ASSUME NEW k, KernelOK(k), NEW t \in Thread, k.stat[t] = "READY",
         NEW q \in WaitQueue, NEW timed, Sorted(k.lists[Wait(q)], k.prio)
  PROVE  LET w == Block(k, q, t, "PRIO", timed)
         IN  /\ Sorted(w.lists[Wait(q)], k.prio)
             /\ \A o \in WaitQueue \ {q} : w.lists[Wait(o)] = k.lists[Wait(o)]
<1> DEFINE a == WithError(k, t, "EOK")
           v == Suspend(a, t)
           s == v.lists[Wait(q)]
           d == LinkIn(s, PrioPosition(v, s, v.prio[t]), t)
           u == ListSuspend(a, q, t, "PRIO")
           w == Block(k, q, t, "PRIO", timed)
<1>1. KernelOK(a) /\ a.stat = k.stat /\ a.prio = k.prio /\ a.lists = k.lists
  BY SetError DEF Error
<1>2. w = IF timed THEN TimerStart(u, t) ELSE u
  BY DEF Block
<1>3. u = [v EXCEPT !.lists[Wait(q)] = d]
  BY DEF ListSuspend
<1> HIDE DEF a
<1>4. v.prio = k.prio /\ KernelOK(v) /\ v \in Kernel
  BY <1>1, SuspendProperties DEF KernelOK
<1>5. \A o \in WaitQueue : v.lists[Wait(o)] = k.lists[Wait(o)]
  BY <1>1, SuspendWaiters
<1> HIDE DEF v
<1>6. Sorted(d, k.prio)
  <2>1. k.prio \in [Thread -> Prio] /\ s \in Seq(Thread) /\ Sorted(s, v.prio)
    BY <1>4, <1>5, KernelFields, HeadsAreHeads DEF KernelOK
  <2>2. Sorted(LinkIn(s, PrioPosition(v, s, v.prio[t]), t), v.prio)
    BY <1>4, <2>1, SortedInsert
  <2> QED BY <1>4, <2>2
<1> HIDE DEF d
<1>7. /\ u.lists[Wait(q)] = d
      /\ \A o \in WaitQueue \ {q} : u.lists[Wait(o)] = v.lists[Wait(o)]
  <2>1. Wait(q) \in ListHeads /\ \A o \in WaitQueue \ {q} : Wait(o) # Wait(q)
    BY HeadsAreHeads DEF Wait
  <2>2. v.lists \in [ListHeads -> Seq(Thread)] /\ u.lists = [v.lists EXCEPT ![Wait(q)] = d]
    BY <1>3, <1>4 DEF Kernel
  <2> HIDE DEF u
  <2> QED BY <2>1, <2>2
<1>8. w.lists = u.lists
  <2>1. TimerStart(u, t).lists = u.lists
    BY <1>3, <1>4 DEF TimerStart, Kernel
  <2> QED BY <1>2, <2>1
<1> QED BY <1>5, <1>6, <1>7, <1>8

(* Who is resumed, or times out, leaves the others in their order.         *)
LEMMA ResumeWaiters ==
  ASSUME NEW k, k \in Kernel, NEW t \in Thread, k.stat[t] = "SUSPEND", NEW q \in WaitQueue
  PROVE  Resume(k, t).lists[Wait(q)] = Drop(k.lists[Wait(q)], t)
<1>1. k.prio[t] \in Prio /\ Wait(q) \in ListHeads /\ Wait(q) # Ready(k.prio[t])
  BY KernelFields, HeadsAreHeads
<1> QED BY <1>1 DEF Resume, ResumeUnlink, TimerStop, ListRemove, InsertReady, InsertLast, Kernel

LEMMA TimeoutWaiters ==
  ASSUME NEW k, k \in Kernel, NEW t \in Thread, NEW q \in WaitQueue
  PROVE  Timeout(k, t).lists[Wait(q)] = Drop(k.lists[Wait(q)], t)
<1>1. k.prio[t] \in Prio /\ Wait(q) \in ListHeads /\ Wait(q) # Ready(k.prio[t])
  BY KernelFields, HeadsAreHeads
<1> QED BY <1>1 DEF Timeout, WithError, Schedule, TimerStop, ListRemove,
                    InsertReady, InsertLast, Kernel
=============================================================================
