------------------------------ MODULE IpcProofs ------------------------------
(***************************************************************************)
(* The message queue and the memory pool, whose memory is linked lists,    *)
(* and the theorems about IpcSpec: whichever of the objects is used, no    *)
(* wake-up is lost, memory is accounted for, requests are answered and     *)
(* what is sent is delivered once and in order.                            *)
(***************************************************************************)
EXTENDS Ipc, CallsProofs

-----------------------------------------------------------------------------
(* Linked lists                                                            *)

Path(S, nx, p, s) ==
  /\ s \in Seq(S) /\ \A i, j \in 1 .. Len(s) : s[i] = s[j] => i = j
  /\ p = IF s = <<>> THEN Null ELSE s[1]
  /\ \A i \in 1 .. Len(s) : nx[s[i]] = IF i = Len(s) THEN Null ELSE s[i + 1]

(* The links of s are the same. *)
SameLinks(nx, ny, s) == \A i \in 1 .. Len(s) : ny[s[i]] = nx[s[i]]

Rest(s) == SubSeq(s, 2, Len(s))

(* r holds what s holds and n, or what s holds without n.                  *)
OneMore(s, r, n) == Len(r) = Len(s) + 1 /\ \A x : IsIn(r, x) <=> IsIn(s, x) \/ x = n
OneLess(s, r, n) == Len(s) = Len(r) + 1 /\ \A x : IsIn(r, x) <=> IsIn(s, x) /\ x # n

LEMMA PathKept ==
  ASSUME NEW S, NEW nx, NEW ny, NEW p, NEW s, Path(S, nx, p, s), SameLinks(nx, ny, s)
  PROVE  Path(S, ny, p, s)
BY DEF Path, SameLinks

LEMMA PathEmpty ==
  ASSUME NEW S, NEW nx, NEW p, NEW s, Path(S, nx, p, s), Null \notin S
  PROVE  /\ s \in Seq(S) /\ Len(s) \in Nat
         /\ s = <<>> <=> p = Null
         /\ s = <<>> <=> Len(s) = 0
         /\ s # <<>> => p \in S /\ p = s[1] /\ IsIn(s, p) /\ s[Len(s)] \in S /\ IsIn(s, s[Len(s)])
         /\ s # <<>> => nx[s[Len(s)]] = Null
         /\ \A x : IsIn(s, x) => x \in S
<1>1. s \in Seq(S) /\ (p = IF s = <<>> THEN Null ELSE s[1])
  BY DEF Path
<1>2. s # <<>> => s[1] \in S /\ 1 \in 1 .. Len(s) /\ Len(s) \in 1 .. Len(s) /\ s[Len(s)] \in S
  BY <1>1
<1>3. \A x : IsIn(s, x) => x \in S
  BY <1>1 DEF IsIn
<1> QED BY <1>1, <1>2, <1>3 DEF IsIn, Path

LEMMA PathPop ==
  ASSUME NEW S, NEW nx, NEW p, NEW s, Path(S, nx, p, s), Null \notin S, s # <<>>,
         NEW r, r = Rest(s)
  PROVE  Path(S, nx, nx[p], r) /\ OneLess(s, r, p)
<1> DEFINE n == Len(s)
<1>1. /\ s \in Seq(S) /\ n \in Nat /\ n > 0 /\ p = s[1]
      /\ \A i, j \in 1 .. n : s[i] = s[j] => i = j
      /\ \A i \in 1 .. n : nx[s[i]] = IF i = n THEN Null ELSE s[i + 1]
  BY DEF Path
<1>2. r \in Seq(S) /\ Len(r) = n - 1 /\ \A i \in 1 .. n - 1 : r[i] = s[i + 1]
  <2>1. r = SubSeq(s, 2, n) /\ n = Len(s)
    BY DEF Rest
  <2> HIDE DEF n
  <2>2. r \in Seq(S) /\ Len(r) = n - 1
    BY <1>1, <2>1
  <2>3. \A i \in 1 .. n - 1 : r[i] = s[i + 1]
    BY <1>1, <2>1
  <2> QED BY <2>2, <2>3
<1>2a. n = Len(s)
  OBVIOUS
<1> HIDE DEF n
<1>3. \A i, j \in 1 .. n - 1 : r[i] = r[j] => i = j
  <2> TAKE i, j \in 1 .. n - 1
  <2>1. i + 1 \in 1 .. n /\ j + 1 \in 1 .. n
    BY <1>1
  <2> QED BY <1>1, <1>2, <2>1
<1>4. \A i \in 1 .. n - 1 : nx[r[i]] = IF i = n - 1 THEN Null ELSE r[i + 1]
  <2> TAKE i \in 1 .. n - 1
  <2>1. i + 1 \in 1 .. n /\ (i # n - 1 => i + 1 \in 1 .. n - 1) /\ (i + 1 = n <=> i = n - 1)
    BY <1>1
  <2> QED BY <1>1, <1>2, <2>1
<1>5. nx[p] = IF r = <<>> THEN Null ELSE r[1]
  <2>1. nx[s[1]] = IF 1 = n THEN Null ELSE s[1 + 1]
    BY <1>1
  <2>2. CASE n = 1
    <3>1. r = <<>>
      BY <1>2, <2>2
    <3> QED BY <1>1, <2>1, <2>2, <3>1
  <2>3. CASE n # 1
    <3>1. r # <<>> /\ 1 \in 1 .. n - 1
      BY <1>1, <1>2, <2>3
    <3> QED BY <1>1, <1>2, <2>1, <2>3, <3>1
  <2> QED BY <2>2, <2>3
<1>6. Path(S, nx, nx[p], r)
  BY <1>2, <1>3, <1>4, <1>5 DEF Path
<1>7. \A x : IsIn(r, x) <=> IsIn(s, x) /\ x # p
  <2> TAKE x
  <2>1. ASSUME IsIn(r, x) PROVE IsIn(s, x) /\ x # p
    <3>1. PICK i \in 1 .. n - 1 : r[i] = x
      BY <1>2, <2>1 DEF IsIn
    <3>2. i + 1 \in 1 .. n /\ s[i + 1] = x /\ i + 1 # 1 /\ 1 \in 1 .. n
      BY <1>1, <1>2, <3>1
    <3>3. i + 1 \in DOMAIN s
      BY <1>1, <1>2a, <3>2
    <3> QED BY <1>1, <3>2, <3>3 DEF IsIn
  <2>2. ASSUME IsIn(s, x), x # p PROVE IsIn(r, x)
    <3>1. PICK i \in 1 .. n : s[i] = x
      BY <1>1, <1>2a, <2>2 DEF IsIn
    <3>2. i # 1 /\ i - 1 \in 1 .. n - 1 /\ (i - 1) + 1 = i
      BY <1>1, <2>2, <3>1
    <3>3. r[i - 1] = x
      BY <1>2, <3>1, <3>2
    <3>4. i - 1 \in DOMAIN r
      BY <1>2, <3>2
    <3> QED BY <3>3, <3>4 DEF IsIn
  <2> QED BY <2>1, <2>2
<1>8. Len(s) = Len(r) + 1
  BY <1>1, <1>2, <1>2a
<1> QED BY <1>6, <1>7, <1>8 DEF OneLess

(* n is linked in before s. *)
Pushed(s, r, n) == r = <<n>> \o s

LEMMA PathPush ==
  ASSUME NEW S, NEW nx, NEW ny, NEW p, NEW s, Path(S, nx, p, s), Null \notin S,
         SameLinks(nx, ny, s), NEW n \in S, ~IsIn(s, n), ny[n] = p,
         NEW r, Pushed(s, r, n)
  PROVE  Path(S, ny, n, r) /\ OneMore(s, r, n)
<1> DEFINE m == Len(s)
<1>1. /\ s \in Seq(S) /\ m \in Nat
      /\ \A i, j \in 1 .. m : s[i] = s[j] => i = j
      /\ \A i \in 1 .. m : ny[s[i]] = IF i = m THEN Null ELSE s[i + 1]
  BY DEF Path, SameLinks
<1>2. r \in Seq(S) /\ Len(r) = m + 1 /\ r[1] = n /\ \A i \in 2 .. m + 1 : r[i] = s[i - 1]
  BY <1>1 DEF Pushed
<1>2a. m = Len(s) /\ \A i \in 1 .. m : s[i] # n
  BY <1>1 DEF IsIn
<1> HIDE DEF m
<1>3. \A i, j \in 1 .. m + 1 : r[i] = r[j] => i = j
  <2> TAKE i, j \in 1 .. m + 1
  <2>1. /\ i # 1 => i \in 2 .. m + 1 /\ i - 1 \in 1 .. m
        /\ j # 1 => j \in 2 .. m + 1 /\ j - 1 \in 1 .. m
    BY <1>1
  <2>2. CASE i = 1 \/ j = 1
    BY <1>2, <1>2a, <2>1, <2>2
  <2>3. CASE i # 1 /\ j # 1
    <3>1. r[i] = s[i - 1] /\ r[j] = s[j - 1] /\ (i - 1 = j - 1 => i = j)
      BY <1>2, <2>1, <2>3
    <3> QED BY <1>1, <2>1, <2>3, <3>1
  <2> QED BY <2>2, <2>3
<1>4. \A i \in 1 .. m + 1 : ny[r[i]] = IF i = m + 1 THEN Null ELSE r[i + 1]
  <2> TAKE i \in 1 .. m + 1
  <2>1. CASE i = 1
    <3>1. p = IF m = 0 THEN Null ELSE s[1]
      BY <1>1, <1>2a DEF Path
    <3>2. m # 0 => r[2] = s[1]
      BY <1>1, <1>2
    <3> QED BY <1>1, <1>2, <2>1, <3>1, <3>2
  <2>2. CASE i # 1
    <3>1. /\ i \in 2 .. m + 1 /\ i - 1 \in 1 .. m /\ (i - 1 = m <=> i = m + 1)
          /\ (i # m + 1 => i + 1 \in 2 .. m + 1) /\ (i - 1) + 1 = i /\ (i + 1) - 1 = i
      BY <1>1, <2>2
    <3>2. r[i] = s[i - 1] /\ (i # m + 1 => r[i + 1] = s[i])
      BY <1>2, <3>1
    <3>3. ny[s[i - 1]] = IF i - 1 = m THEN Null ELSE s[(i - 1) + 1]
      BY <1>1, <3>1
    <3> QED BY <3>1, <3>2, <3>3
  <2> QED BY <2>1, <2>2
<1>5. r # <<>>
  BY <1>1, <1>2
<1>6. Path(S, ny, n, r)
  BY <1>2, <1>3, <1>4, <1>5 DEF Path
<1>7. \A x : IsIn(r, x) <=> IsIn(s, x) \/ x = n
  <2> TAKE x
  <2>1. ASSUME IsIn(r, x) PROVE IsIn(s, x) \/ x = n
    <3>1. PICK i \in 1 .. m + 1 : r[i] = x
      BY <1>2, <2>1 DEF IsIn
    <3>2. i # 1 => i \in 2 .. m + 1 /\ i - 1 \in 1 .. m
      BY <1>1
    <3>3. i # 1 => i - 1 \in DOMAIN s /\ s[i - 1] = x
      BY <1>1, <1>2, <1>2a, <3>1, <3>2
    <3> QED BY <1>2, <3>1, <3>3 DEF IsIn
  <2>2. ASSUME IsIn(s, x) \/ x = n PROVE IsIn(r, x)
    <3>1. CASE x = n
      <4>1. 1 \in DOMAIN r
        BY <1>1, <1>2
      <4> QED BY <1>2, <3>1, <4>1 DEF IsIn
    <3>2. CASE IsIn(s, x)
      <4>1. PICK i \in 1 .. m : s[i] = x
        BY <1>1, <1>2a, <3>2 DEF IsIn
      <4>2. i + 1 \in 2 .. m + 1 /\ (i + 1) - 1 = i /\ i + 1 \in 1 .. m + 1
        BY <1>1
      <4>3. r[i + 1] = x /\ i + 1 \in DOMAIN r
        BY <1>2, <4>1, <4>2
      <4> QED BY <4>3 DEF IsIn
    <3> QED BY <2>2, <3>1, <3>2
  <2> QED BY <2>1, <2>2
<1>8. Len(r) = Len(s) + 1
  BY <1>2, <1>2a
<1> QED BY <1>6, <1>7, <1>8 DEF OneMore

(* The links after n is linked behind the last node of s                   *)
LinkedLast(nx, ny, s, n) ==
  /\ ny[n] = Null
  /\ s # <<>> => ny[s[Len(s)]] = n
  /\ \A i \in 1 .. Len(s) - 1 : ny[s[i]] = nx[s[i]]

(* The first after n is linked in behind *)
FirstOf(p, n) == IF p = Null THEN n ELSE p

LEMMA PathAppend ==
  ASSUME NEW S, NEW nx, NEW ny, NEW p, NEW s, Path(S, nx, p, s), Null \notin S,
         NEW n \in S, ~IsIn(s, n), LinkedLast(nx, ny, s, n), NEW r, Longer(s, r, n),
         NEW o, o = FirstOf(p, n)
  PROVE  /\ Path(S, ny, o, r) /\ OneMore(s, r, n) /\ r # <<>> /\ r[Len(r)] = n
<1> DEFINE m == Len(s)
<1>1. /\ s \in Seq(S) /\ m \in Nat
      /\ \A i, j \in 1 .. m : s[i] = s[j] => i = j
      /\ \A i \in 1 .. m : nx[s[i]] = IF i = m THEN Null ELSE s[i + 1]
      /\ p = IF s = <<>> THEN Null ELSE s[1]
  BY DEF Path
<1>2. r \in Seq(S) /\ Len(r) = m + 1 /\ r[m + 1] = n /\ \A i \in 1 .. m : r[i] = s[i]
  BY <1>1 DEF Longer
<1>2a. m = Len(s) /\ (s = <<>> <=> m = 0) /\ \A i \in 1 .. m : s[i] # n /\ s[i] \in S
  BY <1>1 DEF IsIn
<1> HIDE DEF m
<1>3. \A i, j \in 1 .. m + 1 : r[i] = r[j] => i = j
  <2> TAKE i, j \in 1 .. m + 1
  <2>1. (i # m + 1 => i \in 1 .. m) /\ (j # m + 1 => j \in 1 .. m)
    BY <1>1
  <2> QED BY <1>1, <1>2, <1>2a, <2>1
<1>4. \A i \in 1 .. m + 1 : ny[r[i]] = IF i = m + 1 THEN Null ELSE r[i + 1]
  <2> TAKE i \in 1 .. m + 1
  <2>1. CASE i = m + 1
    BY <1>2, <2>1 DEF LinkedLast
  <2>2. CASE i = m /\ m # 0
    BY <1>1, <1>2, <1>2a, <2>2 DEF LinkedLast
  <2>3. CASE i \in 1 .. m - 1
    <3>1. i \in 1 .. m /\ i + 1 \in 1 .. m /\ i # m /\ i # m + 1
      BY <1>1, <2>3
    <3>2. ny[s[i]] = nx[s[i]] /\ nx[s[i]] = s[i + 1]
      BY <1>1, <1>2a, <2>3, <3>1 DEF LinkedLast
    <3> QED BY <1>2, <3>1, <3>2
  <2>4. i = m + 1 \/ (i = m /\ m # 0) \/ i \in 1 .. m - 1
    BY <1>1
  <2> QED BY <2>1, <2>2, <2>3, <2>4
<1>5. o = r[1] /\ r # <<>>
  <2>1. CASE m = 0
    BY <1>1, <1>2, <1>2a, <2>1 DEF FirstOf
  <2>2. CASE m # 0
    <3>1. 1 \in 1 .. m
      BY <1>1, <2>2
    <3> QED BY <1>1, <1>2, <1>2a, <2>2, <3>1 DEF FirstOf
  <2> QED BY <2>1, <2>2
<1>6. Path(S, ny, o, r)
  BY <1>2, <1>3, <1>4, <1>5 DEF Path
<1>7. \A x : IsIn(r, x) <=> IsIn(s, x) \/ x = n
  <2> TAKE x
  <2>1. ASSUME IsIn(r, x) PROVE IsIn(s, x) \/ x = n
    <3>1. PICK i \in 1 .. m + 1 : r[i] = x
      BY <1>2, <2>1 DEF IsIn
    <3>2. i # m + 1 => i \in 1 .. m
      BY <1>1
    <3>3. i # m + 1 => i \in DOMAIN s /\ s[i] = x
      BY <1>1, <1>2, <1>2a, <3>1, <3>2
    <3> QED BY <1>2, <3>1, <3>3 DEF IsIn
  <2>2. ASSUME IsIn(s, x) \/ x = n PROVE IsIn(r, x)
    <3>1. CASE x = n
      <4>1. m + 1 \in DOMAIN r
        BY <1>1, <1>2
      <4> QED BY <1>2, <3>1, <4>1 DEF IsIn
    <3>2. CASE IsIn(s, x)
      <4>1. PICK i \in 1 .. m : s[i] = x
        BY <1>1, <1>2a, <3>2 DEF IsIn
      <4>3. r[i] = x /\ i \in DOMAIN r
        BY <1>1, <1>2, <4>1
      <4> QED BY <4>3 DEF IsIn
    <3> QED BY <2>2, <3>1, <3>2
  <2> QED BY <2>1, <2>2
<1> QED BY <1>1, <1>2, <1>2a, <1>5, <1>6, <1>7 DEF OneMore

LEMMA PathShort ==
  ASSUME NEW S, IsFiniteSet(S), NEW nx, NEW p, NEW s, Path(S, nx, p, s)
  PROVE  Len(s) <= Cardinality(S) /\ Cardinality(S) \in Nat
<1> DEFINE m == Len(s)  D == 1 .. m
<1>1. m \in Nat /\ s \in [D -> S] /\ \A i, j \in D : s[i] = s[j] => i = j
  BY DEF Path
<1>1a. m = Len(s) /\ D = 1 .. m
  OBVIOUS
<1> HIDE DEF m, D
<1>2. s \in Injection(D, S)
  BY <1>1 DEF Injection, IsInjective
<1>3. Cardinality(D) <= Cardinality(S)
  BY <1>2, FS_Injection
<1>4. Cardinality(D) = m
  <2>1. 1 \in Int /\ m \in Int
    BY <1>1
  <2>2. Cardinality(1 .. m) = IF 1 > m THEN 0 ELSE m - 1 + 1
    BY <2>1, FS_Interval
  <2> QED BY <1>1, <1>1a, <2>2
<1> QED BY <1>1a, <1>3, <1>4, FS_CardinalityType

LEMMA ChainPath ==
  ASSUME NEW S, IsFiniteSet(S), NEW nx, NEW p, NEW s, Path(S, nx, p, s), Null \notin S
  PROVE  ChainOf(S, nx, p) = Append(s, Null)
<1> DEFINE L == Len(s)
           C == Cardinality(S)
           a == Append(s, Null)
           Turn(q) == IF q[Len(q)] \in S THEN Append(q, nx[q[Len(q)]]) ELSE q
           After(h) == h = [n \in 0 .. C |-> IF n = 0 THEN <<p>> ELSE Turn(h[n - 1])]
           g == [i \in 0 .. C |-> IF i <= L THEN SubSeq(a, 1, i + 1) ELSE a]
           V == S \cup {Null}
<1>1. /\ L \in Nat /\ C \in Nat /\ L <= C /\ s \in Seq(S)
      /\ a \in Seq(V) /\ Len(a) = L + 1 /\ a[L + 1] = Null
      /\ \A i \in 1 .. L : a[i] \in S /\ nx[a[i]] = a[i + 1]
  <2>1. L \in Nat /\ C \in Nat /\ L <= C /\ s \in Seq(S)
    BY PathShort DEF Path
  <2>2. a \in Seq(V) /\ Len(a) = L + 1 /\ a[L + 1] = Null /\ \A i \in 1 .. L : a[i] = s[i]
    BY <2>1
  <2>3. \A i \in 1 .. L : s[i] \in S /\ nx[s[i]] = a[i + 1]
    <3> TAKE i \in 1 .. L
    <3>1. s[i] \in S /\ nx[s[i]] = IF i = L THEN Null ELSE s[i + 1]
      BY <2>1 DEF Path
    <3>2. i # L => i + 1 \in 1 .. L
      BY <2>1
    <3> QED BY <2>2, <3>1, <3>2
  <2> QED BY <2>1, <2>2, <2>3
<1>2. p = a[1]
  <2>1. CASE s = <<>>
    BY <1>1, <2>1 DEF Path
  <2>2. CASE s # <<>>
    <3>1. 1 \in 1 .. L /\ p = s[1]
      BY <1>1, <2>2 DEF Path
    <3> QED BY <1>1, <3>1
  <2> QED BY <2>1, <2>2
<1> HIDE DEF L, C, a, V
<1>3. \A i \in 1 .. L + 1 : SubSeq(a, 1, i) \in Seq(V) /\ Len(SubSeq(a, 1, i)) = i
                          /\ SubSeq(a, 1, i)[i] = a[i]
  BY <1>1
<1>4. SubSeq(a, 1, 1) = <<p>>
  <2> DEFINE q == SubSeq(a, 1, 1)
  <2>1. 1 \in 1 .. L + 1
    BY <1>1
  <2>2. q \in Seq(V) /\ Len(q) = 1 /\ q[1] = p
    BY <1>2, <1>3, <2>1
  <2> HIDE DEF q
  <2>3. q = <<p>>
    BY <2>2
  <2> QED BY <2>3 DEF q
<1>5. SubSeq(a, 1, L + 1) = a
  BY <1>1
<1>6. \A i \in 1 .. L : Append(SubSeq(a, 1, i), a[i + 1]) = SubSeq(a, 1, i + 1)
  BY <1>1
<1>7. g[0] = <<p>>
  BY <1>1, <1>4
<1>8. \A i \in 1 .. C : g[i] = Turn(g[i - 1])
  <2> TAKE i \in 1 .. C
  <2>1. CASE i <= L
    <3>1. g[i] = SubSeq(a, 1, i + 1) /\ g[i - 1] = SubSeq(a, 1, i)
      BY <1>1, <2>1
    <3>2. i \in 1 .. L /\ i \in 1 .. L + 1
      BY <1>1, <2>1
    <3> HIDE DEF g
    <3>3. g[i - 1][Len(g[i - 1])] = a[i]
      BY <1>3, <3>1, <3>2
    <3> QED BY <1>1, <1>6, <3>1, <3>2, <3>3
  <2>2. CASE i > L
    <3>1. g[i] = a /\ g[i - 1] = a
      <4>1. CASE i = L + 1
        BY <1>1, <1>5, <4>1
      <4>2. CASE i # L + 1
        BY <1>1, <2>2, <4>2
      <4> QED BY <4>1, <4>2
    <3> HIDE DEF g
    <3>2. a[Len(a)] \notin S
      BY <1>1
    <3> QED BY <3>1, <3>2
  <2> QED BY <1>1, <2>1, <2>2
<1>9. g[C] = a
  <2>1. CASE C = L
    BY <1>1, <1>5, <2>1
  <2>2. CASE C # L
    BY <1>1, <2>2
  <2> QED BY <2>1, <2>2
<1>10. After(g)
  <2> DEFINE h == [n \in 0 .. C |-> IF n = 0 THEN <<p>> ELSE Turn(g[n - 1])]
  <2>1. \A i \in 0 .. C : h[i] = g[i]
    <3> TAKE i \in 0 .. C
    <3> HIDE DEF g, Turn
    <3>1. i = 0 \/ i \in 1 .. C
      BY <1>1
    <3> QED BY <1>7, <1>8, <3>1
  <2>2. g = [i \in 0 .. C |-> g[i]] /\ h = [i \in 0 .. C |-> h[i]]
    OBVIOUS
  <2> HIDE DEF g, h, Turn
  <2>3. g = h
    BY <2>1, <2>2
  <2> QED BY <2>3 DEF h
<1> DEFINE f == CHOOSE h : After(h)
<1>11. After(f)
  <2> HIDE DEF After, g
  <2> QED BY <1>10
<1>12. ChainOf(S, nx, p) = f[C]
  BY DEF ChainOf, C
<1> HIDE DEF f, Turn
<1>13. f[0] = <<p>> /\ \A i \in 1 .. C : f[i] = Turn(f[i - 1])
  <2>1. \A i \in 0 .. C : f[i] = IF i = 0 THEN <<p>> ELSE Turn(f[i - 1])
    BY <1>11
  <2>2. 0 \in 0 .. C /\ \A i \in 1 .. C : i \in 0 .. C /\ i # 0
    BY <1>1
  <2> QED BY <2>1, <2>2
<1> DEFINE T == {i \in Nat : i <= C => f[i] = g[i]}
<1> HIDE DEF g, After
<1>14. 0 \in T
  BY <1>7, <1>13
<1>15. \A i \in Nat : i \in T => i + 1 \in T
  <2> TAKE i \in Nat
  <2>1. SUFFICES ASSUME i \in T, i + 1 <= C PROVE f[i + 1] = g[i + 1]
    OBVIOUS
  <2>2. i <= C /\ i + 1 \in 1 .. C /\ (i + 1) - 1 = i
    BY <1>1, <2>1
  <2>3. f[i + 1] = Turn(f[i]) /\ g[i + 1] = Turn(g[i])
    BY <1>8, <1>13, <2>2
  <2> QED BY <2>1, <2>2, <2>3
<1>16. Nat \subseteq T
  <2> HIDE DEF T
  <2> QED BY <1>14, <1>15, Induct
<1>17. f[C] = g[C]
  BY <1>1, <1>16
<1> QED BY <1>9, <1>12, <1>17 DEF a

LEMMA PathOfAll ==
  ASSUME NEW S, IsFiniteSet(S), S # {}, NEW p, NEW nx, LinkedAll(S, p, nx)
  PROVE  \E s : Path(S, nx, p, s) /\ Len(s) = Cardinality(S) /\ \A x \in S : IsIn(s, x)
<1> DEFINE m == Cardinality(S)  D == 1 .. m
<1>1. m \in Nat /\ m # 0
  BY FS_CardinalityType, FS_EmptySet
<1>2. PICK s \in [D -> S] :
        /\ \A i, j \in DOMAIN s : s[i] = s[j] => i = j
        /\ p = s[1]
        /\ \A i \in DOMAIN s : nx[s[i]] = IF i = m THEN Null ELSE s[i + 1]
  BY DEF LinkedAll
<1>2a. D = 1 .. m /\ DOMAIN s = D
  BY <1>2
<1>2b. m = Cardinality(S)
  OBVIOUS
<1> HIDE DEF m, D
<1>3. s \in Seq(S) /\ Len(s) = m /\ s # <<>>
  BY <1>1, <1>2, <1>2a
<1>4. Path(S, nx, p, s)
  BY <1>2, <1>2a, <1>3 DEF Path
<1>5. s \in Injection(D, S)
  BY <1>2, <1>2a DEF Injection, IsInjective
<1>6. Cardinality(D) = m
  <2>1. 1 \in Int /\ m \in Int
    BY <1>1
  <2>2. Cardinality(1 .. m) = IF 1 > m THEN 0 ELSE m - 1 + 1
    BY <2>1, FS_Interval
  <2> QED BY <1>1, <1>2a, <2>2
<1>7. s \in Surjection(D, S)
  BY <1>2b, <1>5, <1>6, FS_Injection
<1>8. \A x \in S : IsIn(s, x)
  BY <1>2a, <1>7 DEF Surjection, IsIn
<1> QED BY <1>2b, <1>3, <1>4, <1>8

(* The list s is turned and put before the list f, whose first is g.       *)
Turned(s, f) ==
  [i \in 1 .. Len(s) + Len(f) |-> IF i <= Len(s) THEN s[Len(s) + 1 - i] ELSE f[i - Len(s)]]
TurnedLinks(ny, s, g) == \A i \in 1 .. Len(s) : ny[s[i]] = IF i = 1 THEN g ELSE s[i - 1]
Apart(s, f) == \A x : ~(IsIn(s, x) /\ IsIn(f, x))
Both(s, f, r) == \A x : IsIn(r, x) <=> IsIn(s, x) \/ IsIn(f, x)

LEMMA PathTurn ==
  ASSUME NEW S, NEW nx, NEW ny, NEW p, NEW s, Path(S, nx, p, s), NEW g, NEW f, Path(S, nx, g, f),
         Null \notin S, Apart(s, f), SameLinks(nx, ny, f), TurnedLinks(ny, s, g),
         NEW r, r = Turned(s, f), NEW o, o = IF s = <<>> THEN g ELSE s[Len(s)]
  PROVE  Path(S, ny, o, r) /\ Both(s, f, r)
<1> DEFINE m == Len(s)  n == Len(f)
<1>1. /\ s \in Seq(S) /\ f \in Seq(S) /\ m \in Nat /\ n \in Nat
      /\ \A i, j \in 1 .. m : s[i] = s[j] => i = j
      /\ \A i, j \in 1 .. n : f[i] = f[j] => i = j
      /\ \A i \in 1 .. n : ny[f[i]] = IF i = n THEN Null ELSE f[i + 1]
      /\ g = IF f = <<>> THEN Null ELSE f[1]
      /\ DOMAIN s = 1 .. m /\ DOMAIN f = 1 .. n
  BY DEF Path, SameLinks
<1>1a. m = Len(s) /\ n = Len(f) /\ (s = <<>> <=> m = 0) /\ (f = <<>> <=> n = 0)
  BY DEF Path
<1>1b. /\ \A i \in 1 .. m : s[i] \in S
       /\ \A i \in 1 .. n : f[i] \in S
  BY DEF Path
<1>1c. r = [i \in 1 .. m + n |-> IF i <= m THEN s[m + 1 - i] ELSE f[i - m]]
  BY DEF Turned
<1>1d. \A i \in 1 .. m : ny[s[i]] = IF i = 1 THEN g ELSE s[i - 1]
  BY DEF TurnedLinks
<1> HIDE DEF m, n
<1>2. /\ \A i \in 1 .. m : m + 1 - i \in 1 .. m /\ i \in 1 .. m + n
      /\ \A i \in 1 .. m + n : i \in 1 .. m \/ (i > m /\ i - m \in 1 .. n)
  BY <1>1
<1>3. /\ \A i \in 1 .. m : r[i] = s[m + 1 - i] /\ r[i] \in S
      /\ \A i \in 1 .. m + n : i > m => r[i] = f[i - m] /\ r[i] \in S
  <2>1. \A i \in 1 .. m + n : r[i] = IF i <= m THEN s[m + 1 - i] ELSE f[i - m]
    BY <1>1c
  <2>2. \A i \in 1 .. m : i <= m
    BY <1>1
  <2>3. ASSUME NEW i \in 1 .. m PROVE r[i] = s[m + 1 - i] /\ r[i] \in S
    <3>1. r[i] = s[m + 1 - i] /\ m + 1 - i \in 1 .. m
      BY <1>2, <2>1, <2>2
    <3> QED BY <1>1b, <3>1
  <2>4. ASSUME NEW i \in 1 .. m + n, i > m PROVE r[i] = f[i - m] /\ r[i] \in S
    <3>1. i - m \in 1 .. n /\ ~(i <= m)
      BY <1>1, <2>4
    <3> QED BY <1>1b, <2>1, <3>1
  <2> QED BY <2>3, <2>4
<1>4. r \in Seq(S) /\ Len(r) = m + n
  <2>1. \A i \in 1 .. m + n : r[i] \in S
    BY <1>2, <1>3
  <2>2. m + n \in Nat
    BY <1>1
  <2>3. r \in [1 .. m + n -> S]
    BY <1>1c, <2>1
  <2> QED BY <2>2, <2>3
<1>5. \A i \in 1 .. m, j \in 1 .. n : s[i] # f[j]
  BY <1>1 DEF Apart, IsIn
<1>6. \A i, j \in 1 .. m + n : r[i] = r[j] => i = j
  <2> TAKE i, j \in 1 .. m + n
  <2>1. CASE i \in 1 .. m /\ j \in 1 .. m
    <3>1. m + 1 - i \in 1 .. m /\ m + 1 - j \in 1 .. m /\ (m + 1 - i = m + 1 - j => i = j)
      BY <1>1, <2>1
    <3>2. r[i] = s[m + 1 - i] /\ r[j] = s[m + 1 - j]
      BY <1>3, <2>1
    <3> QED BY <1>1, <3>1, <3>2
  <2>2. CASE i > m /\ j > m
    <3>1. i - m \in 1 .. n /\ j - m \in 1 .. n /\ (i - m = j - m => i = j)
      BY <1>1, <2>2
    <3>2. r[i] = f[i - m] /\ r[j] = f[j - m]
      BY <1>3, <2>2
    <3> QED BY <1>1, <3>1, <3>2
  <2>3. CASE i \in 1 .. m /\ j > m
    <3>1. r[i] = s[m + 1 - i] /\ r[j] = f[j - m] /\ m + 1 - i \in 1 .. m /\ j - m \in 1 .. n
      BY <1>1, <1>2, <1>3, <2>3
    <3> QED BY <1>5, <3>1
  <2>4. CASE i > m /\ j \in 1 .. m
    <3>1. r[j] = s[m + 1 - j] /\ r[i] = f[i - m] /\ m + 1 - j \in 1 .. m /\ i - m \in 1 .. n
      BY <1>1, <1>2, <1>3, <2>4
    <3> QED BY <1>5, <3>1
  <2> QED BY <1>2, <2>1, <2>2, <2>3, <2>4
<1>7. \A i \in 1 .. m + n : ny[r[i]] = IF i = m + n THEN Null ELSE r[i + 1]
  <2> TAKE i \in 1 .. m + n
  <2>1. CASE i > m
    <3>1. i - m \in 1 .. n /\ (i - m = n <=> i = m + n) /\ (i - m) + 1 = (i + 1) - m
      BY <1>1, <2>1
    <3>2. i # m + n => i + 1 \in 1 .. m + n /\ i + 1 > m
      BY <1>1, <2>1
    <3>3. r[i] = f[i - m] /\ (i # m + n => r[i + 1] = f[(i + 1) - m])
      BY <1>3, <2>1, <3>2
    <3>4. ny[f[i - m]] = IF i - m = n THEN Null ELSE f[(i - m) + 1]
      BY <1>1, <3>1
    <3> QED BY <3>1, <3>3, <3>4
  <2>2. CASE i \in 1 .. m /\ i # m
    <3> DEFINE j == m + 1 - i
    <3>1. j \in 1 .. m /\ j # 1 /\ j - 1 = m + 1 - (i + 1) /\ i + 1 \in 1 .. m /\ i # m + n
      BY <1>1, <2>2
    <3>2. r[i] = s[j] /\ r[i + 1] = s[m + 1 - (i + 1)]
      BY <1>3, <2>2, <3>1
    <3>2a. ny[s[j]] = s[j - 1]
      BY <1>1d, <3>1
    <3> HIDE DEF j
    <3> QED BY <3>1, <3>2, <3>2a
  <2>3. CASE i = m
    <3>1. m \in 1 .. m /\ 1 \in 1 .. m /\ m + 1 - m = 1
      BY <1>1, <2>3
    <3>2. r[i] = s[1] /\ ny[s[1]] = g
      BY <1>1d, <1>3, <2>3, <3>1
    <3>3. CASE n = 0
      BY <1>1, <1>1a, <2>3, <3>2, <3>3
    <3>4. CASE n # 0
      <4>1. i # m + n /\ i + 1 \in 1 .. m + n /\ i + 1 > m /\ (i + 1) - m = 1
        BY <1>1, <2>3, <3>4
      <4>2. r[i + 1] = f[1]
        BY <1>3, <4>1
      <4> QED BY <1>1, <1>1a, <3>2, <3>4, <4>1, <4>2
    <3> QED BY <3>3, <3>4
  <2> QED BY <1>2, <2>1, <2>2, <2>3
<1>8. o = IF r = <<>> THEN Null ELSE r[1]
  <2>1. CASE m # 0
    <3>1. 1 \in 1 .. m /\ m + 1 - 1 = m /\ Len(r) # 0
      BY <1>1, <1>4, <2>1
    <3>2. r[1] = s[m]
      BY <1>3, <3>1
    <3>3. r # <<>> /\ s # <<>>
      BY <1>1a, <2>1, <3>1
    <3> QED BY <1>1a, <3>2, <3>3
  <2>2. CASE m = 0 /\ n # 0
    <3>1. 1 \in 1 .. m + n /\ 1 > m /\ 1 - m = 1 /\ Len(r) # 0
      BY <1>1, <1>4, <2>2
    <3>2. r[1] = f[1]
      BY <1>3, <3>1
    <3>3. r # <<>> /\ s = <<>> /\ f # <<>>
      BY <1>1a, <2>2, <3>1
    <3> QED BY <1>1, <3>2, <3>3
  <2>3. CASE m = 0 /\ n = 0
    <3>1. r = <<>>
      BY <1>4, <2>3
    <3> QED BY <1>1, <1>1a, <2>3, <3>1
  <2> QED BY <2>1, <2>2, <2>3
<1>9. Path(S, ny, o, r)
  BY <1>4, <1>6, <1>7, <1>8 DEF Path
<1>10. \A x : IsIn(r, x) <=> IsIn(s, x) \/ IsIn(f, x)
  <2> TAKE x
  <2>1. ASSUME IsIn(r, x) PROVE IsIn(s, x) \/ IsIn(f, x)
    <3>1. PICK i \in 1 .. m + n : r[i] = x
      BY <1>4, <2>1 DEF IsIn
    <3>2. CASE i \in 1 .. m
      <4>1. m + 1 - i \in DOMAIN s /\ s[m + 1 - i] = x
        BY <1>1, <1>2, <1>3, <3>1, <3>2
      <4> QED BY <4>1 DEF IsIn
    <3>3. CASE i > m
      <4>1. i - m \in DOMAIN f /\ f[i - m] = x
        BY <1>1, <1>2, <1>3, <3>1, <3>3
      <4> QED BY <4>1 DEF IsIn
    <3> QED BY <1>2, <3>2, <3>3
  <2>2. ASSUME IsIn(s, x) PROVE IsIn(r, x)
    <3>1. PICK i \in 1 .. m : s[i] = x
      BY <1>1, <2>2 DEF IsIn
    <3>2. m + 1 - i \in 1 .. m /\ m + 1 - (m + 1 - i) = i /\ m + 1 - i \in 1 .. m + n
      BY <1>1
    <3>3. r[m + 1 - i] = x /\ m + 1 - i \in DOMAIN r
      BY <1>3, <1>4, <3>1, <3>2
    <3> QED BY <3>3 DEF IsIn
  <2>3. ASSUME IsIn(f, x) PROVE IsIn(r, x)
    <3>1. PICK i \in 1 .. n : f[i] = x
      BY <1>1, <2>3 DEF IsIn
    <3>2. i + m \in 1 .. m + n /\ i + m > m /\ (i + m) - m = i
      BY <1>1
    <3>3. r[i + m] = x /\ i + m \in DOMAIN r
      BY <1>3, <1>4, <3>1, <3>2
    <3> QED BY <3>3 DEF IsIn
  <2> QED BY <2>1, <2>2, <2>3
<1> QED BY <1>9, <1>10 DEF Both

-----------------------------------------------------------------------------
(* Each node of S is in the list s, in the list f, or in one of the hands. *)
Parted(S, s, f, h) ==
  /\ Apart(s, f)
  /\ \A n \in S : IsIn(s, n) \/ IsIn(f, n) \/ \E t \in Thread : n \in h[t]
  /\ \A t \in Thread : \A n \in h[t] : ~IsIn(s, n) /\ ~IsIn(f, n)
  /\ \A t, u \in Thread : t # u => h[t] \cap h[u] = {}

(* One hand takes n, or gives n away. *)
HandTakes(h, g, c, n) == g[c] = h[c] \cup {n} /\ \A t \in Thread \ {c} : g[t] = h[t]
HandGives(h, g, c, n) == n \in h[c] /\ g[c] = h[c] \ {n} /\ \A t \in Thread \ {c} : g[t] = h[t]
SameHands(h, g) == \A t \in Thread : g[t] = h[t]

LEMMA PartedHands ==
  ASSUME NEW S, NEW s, NEW f, NEW h, Parted(S, s, f, h), NEW g, SameHands(h, g)
  PROVE  Parted(S, s, f, g)
BY DEF Parted, SameHands

LEMMA PartedTurn ==
  ASSUME NEW S, NEW s, NEW f, NEW h, Parted(S, s, f, h)
  PROVE  Parted(S, f, s, h)
BY DEF Parted, Apart

LEMMA PartedTake ==
  ASSUME NEW S, NEW s, NEW f, NEW h, Parted(S, s, f, h), NEW n, IsIn(f, n),
         NEW r, OneLess(f, r, n), NEW c \in Thread, NEW g, HandTakes(h, g, c, n)
  PROVE  Parted(S, s, r, g)
<1>1. \A t \in Thread : \A x : x \in g[t] <=> x \in h[t] \/ (t = c /\ x = n)
  BY DEF HandTakes
<1>2. \A t \in Thread : n \notin h[t]
  BY DEF Parted
<1>3. Apart(s, r)
  BY DEF Parted, Apart, OneLess
<1>4. \A x \in S : IsIn(s, x) \/ IsIn(r, x) \/ \E t \in Thread : x \in g[t]
  BY <1>1 DEF Parted, OneLess
<1>5. \A t \in Thread : \A x \in g[t] : ~IsIn(s, x) /\ ~IsIn(r, x)
  BY <1>1 DEF Parted, OneLess, Apart
<1>6. \A t, u \in Thread : t # u => g[t] \cap g[u] = {}
  <2> SUFFICES ASSUME NEW t \in Thread, NEW u \in Thread, t # u, NEW x, x \in g[t], x \in g[u]
               PROVE  FALSE
    OBVIOUS
  <2>1. x \in h[t] /\ x \in h[u]
    BY <1>1, <1>2
  <2> QED BY <2>1 DEF Parted
<1> QED BY <1>3, <1>4, <1>5, <1>6 DEF Parted

LEMMA PartedGive ==
  ASSUME NEW S, NEW s, NEW f, NEW h, Parted(S, s, f, h), NEW n, NEW r, OneMore(f, r, n),
         NEW c \in Thread, NEW g, HandGives(h, g, c, n)
  PROVE  Parted(S, s, r, g)
<1>1. \A t \in Thread : \A x : x \in g[t] <=> x \in h[t] /\ ~(t = c /\ x = n)
  BY DEF HandGives
<1>2. ~IsIn(s, n) /\ ~IsIn(f, n) /\ \A t \in Thread \ {c} : n \notin h[t]
  BY DEF Parted, HandGives
<1>3. Apart(s, r)
  BY <1>2 DEF Parted, Apart, OneMore
<1>4. \A x \in S : IsIn(s, x) \/ IsIn(r, x) \/ \E t \in Thread : x \in g[t]
  BY <1>1 DEF Parted, OneMore
<1>5. \A t \in Thread : \A x \in g[t] : ~IsIn(s, x) /\ ~IsIn(r, x)
  BY <1>1, <1>2 DEF Parted, OneMore
<1>6. \A t, u \in Thread : t # u => g[t] \cap g[u] = {}
  BY <1>1 DEF Parted
<1> QED BY <1>3, <1>4, <1>5, <1>6 DEF Parted

LEMMA PartedMove ==
  ASSUME NEW S, NEW s, NEW f, NEW h, Parted(S, s, f, h), NEW n, IsIn(f, n),
         NEW r, OneLess(f, r, n), NEW q, OneMore(s, q, n)
  PROVE  Parted(S, q, r, h)
BY DEF Parted, Apart, OneLess, OneMore

LEMMA PartedJoin ==
  ASSUME NEW S, NEW s, NEW f, NEW h, Parted(S, s, f, h), NEW r, Both(s, f, r)
  PROVE  Parted(S, <<>>, r, h)
<1>1. \A x : ~IsIn(<<>>, x)
  BY DEF IsIn
<1> QED BY <1>1 DEF Parted, Apart, Both

-----------------------------------------------------------------------------
(* What the nodes of a list hold *)
Held(s, d) == [i \in 1 .. Len(s) |-> d[s[i]]]
SameCells(s, d, e) == \A i \in 1 .. Len(s) : e[s[i]] = d[s[i]]

LEMMA HeldIs ==
  ASSUME NEW S, IsFiniteSet(S), NEW nx, NEW p, NEW s, Path(S, nx, p, s), Null \notin S
  PROVE  /\ SubSeq(ChainOf(S, nx, p), 1, Len(ChainOf(S, nx, p)) - 1) = s
<1> DEFINE a == Append(s, Null)
<1>1. s \in Seq(S)
  BY DEF Path
<1>2. ChainOf(S, nx, p) = a
  BY ChainPath
<1>3. Len(a) - 1 = Len(s) /\ SubSeq(a, 1, Len(s)) = s
  BY <1>1
<1> QED BY <1>2, <1>3

LEMMA HeldSeq ==
  ASSUME NEW S, NEW s \in Seq(S), NEW V, NEW d \in [S -> V]
  PROVE  Held(s, d) \in Seq(V) /\ Len(Held(s, d)) = Len(s)
<1>1. \A i \in 1 .. Len(s) : d[s[i]] \in V
  OBVIOUS
<1> QED BY <1>1 DEF Held

LEMMA HeldSame ==
  ASSUME NEW s, NEW d, NEW e, SameCells(s, d, e)
  PROVE  Held(s, e) = Held(s, d)
BY DEF Held, SameCells

LEMMA HeldRest ==
  ASSUME NEW S, NEW s \in Seq(S), NEW V, NEW d \in [S -> V], s # <<>>, NEW r, r = Rest(s)
  PROVE  Shorter(Held(s, d), Held(r, d), d[s[1]])
<1> DEFINE a == Held(s, d)  b == Held(r, d)  n == Len(s)  c == SubSeq(a, 2, n)
<1>1. a \in Seq(V) /\ Len(a) = n /\ n \in Nat /\ n > 0
  BY HeldSeq
<1>2. r \in Seq(S) /\ Len(r) = n - 1 /\ \A i \in 1 .. n - 1 : r[i] = s[i + 1]
  <2>1. r = SubSeq(s, 2, n) /\ n = Len(s)
    BY DEF Rest
  <2> HIDE DEF n
  <2>2. r \in Seq(S) /\ Len(r) = n - 1
    BY <1>1, <2>1
  <2>3. \A i \in 1 .. n - 1 : r[i] = s[i + 1]
    BY <1>1, <2>1
  <2> QED BY <2>2, <2>3
<1>3. a = [i \in 1 .. n |-> d[s[i]]] /\ b = [i \in 1 .. n - 1 |-> d[r[i]]]
  BY <1>2 DEF Held
<1> HIDE DEF a, b, n
<1>4. a[1] = d[s[1]]
  BY <1>1, <1>3
<1>5. c = [i \in 1 .. n - 1 |-> a[i + 1]]
  <2>1. c \in Seq(V) /\ Len(c) = n - 1
    BY <1>1
  <2>2. \A i \in 1 .. n - 1 : c[i] = a[i + 1]
    BY <1>1
  <2> HIDE DEF c
  <2>3. c = [i \in 1 .. n - 1 |-> c[i]]
    BY <1>1, <2>1
  <2> QED BY <2>2, <2>3
<1>6. \A i \in 1 .. n - 1 : a[i + 1] = d[r[i]]
  <2> TAKE i \in 1 .. n - 1
  <2>1. i + 1 \in 1 .. n
    BY <1>1
  <2> QED BY <1>2, <1>3, <2>1
<1> HIDE DEF c
<1>7. b = c
  BY <1>3, <1>5, <1>6
<1> QED BY <1>1, <1>4, <1>7 DEF Shorter, a, b, c, n

LEMMA HeldAppend ==
  ASSUME NEW S, NEW s \in Seq(S), NEW V, NEW d \in [S -> V], NEW n \in S,
         NEW r, Longer(s, r, n)
  PROVE  Longer(Held(s, d), Held(r, d), d[n])
<1> DEFINE a == Held(s, d)  b == Held(r, d)  m == Len(s)  c == Append(a, d[n])
<1>1. a \in Seq(V) /\ Len(a) = m /\ m \in Nat
  BY HeldSeq
<1>2. r \in Seq(S) /\ Len(r) = m + 1 /\ r[m + 1] = n /\ \A i \in 1 .. m : r[i] = s[i]
  BY DEF Longer
<1>3. a = [i \in 1 .. m |-> d[s[i]]] /\ b = [i \in 1 .. m + 1 |-> d[r[i]]]
  BY <1>2 DEF Held
<1> HIDE DEF a, b, m
<1>5. c = [i \in 1 .. m + 1 |-> c[i]] /\ c[m + 1] = d[n] /\ \A i \in 1 .. m : c[i] = a[i]
  <2>1. c \in Seq(V) /\ Len(c) = m + 1
    BY <1>1
  <2>2. c[m + 1] = d[n] /\ \A i \in 1 .. m : c[i] = a[i]
    BY <1>1
  <2> HIDE DEF c
  <2>3. c = [i \in 1 .. m + 1 |-> c[i]]
    BY <1>1, <2>1
  <2> QED BY <2>2, <2>3
<1>6. \A i \in 1 .. m + 1 : c[i] = d[r[i]]
  <2> HIDE DEF c
  <2> TAKE i \in 1 .. m + 1
  <2>1. i = m + 1 \/ i \in 1 .. m
    BY <1>1
  <2> QED BY <1>2, <1>3, <1>5, <2>1
<1> HIDE DEF c
<1>7. b = c
  BY <1>3, <1>5, <1>6
<1> QED BY <1>7 DEF Longer, a, b, c

LEMMA HeldPush ==
  ASSUME NEW S, NEW s \in Seq(S), NEW V, NEW d \in [S -> V], NEW n \in S,
         NEW r, Pushed(s, r, n)
  PROVE  Pushed(Held(s, d), Held(r, d), d[n])
<1> DEFINE a == Held(s, d)  b == Held(r, d)  m == Len(s)  c == <<d[n]>> \o a
<1>1. a \in Seq(V) /\ Len(a) = m /\ m \in Nat
  BY HeldSeq
<1>2. r \in Seq(S) /\ Len(r) = m + 1 /\ r[1] = n /\ \A i \in 2 .. m + 1 : r[i] = s[i - 1]
  BY DEF Pushed
<1>3. a = [i \in 1 .. m |-> d[s[i]]] /\ b = [i \in 1 .. m + 1 |-> d[r[i]]]
  BY <1>2 DEF Held
<1> HIDE DEF a, b, m
<1>5. c = [i \in 1 .. m + 1 |-> c[i]] /\ c[1] = d[n] /\ \A i \in 2 .. m + 1 : c[i] = a[i - 1]
  <2>1. c \in Seq(V) /\ Len(c) = m + 1
    BY <1>1
  <2>2. c[1] = d[n] /\ \A i \in 2 .. m + 1 : c[i] = a[i - 1]
    BY <1>1
  <2> HIDE DEF c
  <2>3. c = [i \in 1 .. m + 1 |-> c[i]]
    BY <1>1, <2>1
  <2> QED BY <2>2, <2>3
<1>6. \A i \in 1 .. m + 1 : c[i] = d[r[i]]
  <2> HIDE DEF c
  <2> TAKE i \in 1 .. m + 1
  <2>1. i = 1 \/ (i \in 2 .. m + 1 /\ i - 1 \in 1 .. m)
    BY <1>1
  <2> QED BY <1>2, <1>3, <1>5, <2>1
<1> HIDE DEF c
<1>7. b = c
  BY <1>3, <1>5, <1>6
<1> QED BY <1>7 DEF Pushed, a, b, c

LEMMA InAppend ==
  ASSUME NEW S, NEW s \in Seq(S), NEW y, NEW x, x # y
  PROVE  IsIn(Append(s, y), x) <=> IsIn(s, x)
<1> DEFINE r == Append(s, y)  n == Len(s)
<1>1. /\ n \in Nat /\ DOMAIN s = 1 .. n /\ DOMAIN r = 1 .. n + 1
      /\ r[n + 1] = y /\ \A i \in 1 .. n : r[i] = s[i]
  OBVIOUS
<1>2. \A i \in 1 .. n + 1 : i = n + 1 \/ i \in 1 .. n
  BY <1>1
<1>3. \A i \in 1 .. n : i \in 1 .. n + 1
  BY <1>1
<1> HIDE DEF r, n
<1>4. IsIn(r, x) <=> IsIn(s, x)
  BY <1>1, <1>2, <1>3 DEF IsIn
<1> QED BY <1>4 DEF r

-----------------------------------------------------------------------------
(* The message queue                                                       *)

MqRecvCalls == {"recv_sched", "recv_error", "recv_again"}
MqHolding == {"send_copy", "send_link", "urgent_copy", "urgent_link", "recv_copy", "recv_free"}

(* What the calls hold *)
MqHands(p, nd) == [t \in Thread |-> IF p[t] \in MqHolding THEN {nd[t]} ELSE {}]

(* The queue is the list s, the free nodes are the list f, and the others  *)
(* are in the hands of calls.                                              *)
MqHeap(s, f) ==
  /\ Path(Node, next, head, s) /\ Path(Node, next, free, f)
  /\ entry = Len(s)
  /\ tail = IF s = <<>> THEN Null ELSE s[Len(s)]
  /\ Parted(Node, s, f, MqHands(pc, node))

MqMemory == \E s, f : MqHeap(s, f)

(* What a call has done with its node so far *)
MqMarks ==
  \A t \in Thread :
    /\ pc[t] = "send_link" => next[node[t]] = Null
    /\ pc[t] = "recv_copy" => data[node[t]] = item[t]
    /\ pc[t] = "recv_free" => got[t] = item[t]

(* Messages are matched by the receivers woken for them. *)
MqCalls ==
  /\ Sound(k, pc) /\ Calm(k) /\ k.nest = 0
  /\ Matched(entry, k, pc, MqRecvCalls, Receivers)

MqCallers ==
  /\ pc \in [Thread -> MqPC] /\ pc[Idle] = "app"
  /\ node \in [Thread -> Node] /\ item \in [Thread -> Payload] /\ got \in [Thread -> Payload]
  /\ timed \subseteq Thread

MqCells ==
  /\ next \in [Node -> MqPointer] /\ data \in [Node -> Payload]
  /\ last \in {<<>>} \cup {<<x>> : x \in Payload}

MqInv == MqCalls /\ MqCallers /\ MqCells /\ MqMemory /\ MqMarks

LEMMA MqFacts ==
  ASSUME MessageQueueAssumption, MqInv
  PROVE  /\ CallsAssumption /\ Sound(k, pc) /\ KernelOK(k) /\ DOMAIN pc = Thread /\ k.nest = 0
         /\ Me \in Thread /\ Me = k.cur /\ k.err \in [Thread -> Error] /\ pc \in [Thread -> MqPC]
         /\ Receivers \in {Receivers, Senders} /\ Senders \in {Receivers, Senders}
         /\ Receivers # Senders /\ Calm(k)
         /\ entry \in Nat /\ IsFiniteSet(Node) /\ Null \notin Node
         /\ pc[Me] # "app" => Me # Idle
         /\ Me \in MqMaySend \cup MqMayRecv => Me # Idle
<1>1. CallsAssumption /\ Sound(k, pc) /\ DOMAIN pc = Thread /\ pc \in [Thread -> MqPC] /\ k.nest = 0
      /\ pc[Idle] = "app"
  BY DEF MessageQueueAssumption, MqInv, MqCalls, MqCallers
<1>2. KernelOK(k) /\ k.cur \in Thread /\ k.err \in [Thread -> Error]
  BY <1>1, SoundFacts
<1>3. entry \in Nat
  <2>1. PICK s, f : MqHeap(s, f)
    BY DEF MqInv, MqMemory
  <2> QED BY <2>1 DEF MqHeap, Path
<1> QED BY <1>1, <1>2, <1>3, CallFacts DEF Me, MqInv, MqCalls, MessageQueueAssumption

-----------------------------------------------------------------------------
(* The calls *)

LEMMA MqPlaces ==
  /\ MqRecvCalls \cap SendPlaces = {} /\ MqRecvCalls \cap Others(Receivers) = {}
  /\ \A b \in MqPC : b \in RecvPlaces => b \in MqRecvCalls
BY DEF MqRecvCalls, SendPlaces, RecvPlaces, MqPC, Others

(* A message is linked in and a receiver woken. *)
LEMMA MqGives ==
  ASSUME MessageQueueAssumption, IsFiniteSet(Thread), MqInv,
         entry' = entry + 1, Sound(k', pc'), Wakes(k, k', First(k, Receivers)), k'.err = k.err,
         Remain(pc, pc', MqRecvCalls)
  PROVE  MqCalls'
<1>1. /\ CallsAssumption /\ Sound(k, pc) /\ KernelOK(k) /\ k.nest = 0
      /\ pc \in [Thread -> MqPC] /\ Calm(k) /\ entry \in Nat
      /\ Receivers \in {Receivers, Senders}
  BY MqFacts
<1>2. k'.nest = 0
  BY <1>1 DEF Wakes
<1>3. Calm(k')
  BY <1>1, CalmWakes
<1>4. Matched(entry, k, pc, MqRecvCalls, Receivers)
  BY DEF MqInv, MqCalls
<1>5. entry \in Int /\ entry + 1 \in Int /\ entry + 1 <= entry + 1
  BY <1>1
<1>6. WaitAt(k, pc, MqRecvCalls, Receivers)
  BY <1>1, MqPlaces DEF Sound, WaitAt
<1>7. Matched(entry + 1, k', pc', MqRecvCalls, Receivers)
  BY <1>1, <1>4, <1>5, <1>6, MatchedGiven
<1> QED BY <1>2, <1>3, <1>7 DEF MqCalls

(* The current thread takes one. *)
LEMMA MqTakes ==
  ASSUME MessageQueueAssumption, IsFiniteSet(Thread), MqInv,
         entry' = entry - 1, k' = k, Sound(k', pc'),
         \A t \in Thread \ {Me} : pc'[t] = pc[t]
  PROVE  MqCalls'
<1>1. /\ CallsAssumption /\ Sound(k, pc) /\ KernelOK(k) /\ k.nest = 0
      /\ Calm(k) /\ entry \in Nat /\ Receivers \in {Receivers, Senders}
  BY MqFacts
<1> DEFINE m == entry - 1
<1>2. entry \in Int /\ m \in Int /\ m <= entry - 1 /\ entry' = m
  BY <1>1
<1>3. Awakens(k, pc, k', {})
  BY <1>1, WakesNobody DEF Awakens
<1>4. OnlyMoves(pc, pc', Me)
  BY DEF OnlyMoves
<1>5. Matched(entry, k, pc, MqRecvCalls, Receivers)
  BY DEF MqInv, MqCalls
<1>6. MqRecvCalls \cap Others(Receivers) = {}
  BY MqPlaces
<1> HIDE DEF m
<1>7. Matched(m, k', pc', MqRecvCalls, Receivers)
  BY <1>1, <1>2, <1>3, <1>4, <1>5, <1>6, MatchedWakesTaken
<1> QED BY <1>1, <1>2, <1>7 DEF MqCalls

(* The current thread queues at the empty queue. *)
LEMMA MqQueues ==
  ASSUME MessageQueueAssumption, IsFiniteSet(Thread), MqInv, entry' = entry, entry = 0,
         Sound(k', pc'), Joins(k, k', Receivers),
         k'.err[Me] = "EOK", \A t \in Thread \ {Me} : k'.err[t] = k.err[t]
  PROVE  MqCalls'
<1>1. k.nest = 0 /\ Calm(k) /\ Me = k.cur
  BY MqFacts
<1>2. k'.nest = 0
  BY <1>1 DEF Joins
<1>3. Calm(k')
  BY <1>1, CalmJoins
<1>4. entry \in Int /\ entry <= 0
  OBVIOUS
<1>5. Matched(entry, k', pc', MqRecvCalls, Receivers)
  BY <1>4, MatchedNothing
<1> QED BY <1>2, <1>3, <1>5 DEF MqCalls

LEMMA MqRestful ==
  ASSUME MessageQueueAssumption, IsFiniteSet(Thread), MqInv, entry' = entry,
         NEW X, Awakens(k, pc, k', X), Sound(k', pc'), Remain(pc, pc', MqRecvCalls)
  PROVE  MqCalls'
<1>1. /\ CallsAssumption /\ KernelOK(k) /\ k.nest = 0 /\ Calm(k) /\ entry \in Nat
      /\ Receivers \in {Receivers, Senders}
  BY MqFacts
<1>2. k'.nest = 0
  BY <1>1 DEF Wakes, Awakens
<1>3. Calm(k')
  BY <1>1, CalmWakes DEF Awakens
<1>4. entry \in Int /\ entry <= entry /\ Matched(entry, k, pc, MqRecvCalls, Receivers)
  BY <1>1 DEF MqInv, MqCalls
<1>5. MqRecvCalls \cap Others(Receivers) = {}
  BY MqPlaces
<1>6. Matched(entry, k', pc', MqRecvCalls, Receivers)
  BY <1>1, <1>4, <1>5, MatchedWakes
<1> QED BY <1>2, <1>3, <1>6 DEF MqCalls

(* The current thread, which has nothing to take, leaves. *)
LEMMA MqLeaves ==
  ASSUME MessageQueueAssumption, IsFiniteSet(Thread), MqInv, entry' = entry,
         Sound(k', pc'), Wakes(k, k', {}),
         \A t \in Thread \ {Me} : k'.err[t] = k.err[t] /\ pc'[t] = pc[t],
         ~Waits(k, Receivers, Me), ~Waits(k, Senders, Me),
         entry = 0 \/ k.err[Me] # "EOK"
  PROVE  MqCalls'
<1>1. k.nest = 0 /\ Calm(k) /\ entry \in Nat /\ Me \in Thread
  BY MqFacts
<1>2. /\ k'.nest = 0
      /\ \A t \in Thread : /\ Waits(k', Receivers, t) <=> Waits(k, Receivers, t)
                           /\ Waits(k', Senders, t) <=> Waits(k, Senders, t)
  BY <1>1 DEF Wakes
<1>3. Calm(k')
  BY <1>1, <1>2 DEF Calm
<1>4. entry \in Int /\ entry <= entry /\ Matched(entry, k, pc, MqRecvCalls, Receivers)
  BY <1>1 DEF MqInv, MqCalls
<1>5. Matched(entry, k', pc', MqRecvCalls, Receivers)
  <2>1. CASE entry = 0
    <3>1. entry \in Int /\ entry <= 0
      BY <2>1
    <3> QED BY <3>1, MatchedNothing
  <2>2. CASE ~(entry = 0)
    <3>1. Me \notin WokenFor(k, pc, MqRecvCalls, Receivers)
      BY <1>1, <2>2 DEF WokenFor
    <3>2. WokenFor(k, pc, MqRecvCalls, Receivers) \subseteq WokenFor(k', pc', MqRecvCalls, Receivers)
      BY <1>2, <3>1 DEF WokenFor
    <3>3. \A t \in Thread : Waits(k', Receivers, t) => \E x \in Thread : Waits(k, Receivers, x)
      BY <1>2
    <3> QED BY <1>4, <3>2, <3>3, MatchedKept
  <2> QED BY <2>1, <2>2
<1> QED BY <1>2, <1>3, <1>5 DEF MqCalls

-----------------------------------------------------------------------------
(* The memory *)

MqMove == FifoMove(MqContents, MqContents', last, last', Cardinality(Node), Payload, {"urgent", "reset"})

LEMMA MqPathIn ==
  ASSUME MessageQueueAssumption, NEW s, NEW f, MqHeap(s, f)
  PROVE  /\ IsFiniteSet(Node) /\ Null \notin Node
         /\ Path(Node, next, head, s) /\ Path(Node, next, free, f)
         /\ s \in Seq(Node) /\ f \in Seq(Node)
         /\ s = <<>> <=> head = Null
         /\ f = <<>> <=> free = Null
         /\ MqContents = Held(s, data)
         /\ Apart(s, f)
         /\ Parted(Node, s, f, MqHands(pc, node))
         /\ entry = Len(s) /\ entry \in Nat
         /\ s # <<>> => head = s[1] /\ tail = s[Len(s)] /\ head \in Node /\ tail \in Node
                        /\ IsIn(s, tail) /\ IsIn(s, head)
         /\ s = <<>> => tail = Null
<1>1. IsFiniteSet(Node) /\ Null \notin Node
  BY DEF MessageQueueAssumption
<1>2. /\ Path(Node, next, head, s) /\ Path(Node, next, free, f)
      /\ entry = Len(s) /\ tail = (IF s = <<>> THEN Null ELSE s[Len(s)])
      /\ Parted(Node, s, f, MqHands(pc, node)) /\ Apart(s, f)
  BY DEF MqHeap, Parted
<1>3. /\ s \in Seq(Node)
      /\ s = <<>> <=> head = Null
      /\ Len(s) \in Nat
      /\ s # <<>> => head \in Node /\ head = s[1] /\ IsIn(s, head) /\ s[Len(s)] \in Node /\ IsIn(s, s[Len(s)])
  BY <1>1, <1>2, PathEmpty
<1>4. /\ f \in Seq(Node)
      /\ f = <<>> <=> free = Null
  BY <1>1, <1>2, PathEmpty
<1>5. MqMessages = s
  BY <1>1, <1>2, HeldIs DEF MqMessages, MqChain
<1>6. MqContents = Held(s, data)
  BY <1>5 DEF MqContents, Held
<1>7. s = <<>> => tail = Null
  BY <1>2
<1>8. s # <<>> => tail = s[Len(s)] /\ tail \in Node /\ IsIn(s, tail)
  BY <1>2, <1>3
<1> QED BY <1>1, <1>2, <1>3, <1>4, <1>6, <1>7, <1>8

LEMMA MqContentsThen ==
  ASSUME IsFiniteSet(Node), Null \notin Node, NEW s, Path(Node, next', head', s)
  PROVE  MqContents' = Held(s, data')
<1>1. MqMessages' = s
  BY HeldIs DEF MqMessages, MqChain
<1> QED BY <1>1 DEF MqContents, Held

LEMMA MqShort ==
  ASSUME MessageQueueAssumption, NEW s, NEW f, MqHeap(s, f), NEW n \in Node, ~IsIn(s, n)
  PROVE  Len(s) < Cardinality(Node)
<1>1. IsFiniteSet(Node) /\ Path(Node, next, head, s) /\ s \in Seq(Node)
  BY MqPathIn
<1> DEFINE S == Node \ {n}
<1>2. IsFiniteSet(S) /\ Cardinality(S) = Cardinality(Node) - 1 /\ Cardinality(Node) \in Nat
  BY <1>1, FS_RemoveElement, FS_CardinalityType
<1>3. \A i \in 1 .. Len(s) : s[i] \in S
  BY <1>1 DEF IsIn
<1>4. s \in Seq(S) /\ Len(s) \in Nat
  <2>1. Len(s) \in Nat /\ s = [i \in 1 .. Len(s) |-> s[i]]
    BY <1>1
  <2> HIDE DEF S
  <2> QED BY <1>3, <2>1
<1>5. Path(S, next, head, s)
  BY <1>1, <1>4 DEF Path
<1>6. Len(s) <= Cardinality(S)
  <2> HIDE DEF S
  <2> QED BY <1>2, <1>5, PathShort
<1> QED BY <1>2, <1>4, <1>6

(* A free node is taken by a sender. *)
LEMMA MqTakeFree ==
  ASSUME MessageQueueAssumption, MqMemory, Me \in Thread, free # Null,
         free' = next[free], next' = next, head' = head, tail' = tail, entry' = entry,
         data' = data, last' = last,
         HandTakes(MqHands(pc, node), MqHands(pc', node'), Me, free)
  PROVE  MqMemory' /\ MqMove
<1>1. PICK s, f : MqHeap(s, f)
  BY DEF MqMemory
<1>2. /\ IsFiniteSet(Node) /\ Null \notin Node
      /\ Path(Node, next, head, s) /\ Path(Node, next, free, f)
      /\ f # <<>> /\ Parted(Node, s, f, MqHands(pc, node))
  BY <1>1, MqPathIn
<1> DEFINE r == Rest(f)
<1>3. r = Rest(f)
  OBVIOUS
<1> HIDE DEF r
<1>4. Path(Node, next, next[free], r) /\ OneLess(f, r, free)
  BY <1>2, <1>3, PathPop
<1>5. IsIn(f, free)
  BY <1>2, PathEmpty
<1> DEFINE h == MqHands(pc, node)  g == MqHands(pc', node')
<1>6. Parted(Node, s, f, h) /\ HandTakes(h, g, Me, free)
  BY <1>2
<1> HIDE DEF h, g
<1>7. Parted(Node, s, r, g)
  BY <1>4, <1>5, <1>6, PartedTake
<1>8. MqHeap(s, r)'
  BY <1>1, <1>2, <1>4, <1>7 DEF MqHeap, g
<1>9. MqContents' = MqContents
  BY DEF MqContents, MqMessages, MqChain
<1> QED BY <1>8, <1>9 DEF MqMemory, MqMove, FifoMove

(* A call writes to its own node, or no call does anything to the nodes. *)
LEMMA MqKeep ==
  ASSUME MessageQueueAssumption, MqMemory, MqCells,
         free' = free, head' = head, tail' = tail, entry' = entry, last' = last,
         \A n \in Node : (\A t \in Thread : n \notin MqHands(pc, node)[t])
                           => next'[n] = next[n] /\ data'[n] = data[n],
         SameHands(MqHands(pc, node), MqHands(pc', node'))
  PROVE  MqMemory' /\ MqMove
<1>1. PICK s, f : MqHeap(s, f)
  BY DEF MqMemory
<1> DEFINE h == MqHands(pc, node)  g == MqHands(pc', node')
<1>2. /\ IsFiniteSet(Node) /\ Null \notin Node
      /\ Path(Node, next, head, s) /\ Path(Node, next, free, f)
      /\ Parted(Node, s, f, h) /\ SameHands(h, g)
      /\ s \in Seq(Node) /\ f \in Seq(Node)
  BY <1>1, MqPathIn
<1>3. \A n \in Node : IsIn(s, n) \/ IsIn(f, n) => next'[n] = next[n] /\ data'[n] = data[n]
  BY <1>2 DEF Parted
<1> HIDE DEF h, g
<1>4. \A i \in 1 .. Len(s) : s[i] \in Node /\ IsIn(s, s[i])
  BY <1>2 DEF IsIn
<1>5. \A i \in 1 .. Len(f) : f[i] \in Node /\ IsIn(f, f[i])
  BY <1>2 DEF IsIn
<1>6. SameLinks(next, next', s) /\ SameLinks(next, next', f) /\ SameCells(s, data, data')
  BY <1>3, <1>4, <1>5 DEF SameLinks, SameCells
<1>7. Path(Node, next', head, s) /\ Path(Node, next', free, f)
  BY <1>2, <1>6, PathKept
<1>8. Parted(Node, s, f, g)
  BY <1>2, PartedHands
<1>9. MqHeap(s, f)'
  BY <1>1, <1>7, <1>8 DEF MqHeap, g
<1>10. MqContents = Held(s, data) /\ MqContents' = Held(s, data')
  BY <1>1, <1>2, <1>7, MqPathIn, MqContentsThen
<1>11. MqContents' = MqContents
  BY <1>6, <1>10, HeldSame
<1> QED BY <1>9, <1>11 DEF MqMemory, MqMove, FifoMove

(* The node n is linked behind the last message; *)
MqLinksLast(n) ==
  /\ next'[n] = Null
  /\ tail # Null => next'[tail] = n
  /\ \A m \in Node \ {n, tail} : next'[m] = next[m]
  /\ head' = (IF head = Null THEN n ELSE head)

LEMMA MqLinkedLast ==
  ASSUME MessageQueueAssumption, NEW s, NEW f, MqHeap(s, f), NEW n \in Node, ~IsIn(s, n),
         MqLinksLast(n), NEW r, Longer(s, r, n)
  PROVE  /\ Path(Node, next', head', r) /\ OneMore(s, r, n) /\ r # <<>> /\ r[Len(r)] = n
         /\ Len(r) = entry + 1
<1>1. /\ IsFiniteSet(Node) /\ Null \notin Node
      /\ Path(Node, next, head, s) /\ s \in Seq(Node) /\ entry = Len(s)
      /\ s # <<>> => tail = s[Len(s)] /\ tail \in Node
  BY MqPathIn
<1>2. ASSUME NEW i \in 1 .. Len(s) - 1
      PROVE  next'[s[i]] = next[s[i]]
  <2>1. i \in 1 .. Len(s) /\ Len(s) \in 1 .. Len(s) /\ i # Len(s) /\ s # <<>>
    BY <1>1
  <2>2. s[i] \in Node /\ s[i] # s[Len(s)]
    BY <1>1, <2>1 DEF Path
  <2>3. s[i] # n
    BY <1>1, <2>1 DEF IsIn
  <2> QED BY <1>1, <2>1, <2>2, <2>3 DEF MqLinksLast
<1>3. LinkedLast(next, next', s, n)
  BY <1>1, <1>2 DEF LinkedLast, MqLinksLast
<1>4a. head' = FirstOf(head, n)
  BY DEF MqLinksLast, FirstOf
<1>4. /\ Path(Node, next', head', r) /\ OneMore(s, r, n) /\ r # <<>> /\ r[Len(r)] = n
  BY <1>1, <1>3, <1>4a, PathAppend
<1> QED BY <1>1, <1>4 DEF OneMore

(* from the hands of its sender, *)
LEMMA MqLinkMine ==
  ASSUME MessageQueueAssumption, MqMemory, MqCells, Me \in Thread, NEW n \in Node,
         next[n] = Null, MqLinkLast(n, next), free' = free, data' = data, last' = last,
         HandGives(MqHands(pc, node), MqHands(pc', node'), Me, n)
  PROVE  MqMemory' /\ MqMove
<1>1. PICK s, f : MqHeap(s, f)
  BY DEF MqMemory
<1> DEFINE h == MqHands(pc, node)  g == MqHands(pc', node')  r == Append(s, n)
<1>2. /\ IsFiniteSet(Node) /\ Null \notin Node
      /\ Path(Node, next, head, s) /\ Path(Node, next, free, f)
      /\ Parted(Node, s, f, h) /\ HandGives(h, g, Me, n)
      /\ s \in Seq(Node) /\ f \in Seq(Node) /\ entry = Len(s) /\ Apart(s, f)
      /\ s # <<>> => tail = s[Len(s)] /\ tail \in Node /\ IsIn(s, tail)
      /\ s = <<>> => tail = Null
      /\ MqContents = Held(s, data)
  BY <1>1, MqPathIn
<1>3. ~IsIn(s, n) /\ ~IsIn(f, n)
  BY <1>2 DEF Parted, HandGives
<1>3a. Longer(s, r, n)
  BY DEF Longer
<1> HIDE DEF h, g, r
<1>4. /\ next'[n] = Null /\ (tail # Null => next'[tail] = n)
      /\ \A m \in Node \ {n, tail} : next'[m] = next[m]
      /\ head' = (IF head = Null THEN n ELSE head) /\ tail' = n /\ entry' = entry + 1
  BY <1>2, <1>3 DEF MqLinkLast, MqCells
<1>4a. MqLinksLast(n)
  BY <1>4 DEF MqLinksLast
<1>5. /\ Path(Node, next', head', r) /\ OneMore(s, r, n) /\ r # <<>> /\ r[Len(r)] = n
      /\ Len(r) = entry + 1
  BY <1>1, <1>3, <1>3a, <1>4a, MqLinkedLast
<1>6. ASSUME NEW i \in 1 .. Len(f)
      PROVE  next'[f[i]] = next[f[i]]
  <2>1. f[i] \in Node /\ IsIn(f, f[i])
    BY <1>2 DEF IsIn
  <2>2. f[i] # n /\ f[i] # tail
    BY <1>2, <1>3, <2>1 DEF Apart
  <2> QED BY <1>4, <2>1, <2>2
<1>7. SameLinks(next, next', f)
  BY <1>6 DEF SameLinks
<1>8. Path(Node, next', free, f)
  BY <1>2, <1>7, PathKept
<1>9. Parted(Node, f, s, h)
  BY <1>2, PartedTurn
<1>10. Parted(Node, f, r, g)
  BY <1>2, <1>5, <1>9, PartedGive
<1>11. Parted(Node, r, f, g)
  BY <1>10, PartedTurn
<1>12. MqHeap(r, f)'
  BY <1>4, <1>5, <1>8, <1>11 DEF MqHeap, g
<1>13. MqContents' = Held(r, data')
  BY <1>2, <1>5, MqContentsThen
<1>14. data \in [Node -> Payload]
  BY DEF MqCells
<1>15. Longer(Held(s, data), Held(r, data), data[n])
  BY <1>2, <1>3a, <1>14, HeldAppend
<1>16. Held(s, data) \in Seq(Payload) /\ Len(Held(s, data)) = Len(s)
  BY <1>2, <1>14, HeldSeq
<1>17. Len(s) < Cardinality(Node)
  BY <1>1, <1>3, MqShort
<1>18. MqMove
  BY <1>2, <1>13, <1>14, <1>15, <1>16, <1>17 DEF MqMove, FifoMove, Longer
<1> QED BY <1>12, <1>18 DEF MqMemory

(* or a free one, by an interrupt handler. *)
LEMMA MqLinkIsr ==
  ASSUME MessageQueueAssumption, MqMemory, MqCells, NEW n, n = free, n # Null, NEW x \in Payload,
         MqLinkLast(free, [next EXCEPT ![free] = Null]), free' = next[free],
         data' = [data EXCEPT ![free] = x], last' = last,
         SameHands(MqHands(pc, node), MqHands(pc', node'))
  PROVE  MqMemory' /\ MqMove
<1>1. PICK s, f : MqHeap(s, f)
  BY DEF MqMemory
<1> DEFINE h == MqHands(pc, node)  g == MqHands(pc', node')
           q == Rest(f)  r == Append(s, n)
<1>2. /\ IsFiniteSet(Node) /\ Null \notin Node
      /\ Path(Node, next, head, s) /\ Path(Node, next, n, f) /\ f # <<>>
      /\ Parted(Node, s, f, h) /\ SameHands(h, g)
      /\ s \in Seq(Node) /\ f \in Seq(Node) /\ entry = Len(s) /\ Apart(s, f)
      /\ s # <<>> => tail = s[Len(s)] /\ tail \in Node /\ IsIn(s, tail)
      /\ s = <<>> => tail = Null
      /\ MqContents = Held(s, data)
  BY <1>1, MqPathIn
<1>2a. IsIn(f, n) /\ n \in Node
  BY <1>2, PathEmpty
<1>3. ~IsIn(s, n)
  BY <1>2, <1>2a DEF Apart
<1>3a. Longer(s, r, n) /\ q = Rest(f)
  BY DEF Longer
<1> HIDE DEF h, g, r, q
<1>3b. Path(Node, next, next[n], q) /\ OneLess(f, q, n)
  BY <1>2, <1>3a, PathPop
<1>4. /\ next'[n] = Null /\ (tail # Null => next'[tail] = n)
      /\ \A m \in Node \ {n, tail} : next'[m] = next[m]
      /\ head' = (IF head = Null THEN n ELSE head) /\ tail' = n /\ entry' = entry + 1
  BY <1>2, <1>2a, <1>3, <1>3a DEF MqLinkLast, MqCells
<1>4a. MqLinksLast(n)
  BY <1>4 DEF MqLinksLast
<1>5. /\ Path(Node, next', head', r) /\ OneMore(s, r, n) /\ r # <<>> /\ r[Len(r)] = n
      /\ Len(r) = entry + 1
  BY <1>1, <1>2a, <1>3, <1>3a, <1>4a, MqLinkedLast
<1>5a. q \in Seq(Node)
  BY <1>3b DEF Path
<1>6. ASSUME NEW i \in 1 .. Len(q)
      PROVE  next'[q[i]] = next[q[i]]
  <2>1. q[i] \in Node /\ IsIn(q, q[i])
    BY <1>5a DEF IsIn
  <2>2. q[i] # n /\ IsIn(f, q[i])
    BY <1>3b, <2>1 DEF OneLess
  <2>3. q[i] # tail
    BY <1>2, <2>1, <2>2 DEF Apart
  <2> QED BY <1>4, <2>1, <2>2, <2>3
<1>7. SameLinks(next, next', q)
  BY <1>6 DEF SameLinks
<1>8. Path(Node, next', free', q)
  <2>1. Path(Node, next', next[n], q)
    BY <1>3b, <1>7, PathKept
  <2> QED BY <1>3a, <2>1
<1>10. Parted(Node, r, q, h)
  BY <1>2, <1>2a, <1>3b, <1>5, PartedMove
<1>11. Parted(Node, r, q, g)
  BY <1>2, <1>10, PartedHands
<1>12. MqHeap(r, q)'
  BY <1>4, <1>5, <1>8, <1>11 DEF MqHeap, g
<1>13. MqContents' = Held(r, data')
  BY <1>2, <1>5, MqContentsThen
<1>14. data \in [Node -> Payload] /\ data' \in [Node -> Payload] /\ data'[n] = x
       /\ \A m \in Node \ {n} : data'[m] = data[m]
  BY <1>2a, <1>3a DEF MqCells
<1>15. Longer(Held(s, data'), Held(r, data'), data'[n])
  BY <1>2, <1>2a, <1>3a, <1>14, HeldAppend
<1>15a. SameCells(s, data, data')
  <2>1. ASSUME NEW i \in 1 .. Len(s) PROVE data'[s[i]] = data[s[i]]
    BY <1>2, <1>3, <1>14 DEF IsIn
  <2> QED BY <2>1 DEF SameCells
<1>15b. Held(s, data') = Held(s, data)
  BY <1>15a, HeldSame
<1>16. Held(s, data) \in Seq(Payload) /\ Len(Held(s, data)) = Len(s)
  BY <1>2, <1>14, HeldSeq
<1>17. Len(s) < Cardinality(Node)
  BY <1>1, <1>2a, <1>3, MqShort
<1>18. MqMove
  BY <1>2, <1>13, <1>14, <1>15, <1>15b, <1>16, <1>17 DEF MqMove, FifoMove, Longer
<1> QED BY <1>12, <1>18 DEF MqMemory

(* The node n is linked before the first message. *)
LEMMA MqLinkFront ==
  ASSUME MessageQueueAssumption, MqMemory, MqCells, Me \in Thread, NEW n \in Node,
         MqLinkFirst(n), free' = free, data' = data, last' = last,
         HandGives(MqHands(pc, node), MqHands(pc', node'), Me, n)
  PROVE  MqMemory' /\ MqMove
<1>1. PICK s, f : MqHeap(s, f)
  BY DEF MqMemory
<1> DEFINE h == MqHands(pc, node)  g == MqHands(pc', node')  r == <<n>> \o s
<1>2. /\ IsFiniteSet(Node) /\ Null \notin Node
      /\ Path(Node, next, head, s) /\ Path(Node, next, free, f)
      /\ Parted(Node, s, f, h) /\ HandGives(h, g, Me, n)
      /\ s \in Seq(Node) /\ f \in Seq(Node) /\ entry = Len(s) /\ Apart(s, f)
      /\ s # <<>> => tail = s[Len(s)] /\ tail \in Node /\ IsIn(s, tail)
      /\ s = <<>> => tail = Null
      /\ MqContents = Held(s, data)
  BY <1>1, MqPathIn
<1>3. ~IsIn(s, n) /\ ~IsIn(f, n)
  BY <1>2 DEF Parted, HandGives
<1>3a. Pushed(s, r, n)
  BY DEF Pushed
<1>3b. /\ s = <<>> => r[Len(r)] = n
       /\ s # <<>> => r[Len(r)] = s[Len(s)]
       /\ r # <<>> /\ Len(r) = Len(s) + 1
  BY <1>2
<1> HIDE DEF h, g, r
<1>4. /\ next'[n] = head /\ \A m \in Node \ {n} : next'[m] = next[m]
      /\ head' = n /\ tail' = r[Len(r)] /\ entry' = entry + 1
  BY <1>2, <1>3b DEF MqLinkFirst, MqCells
<1>6. ASSUME NEW z \in Seq(Node), ~IsIn(z, n), NEW i \in 1 .. Len(z)
      PROVE  next'[z[i]] = next[z[i]]
  <2>1. z[i] \in Node /\ z[i] # n
    BY <1>6 DEF IsIn
  <2> QED BY <1>4, <2>1
<1>7. SameLinks(next, next', s) /\ SameLinks(next, next', f)
  BY <1>2, <1>3, <1>6 DEF SameLinks
<1>5. Path(Node, next', n, r) /\ OneMore(s, r, n)
  <2>1. next'[n] = head
    BY <1>4
  <2> QED BY <1>2, <1>3, <1>3a, <1>7, <2>1, PathPush
<1>8. Path(Node, next', free, f)
  BY <1>2, <1>7, PathKept
<1>9. Parted(Node, f, s, h)
  BY <1>2, PartedTurn
<1>10. Parted(Node, f, r, g)
  BY <1>2, <1>5, <1>9, PartedGive
<1>11. Parted(Node, r, f, g)
  BY <1>10, PartedTurn
<1>12. MqHeap(r, f)'
  BY <1>2, <1>3b, <1>4, <1>5, <1>8, <1>11 DEF MqHeap, g
<1>13. MqContents' = Held(r, data')
  BY <1>2, <1>4, <1>5, MqContentsThen
<1>14. data \in [Node -> Payload]
  BY DEF MqCells
<1>15. Pushed(Held(s, data), Held(r, data), data[n])
  BY <1>2, <1>3a, <1>14, HeldPush
<1>16. Held(s, data) \in Seq(Payload) /\ Len(Held(s, data)) = Len(s)
  BY <1>2, <1>14, HeldSeq
<1>17. Len(s) < Cardinality(Node)
  BY <1>1, <1>3, MqShort
<1>18. MqMove
  BY <1>2, <1>13, <1>14, <1>15, <1>16, <1>17 DEF MqMove, FifoMove, Pushed
<1> QED BY <1>12, <1>18 DEF MqMemory

(* The first message is taken off the queue. *)
LEMMA MqUnlinkFirst ==
  ASSUME MessageQueueAssumption, MqMemory, MqCells, Me \in Thread, entry > 0,
         NEW n, n = head, head' = next[n], tail' = (IF tail = n THEN Null ELSE tail),
         entry' = entry - 1, last' = <<data[n]>>,
         free' = free, next' = next, data' = data,
         HandTakes(MqHands(pc, node), MqHands(pc', node'), Me, n)
  PROVE  MqMemory' /\ MqMove /\ n \in Node
<1>1. PICK s, f : MqHeap(s, f)
  BY DEF MqMemory
<1> DEFINE h == MqHands(pc, node)  g == MqHands(pc', node')  r == Rest(s)
<1>2. /\ IsFiniteSet(Node) /\ Null \notin Node
      /\ Path(Node, next, n, s) /\ Path(Node, next, free, f)
      /\ Parted(Node, s, f, h) /\ HandTakes(h, g, Me, n)
      /\ s \in Seq(Node) /\ entry = Len(s)
      /\ s # <<>> => n = s[1] /\ tail = s[Len(s)] /\ IsIn(s, n) /\ n \in Node
      /\ MqContents = Held(s, data)
  BY <1>1, MqPathIn
<1>3. s # <<>> /\ n = s[1] /\ tail = s[Len(s)]
  BY <1>2
<1>3a. r = Rest(s)
  OBVIOUS
<1> HIDE DEF h, g, r
<1>4. Path(Node, next, next[n], r) /\ OneLess(s, r, n)
  BY <1>2, <1>3, <1>3a, PathPop
<1>5. tail' = IF r = <<>> THEN Null ELSE r[Len(r)]
  <2>1. Len(s) \in Nat /\ Len(s) > 0 /\ Len(r) = Len(s) - 1 /\ r \in Seq(Node)
    BY <1>2, <1>4 DEF OneLess, Path
  <2>2. CASE Len(s) = 1
    <3>1. tail = n /\ r = <<>>
      BY <1>2, <1>3, <2>1, <2>2
    <3> QED BY <3>1
  <2>3. CASE Len(s) > 1
    <3>1. s[Len(s)] # s[1]
      BY <1>2, <2>1, <2>3 DEF Path
    <3> DEFINE m == Len(s)
    <3>2. m \in Nat /\ m > 1 /\ r = SubSeq(s, 2, m) /\ s \in Seq(Node) /\ m <= Len(s) /\ Len(r) = m - 1
      BY <1>2, <1>3a, <2>1, <2>3 DEF Rest
    <3> HIDE DEF m
    <3>3. r[m - 1] = s[m] /\ r # <<>>
      <4>1. \A i \in 2 .. m : s[i] \in Node
        BY <3>2
      <4>2. \A i \in 1 .. m - 2 + 1 : r[i] = s[2 + i - 1]
        BY <3>2, <4>1, SubSeqProperties
      <4>3. m - 1 \in 1 .. m - 2 + 1 /\ 2 + (m - 1) - 1 = m
        BY <3>2
      <4>4. r[m - 1] = s[2 + (m - 1) - 1]
        BY <4>2, <4>3
      <4>5. r # <<>>
        BY <3>2
      <4> QED BY <4>3, <4>4, <4>5
    <3>4. tail # n /\ tail = s[Len(s)]
      BY <1>3, <3>1
    <3>5. r # <<>> /\ r[Len(r)] = s[Len(s)]
      BY <3>2, <3>3 DEF m
    <3> QED BY <3>4, <3>5
  <2> QED BY <2>1, <2>2, <2>3
<1>6. Parted(Node, f, s, h)
  BY <1>2, PartedTurn
<1>7. Parted(Node, f, r, g)
  <2>1. IsIn(s, n) /\ HandTakes(h, g, Me, n)
    BY <1>2, <1>3
  <2> QED BY <1>4, <1>6, <2>1, PartedTake
<1>8. Parted(Node, r, f, g)
  BY <1>7, PartedTurn
<1>9. entry' = Len(r)
  BY <1>2, <1>4 DEF OneLess, Path
<1>10. MqHeap(r, f)'
  BY <1>2, <1>4, <1>5, <1>8, <1>9 DEF MqHeap, g
<1>11. MqContents' = Held(r, data)
  BY <1>2, <1>4, MqContentsThen
<1>12. data \in [Node -> Payload]
  BY DEF MqCells
<1>13. Shorter(Held(s, data), Held(r, data), data[s[1]])
  BY <1>2, <1>3, <1>3a, <1>12, HeldRest
<1>14. MqMove
  BY <1>2, <1>3, <1>11, <1>13 DEF MqMove, FifoMove, Shorter
<1> QED BY <1>2, <1>3, <1>10, <1>14 DEF MqMemory

(* The node n is freed. *)
LEMMA MqFrees ==
  ASSUME MessageQueueAssumption, MqMemory, MqCells, Me \in Thread, NEW n \in Node,
         MqFreeNode(n), data' = data, last' = last,
         HandGives(MqHands(pc, node), MqHands(pc', node'), Me, n)
  PROVE  MqMemory' /\ MqMove
<1>1. PICK s, f : MqHeap(s, f)
  BY DEF MqMemory
<1> DEFINE h == MqHands(pc, node)  g == MqHands(pc', node')  r == <<n>> \o f
<1>2. /\ IsFiniteSet(Node) /\ Null \notin Node
      /\ Path(Node, next, head, s) /\ Path(Node, next, free, f)
      /\ Parted(Node, s, f, h) /\ HandGives(h, g, Me, n)
      /\ s \in Seq(Node) /\ f \in Seq(Node) /\ entry = Len(s)
      /\ MqContents = Held(s, data)
  BY <1>1, MqPathIn
<1>3. ~IsIn(s, n) /\ ~IsIn(f, n)
  BY <1>2 DEF Parted, HandGives
<1>3a. Pushed(f, r, n)
  BY DEF Pushed
<1> HIDE DEF h, g, r
<1>4. /\ next'[n] = free /\ \A m \in Node \ {n} : next'[m] = next[m]
      /\ head' = head /\ tail' = tail /\ entry' = entry /\ free' = n
  BY DEF MqFreeNode, MqCells
<1>6. ASSUME NEW z \in Seq(Node), ~IsIn(z, n), NEW i \in 1 .. Len(z)
      PROVE  next'[z[i]] = next[z[i]]
  <2>1. z[i] \in Node /\ z[i] # n
    BY <1>6 DEF IsIn
  <2> QED BY <1>4, <2>1
<1>7. SameLinks(next, next', s) /\ SameLinks(next, next', f)
  BY <1>2, <1>3, <1>6 DEF SameLinks
<1>5. Path(Node, next', n, r) /\ OneMore(f, r, n)
  <2>1. next'[n] = free
    BY <1>4
  <2> QED BY <1>2, <1>3, <1>3a, <1>7, <2>1, PathPush
<1>8. Path(Node, next', head, s)
  BY <1>2, <1>7, PathKept
<1>10. Parted(Node, s, r, g)
  BY <1>2, <1>5, PartedGive
<1>12. MqHeap(s, r)'
  BY <1>1, <1>4, <1>5, <1>8, <1>10 DEF MqHeap, g
<1>13. MqContents' = Held(s, data)
  <2>1. Path(Node, next', head', s)
    BY <1>4, <1>8
  <2> QED BY <1>2, <2>1, MqContentsThen
<1>18. MqMove
  BY <1>2, <1>13 DEF MqMove, FifoMove
<1> QED BY <1>12, <1>18 DEF MqMemory

(* The messages are freed, one after the other. *)
MqFreeAll ==
  LET s == MqMessages
  IN  /\ next' = [n \in Node |->
                    IF IsIn(s, n)
                    THEN LET i == CHOOSE i \in DOMAIN s : s[i] = n
                         IN  IF i = 1 THEN free ELSE s[i - 1]
                    ELSE next[n]]
      /\ free' = IF s = <<>> THEN free ELSE s[Len(s)]
      /\ head' = Null /\ tail' = Null /\ entry' = 0

PlaceOf(s, n) == CHOOSE i \in DOMAIN s : s[i] = n

LEMMA MqFreesAll ==
  ASSUME MessageQueueAssumption, MqMemory, MqCells, MqFreeAll, data' = data, last' = last,
         SameHands(MqHands(pc, node), MqHands(pc', node'))
  PROVE  MqMemory' /\ MqMove /\ next' \in [Node -> MqPointer]
<1>1. PICK s, f : MqHeap(s, f)
  BY DEF MqMemory
<1> DEFINE h == MqHands(pc, node)  g == MqHands(pc', node')  r == Turned(s, f)
<1>2. /\ IsFiniteSet(Node) /\ Null \notin Node
      /\ Path(Node, next, head, s) /\ Path(Node, next, free, f)
      /\ Parted(Node, s, f, h) /\ SameHands(h, g) /\ Apart(s, f)
      /\ s \in Seq(Node) /\ f \in Seq(Node) /\ entry = Len(s)
  BY <1>1, MqPathIn
<1>2a. MqMessages = s
  BY <1>2, HeldIs DEF MqMessages, MqChain
<1>2b. r = Turned(s, f)
  OBVIOUS
<1> HIDE DEF h, g, r
<1>3. /\ free' = IF s = <<>> THEN free ELSE s[Len(s)]
      /\ head' = Null /\ tail' = Null /\ entry' = 0
  BY <1>2a DEF MqFreeAll
<1>4. ASSUME NEW i \in 1 .. Len(s)
      PROVE  next'[s[i]] = IF i = 1 THEN free ELSE s[i - 1]
  <2>1. s[i] \in Node /\ IsIn(s, s[i]) /\ i \in DOMAIN s
    BY <1>2 DEF IsIn
  <2>2. \A j \in DOMAIN s : s[j] = s[i] => j = i
    BY <1>2 DEF Path
  <2>3. PlaceOf(s, s[i]) = i
    BY <2>1, <2>2 DEF PlaceOf
  <2>4. next' = [n \in Node |-> IF IsIn(s, n)
                               THEN IF PlaceOf(s, n) = 1 THEN free ELSE s[PlaceOf(s, n) - 1]
                               ELSE next[n]]
    BY <1>2a DEF MqFreeAll, PlaceOf
  <2> QED BY <2>1, <2>3, <2>4
<1>5. TurnedLinks(next', s, free)
  BY <1>4 DEF TurnedLinks
<1>6. ASSUME NEW i \in 1 .. Len(f)
      PROVE  next'[f[i]] = next[f[i]]
  <2>1. f[i] \in Node /\ IsIn(f, f[i])
    BY <1>2 DEF IsIn
  <2>2. ~IsIn(s, f[i])
    BY <1>2, <2>1 DEF Apart
  <2> QED BY <1>2a, <2>1, <2>2 DEF MqFreeAll
<1>7. SameLinks(next, next', f)
  BY <1>6 DEF SameLinks
<1> DEFINE o == IF s = <<>> THEN free ELSE s[Len(s)]
<1>8. o = (IF s = <<>> THEN free ELSE s[Len(s)]) /\ free' = o
  BY <1>3
<1> HIDE DEF o
<1>9. Path(Node, next', o, r) /\ Both(s, f, r)
  BY <1>2, <1>2b, <1>5, <1>7, <1>8, PathTurn
<1>10. Parted(Node, <<>>, r, h)
  BY <1>2, <1>9, PartedJoin
<1>11. Parted(Node, <<>>, r, g)
  BY <1>2, <1>10, PartedHands
<1>12. Path(Node, next', Null, <<>>)
  BY DEF Path
<1>13. MqHeap(<<>>, r)'
  BY <1>3, <1>8, <1>9, <1>11, <1>12 DEF MqHeap, g
<1>14. MqContents' = Held(<<>>, data')
  <2>1. Path(Node, next', head', <<>>)
    BY <1>3, <1>12
  <2> QED BY <1>2, <2>1, MqContentsThen
<1>15. MqMove
  BY <1>14 DEF MqMove, FifoMove, Held
<1>16. next' \in [Node -> MqPointer]
  <2>1. ASSUME NEW n \in Node
        PROVE  next'[n] \in MqPointer
    <3>1. CASE IsIn(s, n)
      <4>1. PICK i \in 1 .. Len(s) : s[i] = n
        BY <1>2, <3>1 DEF IsIn
      <4>2. next'[n] = IF i = 1 THEN free ELSE s[i - 1]
        BY <1>4, <4>1
      <4>3. free \in MqPointer
        BY <1>2, PathEmpty DEF MqPointer
      <4>4. i # 1 => i - 1 \in 1 .. Len(s)
        BY <1>2
      <4>5. i # 1 => s[i - 1] \in Node
        BY <1>2, <4>4
      <4> QED BY <4>2, <4>3, <4>5 DEF MqPointer
    <3>2. CASE ~IsIn(s, n)
      BY <1>2a, <3>2 DEF MqFreeAll, MqCells
    <3> QED BY <3>1, <3>2
  <2>2. next' = [n \in Node |-> next'[n]]
    BY DEF MqFreeAll
  <2> QED BY <2>1, <2>2
<1> QED BY <1>13, <1>15, <1>16 DEF MqMemory

-----------------------------------------------------------------------------
(* Only the current thread moves. *)
MqAlone ==
  \A t \in Thread \ {Me} :
    pc'[t] = pc[t] /\ node'[t] = node[t] /\ item'[t] = item[t] /\ got'[t] = got[t]

LEMMA MqHandTaken ==
  ASSUME Me \in Thread, MqAlone, pc[Me] \notin MqHolding, pc'[Me] \in MqHolding,
         NEW n, node'[Me] = n
  PROVE  HandTakes(MqHands(pc, node), MqHands(pc', node'), Me, n)
BY DEF MqAlone, HandTakes, MqHands

LEMMA MqHandGiven ==
  ASSUME Me \in Thread, MqAlone, pc[Me] \in MqHolding, pc'[Me] \notin MqHolding,
         NEW n, node[Me] = n
  PROVE  HandGives(MqHands(pc, node), MqHands(pc', node'), Me, n)
BY DEF MqAlone, HandGives, MqHands

LEMMA MqHandSame ==
  ASSUME Me \in Thread, MqAlone, pc[Me] \in MqHolding <=> pc'[Me] \in MqHolding,
         pc[Me] \in MqHolding => node'[Me] = node[Me]
  PROVE  SameHands(MqHands(pc, node), MqHands(pc', node'))
BY DEF MqAlone, SameHands, MqHands

(* What a call holds is nowhere else. *)
LEMMA MqHeldApart ==
  ASSUME MessageQueueAssumption, MqMemory, MqCallers
  PROVE  \A t \in Thread : pc[t] \in MqHolding =>
           /\ node[t] \in Node
           /\ node[t] # head /\ node[t] # tail /\ node[t] # free
           /\ ~IsIn(MqMessages, node[t])
           /\ \A u \in Thread \ {t} : pc[u] \in MqHolding => node[u] # node[t]
<1>1. PICK s, f : MqHeap(s, f)
  BY DEF MqMemory
<1>2. /\ IsFiniteSet(Node) /\ Null \notin Node
      /\ Path(Node, next, head, s) /\ Path(Node, next, free, f)
      /\ Parted(Node, s, f, MqHands(pc, node))
      /\ s # <<>> => head = s[1] /\ IsIn(s, head) /\ tail = s[Len(s)] /\ IsIn(s, tail)
      /\ s = <<>> => tail = Null
  BY <1>1, MqPathIn
<1>2b. s = <<>> => head = Null
  BY <1>1, MqPathIn
<1>2c. /\ f = <<>> <=> free = Null
  BY <1>1, MqPathIn
<1>2a. MqMessages = s
  BY <1>2, HeldIs DEF MqMessages, MqChain
<1>3. f # <<>> => IsIn(f, free)
  BY <1>2, PathEmpty
<1> TAKE t \in Thread
<1> HAVE pc[t] \in MqHolding
<1>4. node[t] \in Node /\ MqHands(pc, node)[t] = {node[t]}
  BY DEF MqCallers, MqHands
<1>5. ~IsIn(s, node[t]) /\ ~IsIn(f, node[t])
  BY <1>2, <1>4 DEF Parted
<1>6. ASSUME NEW u \in Thread \ {t}, pc[u] \in MqHolding
      PROVE  node[u] # node[t]
  <2>1. MqHands(pc, node)[u] = {node[u]}
    BY <1>6 DEF MqHands
  <2>2. MqHands(pc, node)[u] \cap MqHands(pc, node)[t] = {}
    BY <1>2 DEF Parted
  <2> QED BY <1>4, <2>1, <2>2
<1>7. node[t] # head
  BY <1>2, <1>2b, <1>4, <1>5
<1>8. node[t] # tail
  BY <1>2, <1>4, <1>5
<1>9. node[t] # free
  BY <1>2, <1>2c, <1>3, <1>4, <1>5
<1> QED BY <1>2a, <1>4, <1>5, <1>6, <1>7, <1>8, <1>9

(* The marks of the current call are right, and the others' nodes stay.    *)
MqMarkedMine ==
  /\ pc'[Me] = "send_link" => next'[node'[Me]] = Null
  /\ pc'[Me] = "recv_copy" => data'[node'[Me]] = item'[Me]
  /\ pc'[Me] = "recv_free" => got'[Me] = item'[Me]

MqOthersStay ==
  \A t \in Thread \ {Me} : pc[t] \in MqHolding =>
    next'[node[t]] = next[node[t]] /\ data'[node[t]] = data[node[t]]

LEMMA MqMarksKept ==
  ASSUME MqMarks, MqAlone, MqMarkedMine, MqOthersStay
  PROVE  MqMarks'
<1> SUFFICES ASSUME NEW t \in Thread
             PROVE  /\ pc'[t] = "send_link" => next'[node'[t]] = Null
                    /\ pc'[t] = "recv_copy" => data'[node'[t]] = item'[t]
                    /\ pc'[t] = "recv_free" => got'[t] = item'[t]
  BY DEF MqMarks
<1>1. CASE t = Me
  BY <1>1 DEF MqMarkedMine
<1>2. CASE t # Me
  <2>1. pc'[t] = pc[t] /\ node'[t] = node[t] /\ item'[t] = item[t] /\ got'[t] = got[t]
    BY <1>2 DEF MqAlone
  <2>2. pc[t] \in {"send_link", "recv_copy"} =>
          next'[node[t]] = next[node[t]] /\ data'[node[t]] = data[node[t]]
    BY <1>2 DEF MqOthersStay, MqHolding
  <2>3. /\ pc[t] = "send_link" => next[node[t]] = Null
        /\ pc[t] = "recv_copy" => data[node[t]] = item[t]
        /\ pc[t] = "recv_free" => got[t] = item[t]
    BY DEF MqMarks
  <2> QED BY <2>1, <2>2, <2>3
<1> QED BY <1>1, <1>2

(* The locals of the current call *)
LEMMA MqCallOverIs ==
  ASSUME Node # {}, Payload # {}, MqCallers, MqCallOver
  PROVE  /\ node' \in [Thread -> Node] /\ item' \in [Thread -> Payload]
         /\ got' \in [Thread -> Payload]
         /\ \A t \in Thread \ {Me} :
              node'[t] = node[t] /\ item'[t] = item[t] /\ got'[t] = got[t]
<1>1. MqNoNode \in Node /\ MqNoItem \in Payload
  BY DEF MqNoNode, MqNoItem
<1> QED BY <1>1 DEF MqCallers, MqCallOver

LEMMA MqGo ==
  ASSUME MessageQueueAssumption, MqInv, NEW b \in MqPC, Go(b), Me # Idle
  PROVE  /\ pc' \in [Thread -> MqPC] /\ pc'[Idle] = "app" /\ pc'[Me] = b
         /\ \A t \in Thread \ {Me} : pc'[t] = pc[t]
<1>1. pc \in [Thread -> MqPC] /\ pc[Idle] = "app" /\ Idle \in Thread /\ Me \in Thread
  BY MqFacts DEF MqInv, MqCallers, MessageQueueAssumption, CallsAssumption
<1> QED BY <1>1 DEF Go

LEMMA MqPatience ==
  ASSUME MessageQueueAssumption, MqInv, NEW b, Patience(b)
  PROVE  timed' \subseteq Thread
<1>1. Me \in Thread /\ timed \subseteq Thread
  BY MqFacts DEF MqInv, MqCallers
<1> QED BY <1>1 DEF Patience

-----------------------------------------------------------------------------
(* The steps *)

(* A step that leaves the nodes and the locals alone. *)
LEMMA MqQuiet ==
  ASSUME MessageQueueAssumption, MqInv, UNCHANGED <<mqLinks, data, node, item, got, last>>,
         MqCalls', pc' \in [Thread -> MqPC], pc'[Idle] = "app", timed' \subseteq Thread,
         OnlyMoves(pc, pc', Me),
         pc' = pc \/ (pc[Me] \notin MqHolding /\ pc'[Me] \notin MqHolding)
  PROVE  MqInv' /\ MqMove
<1>1. Me \in Thread
  BY MqFacts
<1>2. MqMemory /\ MqCells /\ MqCallers /\ MqMarks
  BY DEF MqInv
<1>3. /\ head' = head /\ tail' = tail /\ free' = free /\ next' = next /\ entry' = entry
      /\ data' = data /\ node' = node /\ item' = item /\ got' = got /\ last' = last
  BY DEF mqLinks
<1>4. MqAlone
  BY <1>3 DEF MqAlone, OnlyMoves
<1>5. SameHands(MqHands(pc, node), MqHands(pc', node'))
  BY <1>1, <1>3, <1>4, MqHandSame
<1>6. MqMemory' /\ MqMove
  BY <1>2, <1>3, <1>5, MqKeep
<1>7. MqMarkedMine
  BY <1>1, <1>2, <1>3 DEF MqMarkedMine, MqMarks, MqHolding
<1>8. MqMarks'
  BY <1>2, <1>3, <1>4, <1>7, MqMarksKept DEF MqOthersStay
<1>9. MqCells' /\ MqCallers'
  BY <1>2, <1>3 DEF MqCells, MqCallers
<1> QED BY <1>6, <1>8, <1>9 DEF MqInv

LEMMA MqSendTakeStep ==
  ASSUME MessageQueueAssumption, IsFiniteSet(Thread), MqInv,
         NEW x \in Payload, NEW to \in {"send_copy", "urgent_copy"}, MqSendTake(x, to)
  PROVE  MqInv' /\ MqMove
<1>1. /\ CallsAssumption /\ Sound(k, pc) /\ DOMAIN pc = Thread /\ Me \in Thread
      /\ KernelOK(k)
  BY MqFacts
<1>2. MqMemory /\ MqCells /\ MqCallers /\ MqMarks
  BY DEF MqInv
<1>3. /\ pc[Me] = "app" /\ Me \in MqMaySend /\ free # Null
      /\ node' = [node EXCEPT ![Me] = free] /\ item' = [item EXCEPT ![Me] = x]
      /\ free' = next[free] /\ Go(to)
      /\ k' = k /\ head' = head /\ tail' = tail /\ next' = next /\ entry' = entry
      /\ data' = data /\ got' = got /\ timed' = timed /\ last' = last
  BY DEF MqSendTake, At
<1>4. to \in MqPC /\ to \in MqHolding /\ pc[Me] \notin SchedPlaces /\ pc[Me] \notin MqHolding
      /\ to \notin MqRecvCalls /\ to \notin {"send_link", "recv_copy", "recv_free"} /\ Me # Idle
  BY <1>3, MqFacts DEF MqPC, MqHolding, SchedPlaces, MqRecvCalls
<1>5. /\ pc' \in [Thread -> MqPC] /\ pc'[Idle] = "app" /\ pc'[Me] = to
      /\ \A t \in Thread \ {Me} : pc'[t] = pc[t]
  BY <1>3, <1>4, MqGo
<1>6. MqAlone
  BY <1>3, <1>5 DEF MqAlone
<1>7. Sound(k', pc')
  BY <1>1, <1>3, <1>4, GoStep
<1>8. MqCalls'
  <2>1. Awakens(k, pc, k', {})
    BY <1>1, <1>3, WakesNobody DEF Awakens
  <2>2. pc[Me] \notin MqRecvCalls
    BY <1>3 DEF MqRecvCalls
  <2>3. Remain(pc, pc', MqRecvCalls)
    BY <1>5, <2>2 DEF Remain
  <2> QED BY <1>3, <1>7, <2>1, <2>3, MqRestful
<1>9. node'[Me] = free
  BY <1>1, <1>2, <1>3 DEF MqCallers
<1>10. HandTakes(MqHands(pc, node), MqHands(pc', node'), Me, free)
  BY <1>1, <1>4, <1>5, <1>6, <1>9, MqHandTaken
<1>11. MqMemory' /\ MqMove
  BY <1>1, <1>2, <1>3, <1>10, MqTakeFree
<1>12. free \in Node
  <2>1. PICK s, f : MqHeap(s, f)
    BY <1>2 DEF MqMemory
  <2>2. /\ Path(Node, next, free, f) /\ Null \notin Node
        /\ f = <<>> <=> free = Null
    BY <2>1, MqPathIn
  <2> QED BY <1>3, <2>2, PathEmpty
<1>13. MqCallers' /\ MqCells'
  BY <1>2, <1>3, <1>5, <1>12 DEF MqCallers, MqCells
<1>14. MqMarks'
  BY <1>2, <1>3, <1>4, <1>5, <1>6, MqMarksKept DEF MqMarkedMine, MqOthersStay
<1> QED BY <1>8, <1>11, <1>13, <1>14 DEF MqInv

(* A sender copies its message into its node. *)
LEMMA MqCopyStep ==
  ASSUME MessageQueueAssumption, IsFiniteSet(Thread), MqInv, MqSendCopy \/ MqUrgentCopy
  PROVE  MqInv' /\ MqMove
<1>1. /\ CallsAssumption /\ Sound(k, pc) /\ DOMAIN pc = Thread /\ Me \in Thread
      /\ KernelOK(k)
  BY MqFacts
<1>2. MqMemory /\ MqCells /\ MqCallers /\ MqMarks
  BY DEF MqInv
<1>3. PICK to \in {"send_link", "urgent_link"} :
        /\ pc[Me] \in {"send_copy", "urgent_copy"} /\ Go(to)
        /\ next' = (IF to = "send_link" THEN [next EXCEPT ![node[Me]] = Null] ELSE next)
        /\ data' = [data EXCEPT ![node[Me]] = item[Me]]
        /\ k' = k /\ head' = head /\ tail' = tail /\ free' = free /\ entry' = entry
        /\ node' = node /\ item' = item /\ got' = got /\ timed' = timed /\ last' = last
  BY DEF MqSendCopy, MqUrgentCopy, At, mqLinks, mqLocals
<1>4. /\ to \in MqPC /\ to \in MqHolding /\ pc[Me] \notin SchedPlaces /\ pc[Me] \in MqHolding
      /\ to \notin MqRecvCalls /\ to \notin {"recv_copy", "recv_free"} /\ Me # Idle
  BY <1>3, MqFacts DEF MqPC, MqHolding, SchedPlaces, MqRecvCalls
<1>5. /\ pc' \in [Thread -> MqPC] /\ pc'[Idle] = "app" /\ pc'[Me] = to
      /\ \A t \in Thread \ {Me} : pc'[t] = pc[t]
  BY <1>3, <1>4, MqGo
<1>6. MqAlone
  BY <1>3, <1>5 DEF MqAlone
<1>7. Sound(k', pc')
  BY <1>1, <1>3, <1>4, GoStep
<1>8. MqCalls'
  <2>1. Awakens(k, pc, k', {})
    BY <1>1, <1>3, WakesNobody DEF Awakens
  <2>2. pc[Me] \notin MqRecvCalls
    BY <1>3 DEF MqRecvCalls
  <2>3. Remain(pc, pc', MqRecvCalls)
    BY <1>5, <2>2 DEF Remain
  <2> QED BY <1>3, <1>7, <2>1, <2>3, MqRestful
<1>9. node[Me] \in Node /\ item[Me] \in Payload
      /\ next \in [Node -> MqPointer] /\ data \in [Node -> Payload]
  BY <1>1, <1>2 DEF MqCallers, MqCells
<1>10. \A n \in Node \ {node[Me]} : next'[n] = next[n] /\ data'[n] = data[n]
  BY <1>3, <1>9
<1>11. SameHands(MqHands(pc, node), MqHands(pc', node'))
  BY <1>1, <1>3, <1>4, <1>5, <1>6, MqHandSame
<1>12. \A n \in Node : (\A t \in Thread : n \notin MqHands(pc, node)[t])
                           => next'[n] = next[n] /\ data'[n] = data[n]
  BY <1>1, <1>4, <1>10 DEF MqHands
<1>13. MqMemory' /\ MqMove
  BY <1>2, <1>3, <1>11, <1>12, MqKeep
<1>14. next' \in [Node -> MqPointer] /\ data' \in [Node -> Payload]
  BY <1>3, <1>9 DEF MqPointer
<1>15. MqCallers' /\ MqCells'
  BY <1>2, <1>3, <1>5, <1>14 DEF MqCallers, MqCells
<1>16. MqMarkedMine
  BY <1>3, <1>4, <1>5, <1>9 DEF MqMarkedMine
<1>17. MqOthersStay
  BY <1>1, <1>2, <1>4, <1>10, MqHeldApart DEF MqOthersStay
<1>18. MqMarks'
  BY <1>2, <1>6, <1>16, <1>17, MqMarksKept
<1> QED BY <1>8, <1>13, <1>15, <1>18 DEF MqInv

LEMMA MqLinkStep ==
  ASSUME MessageQueueAssumption, IsFiniteSet(Thread), MqInv, MqSendLink \/ MqUrgentLink
  PROVE  MqInv' /\ MqMove
<1>1. /\ CallsAssumption /\ Sound(k, pc) /\ DOMAIN pc = Thread /\ Me \in Thread
      /\ pc \in [Thread -> MqPC] /\ KernelOK(k) /\ Receivers \in {Receivers, Senders}
  BY MqFacts
<1>2. MqMemory /\ MqCells /\ MqCallers /\ MqMarks
  BY DEF MqInv
<1>3. /\ Wake(Receivers) /\ MqCallOver
      /\ free' = free /\ data' = data /\ timed' = timed /\ last' = last
      /\ pc[Me] \in {"send_link", "urgent_link"}
      /\ pc[Me] = "send_link" => MqLinkLast(node[Me], next)
      /\ pc[Me] = "urgent_link" => MqLinkFirst(node[Me])
  BY DEF MqSendLink, MqUrgentLink, At
<1>4. pc[Me] \notin SchedPlaces /\ pc[Me] \in MqHolding /\ Me # Idle
  BY <1>3, MqFacts DEF MqHolding, SchedPlaces
<1>5. /\ Sound(k', pc') /\ Wakes(k, k', First(k, Receivers)) /\ k'.err = k.err
      /\ pc'[Me] \in {"app", "call_sched"} /\ \A t \in Thread \ {Me} : pc'[t] = pc[t]
      /\ pc' \in {[pc EXCEPT ![Me] = "app"], [pc EXCEPT ![Me] = "call_sched"]}
  BY <1>1, <1>3, <1>4, WakeStep
<1>6. pc' \in [Thread -> MqPC] /\ pc'[Idle] = "app"
  <2>1. pc[Idle] = "app" /\ Idle \in Thread
    BY <1>1, <1>2 DEF MqCallers, CallsAssumption
  <2> QED BY <1>1, <1>4, <1>5, <2>1 DEF MqPC
<1>7. Node # {} /\ Payload # {}
  BY DEF MessageQueueAssumption
<1>8. /\ node' \in [Thread -> Node] /\ item' \in [Thread -> Payload]
      /\ got' \in [Thread -> Payload]
      /\ \A t \in Thread \ {Me} :
           node'[t] = node[t] /\ item'[t] = item[t] /\ got'[t] = got[t]
  BY <1>2, <1>3, <1>7, MqCallOverIs
<1>9. MqAlone
  BY <1>5, <1>8 DEF MqAlone
<1>10. PICK n \in Node : n = node[Me]
  BY <1>1, <1>2 DEF MqCallers
<1>11. pc'[Me] \notin MqHolding
  BY <1>5 DEF MqHolding
<1>12. HandGives(MqHands(pc, node), MqHands(pc', node'), Me, n)
  BY <1>1, <1>4, <1>9, <1>10, <1>11, MqHandGiven
<1>13. entry' = entry + 1
  BY <1>3 DEF MqLinkLast, MqLinkFirst
<1>14. MqMemory' /\ MqMove
  <2>1. CASE pc[Me] = "send_link"
    <3>1. next[n] = Null /\ MqLinkLast(n, next)
      BY <1>1, <1>2, <1>3, <1>10, <2>1 DEF MqMarks
    <3> QED BY <1>1, <1>2, <1>3, <1>12, <3>1, MqLinkMine
  <2>2. CASE pc[Me] = "urgent_link"
    <3>1. MqLinkFirst(n)
      BY <1>3, <1>10, <2>2
    <3> QED BY <1>1, <1>2, <1>3, <1>12, <3>1, MqLinkFront
  <2> QED BY <1>3, <2>1, <2>2
<1>15. /\ \A m \in Node \ {n, tail} : next'[m] = next[m]
       /\ next' \in [Node -> MqPointer]
  <2>1. next \in [Node -> MqPointer]
    BY <1>2 DEF MqCells
  <2>2. head \in MqPointer
    <3>1. PICK s, f : MqHeap(s, f)
      BY <1>2 DEF MqMemory
    <3>2. /\ s # <<>> => head \in Node
          /\ s = <<>> <=> head = Null
      BY <3>1, MqPathIn
    <3> QED BY <3>2 DEF MqPointer
  <2>3. CASE pc[Me] = "send_link"
    BY <1>3, <1>10, <2>1, <2>3 DEF MqLinkLast, MqPointer
  <2>4. CASE pc[Me] = "urgent_link"
    BY <1>3, <1>10, <2>1, <2>2, <2>4 DEF MqLinkFirst
  <2> QED BY <1>3, <2>3, <2>4
<1>16. MqCells' /\ MqCallers'
  BY <1>2, <1>3, <1>6, <1>8, <1>15 DEF MqCells, MqCallers
<1>17. MqOthersStay
  BY <1>1, <1>2, <1>3, <1>4, <1>10, <1>15, MqHeldApart DEF MqOthersStay
<1>18. MqMarkedMine
  BY <1>11 DEF MqMarkedMine, MqHolding
<1>19. MqMarks'
  BY <1>2, <1>9, <1>17, <1>18, MqMarksKept
<1>20. MqCalls'
  <2>1. Remain(pc, pc', MqRecvCalls)
    BY <1>3, <1>5 DEF Remain, MqRecvCalls
  <2> QED BY <1>5, <1>13, <2>1, MqGives
<1> QED BY <1>14, <1>16, <1>19, <1>20 DEF MqInv

LEMMA MqIsrStep ==
  ASSUME MessageQueueAssumption, IsFiniteSet(Thread), MqInv, NEW x \in Payload, MqIsrSend(x)
  PROVE  MqInv' /\ MqMove
<1>1. CallsAssumption /\ Sound(k, pc) /\ Me \in Thread /\ Receivers \in {Receivers, Senders}
  BY MqFacts
<1>2. MqMemory /\ MqCells /\ MqCallers /\ MqMarks
  BY DEF MqInv
<1>3. PICK n : n = free
  OBVIOUS
<1>4. /\ n # Null /\ MqLinkLast(free, [next EXCEPT ![free] = Null])
      /\ data' = [data EXCEPT ![n] = x] /\ free' = next[n] /\ k' = ResumeOne(Receivers)
      /\ pc' = pc /\ node' = node /\ item' = item /\ got' = got /\ timed' = timed /\ last' = last
  BY <1>3 DEF MqIsrSend, mqLocals
<1>5. SameHands(MqHands(pc, node), MqHands(pc', node'))
  BY <1>4 DEF SameHands
<1>6. MqMemory' /\ MqMove
  BY <1>2, <1>3, <1>4, <1>5, MqLinkIsr
<1>7. n \in Node
  <2>1. PICK s, f : MqHeap(s, f)
    BY <1>2 DEF MqMemory
  <2>2. /\ Path(Node, next, free, f) /\ Null \notin Node
        /\ f = <<>> <=> free = Null
    BY <2>1, MqPathIn
  <2> QED BY <1>3, <1>4, <2>2, PathEmpty
<1>8. /\ \A m \in Node \ {n, tail} : next'[m] = next[m] /\ data'[m] = data[m]
      /\ data' \in [Node -> Payload] /\ next' \in [Node -> MqPointer]
  BY <1>2, <1>3, <1>4, <1>7 DEF MqLinkLast, MqCells, MqPointer
<1>9. MqCells' /\ MqCallers'
  BY <1>2, <1>4, <1>8 DEF MqCells, MqCallers
<1>10. \A t \in Thread : pc[t] \in MqHolding =>
         next'[node[t]] = next[node[t]] /\ data'[node[t]] = data[node[t]]
  BY <1>2, <1>3, <1>8, MqHeldApart
<1>11. MqMarks'
  BY <1>2, <1>4, <1>10 DEF MqMarks, MqHolding
<1>12. MqCalls'
  <2>1. Sound(k', pc') /\ Wakes(k, k', First(k, Receivers)) /\ k'.err = k.err
    BY <1>1, <1>4, WakesResumeOne
  <2>2. entry' = entry + 1
    BY <1>4 DEF MqLinkLast
  <2>3. Remain(pc, pc', MqRecvCalls)
    BY <1>4 DEF Remain
  <2> QED BY <2>1, <2>2, <2>3, MqGives
<1> QED BY <1>6, <1>9, <1>11, <1>12 DEF MqInv

LEMMA MqUnlinkStep ==
  ASSUME MessageQueueAssumption, IsFiniteSet(Thread), MqInv, MqRecvNow \/ MqRecvAgain
  PROVE  MqInv' /\ MqMove
<1>1. /\ CallsAssumption /\ Sound(k, pc) /\ DOMAIN pc = Thread /\ Me \in Thread
      /\ KernelOK(k)
  BY MqFacts
<1>2. MqMemory /\ MqCells /\ MqCallers /\ MqMarks
  BY DEF MqInv
<1>3. PICK n : n = head
  OBVIOUS
<1>4. /\ pc[Me] \in {"app", "recv_again"} /\ entry > 0
      /\ Me # Idle /\ Go("recv_copy")
      /\ node' = [node EXCEPT ![Me] = n] /\ item' = [item EXCEPT ![Me] = data[n]]
      /\ last' = <<data[n]>> /\ head' = next[n] /\ tail' = (IF tail = n THEN Null ELSE tail)
      /\ entry' = entry - 1
      /\ k' = k /\ free' = free /\ next' = next /\ data' = data /\ got' = got /\ timed' = timed
  BY <1>3, MqFacts DEF MqRecvNow, MqRecvAgain, MqUnlink, At
<1>5. "recv_copy" \in MqPC /\ "recv_copy" \in MqHolding
      /\ pc[Me] \notin SchedPlaces /\ pc[Me] \notin MqHolding
  BY <1>4 DEF MqPC, MqHolding, SchedPlaces
<1>6. /\ pc' \in [Thread -> MqPC] /\ pc'[Idle] = "app" /\ pc'[Me] = "recv_copy"
      /\ \A t \in Thread \ {Me} : pc'[t] = pc[t]
  BY <1>4, <1>5, MqGo
<1>7. MqAlone
  BY <1>4, <1>6 DEF MqAlone
<1>8. Sound(k', pc')
  BY <1>1, <1>4, <1>5, GoStep
<1>9. MqCalls'
  BY <1>4, <1>6, <1>8, MqTakes
<1>10. node'[Me] = n
  BY <1>1, <1>2, <1>4 DEF MqCallers
<1>11. HandTakes(MqHands(pc, node), MqHands(pc', node'), Me, n)
  BY <1>1, <1>5, <1>6, <1>7, <1>10, MqHandTaken
<1>12. MqMemory' /\ MqMove /\ n \in Node
  BY <1>1, <1>2, <1>3, <1>4, <1>11, MqUnlinkFirst
<1>13. data[n] \in Payload
  BY <1>2, <1>12 DEF MqCells
<1>14. last' \in {<<y>> : y \in Payload}
  BY <1>4, <1>13
<1>15. MqCells'
  BY <1>2, <1>4, <1>14 DEF MqCells
<1>16. node' \in [Thread -> Node] /\ item' \in [Thread -> Payload]
  BY <1>2, <1>4, <1>12, <1>13 DEF MqCallers
<1>17. MqCallers'
  BY <1>2, <1>4, <1>6, <1>16 DEF MqCallers
<1>18. MqMarkedMine
  BY <1>1, <1>2, <1>4, <1>6, <1>10 DEF MqMarkedMine, MqCallers
<1>19. MqMarks'
  BY <1>2, <1>4, <1>7, <1>18, MqMarksKept DEF MqOthersStay
<1> QED BY <1>9, <1>12, <1>15, <1>17, <1>19 DEF MqInv

LEMMA MqRecvCopyStep ==
  ASSUME MessageQueueAssumption, IsFiniteSet(Thread), MqInv, MqRecvCopy
  PROVE  MqInv' /\ MqMove
<1>1. /\ CallsAssumption /\ Sound(k, pc) /\ DOMAIN pc = Thread /\ Me \in Thread
      /\ KernelOK(k)
  BY MqFacts
<1>2. MqMemory /\ MqCells /\ MqCallers /\ MqMarks
  BY DEF MqInv
<1>3. /\ pc[Me] = "recv_copy" /\ Go("recv_free")
      /\ got' = [got EXCEPT ![Me] = data[node[Me]]]
      /\ k' = k /\ head' = head /\ tail' = tail /\ free' = free /\ next' = next /\ entry' = entry
      /\ data' = data /\ node' = node /\ item' = item /\ timed' = timed /\ last' = last
  BY DEF MqRecvCopy, At, mqLinks
<1>4. /\ "recv_free" \in MqPC /\ "recv_free" \in MqHolding
      /\ pc[Me] \notin SchedPlaces /\ pc[Me] \in MqHolding /\ pc[Me] \notin MqRecvCalls
      /\ Me # Idle
  BY <1>3, MqFacts DEF MqPC, MqHolding, SchedPlaces, MqRecvCalls
<1>5. /\ pc' \in [Thread -> MqPC] /\ pc'[Idle] = "app" /\ pc'[Me] = "recv_free"
      /\ \A t \in Thread \ {Me} : pc'[t] = pc[t]
  BY <1>3, <1>4, MqGo
<1>6. MqAlone
  BY <1>3, <1>5 DEF MqAlone
<1>7. Sound(k', pc')
  BY <1>1, <1>3, <1>4, GoStep
<1>8. MqCalls'
  <2>1. Awakens(k, pc, k', {})
    BY <1>1, <1>3, WakesNobody DEF Awakens
  <2>2. Remain(pc, pc', MqRecvCalls)
    BY <1>4, <1>5 DEF Remain
  <2> QED BY <1>3, <1>7, <2>1, <2>2, MqRestful
<1>9. SameHands(MqHands(pc, node), MqHands(pc', node'))
  BY <1>1, <1>3, <1>4, <1>5, <1>6, MqHandSame
<1>10. MqMemory' /\ MqMove
  BY <1>2, <1>3, <1>9, MqKeep
<1>11. got'[Me] = data[node[Me]] /\ got' \in [Thread -> Payload]
  BY <1>1, <1>2, <1>3 DEF MqCallers, MqCells
<1>12. MqCells' /\ MqCallers'
  BY <1>2, <1>3, <1>5, <1>11 DEF MqCells, MqCallers
<1>13. MqMarkedMine
  BY <1>1, <1>2, <1>3, <1>5, <1>11 DEF MqMarkedMine, MqMarks
<1>14. MqMarks'
  BY <1>2, <1>3, <1>6, <1>13, MqMarksKept DEF MqOthersStay
<1> QED BY <1>8, <1>10, <1>12, <1>14 DEF MqInv

LEMMA MqRecvFreeStep ==
  ASSUME MessageQueueAssumption, IsFiniteSet(Thread), MqInv, MqRecvFree
  PROVE  MqInv' /\ MqMove
<1>1. /\ CallsAssumption /\ Sound(k, pc) /\ DOMAIN pc = Thread /\ Me \in Thread
      /\ KernelOK(k)
  BY MqFacts
<1>2. MqMemory /\ MqCells /\ MqCallers /\ MqMarks
  BY DEF MqInv
<1>3. /\ pc[Me] = "recv_free" /\ Go("app")
      /\ MqFreeNode(node[Me]) /\ MqCallOver
      /\ k' = k /\ data' = data /\ timed' = timed /\ last' = last
  BY DEF MqRecvFree, At
<1>4. /\ "app" \in MqPC /\ "app" \notin MqHolding
      /\ pc[Me] \notin SchedPlaces /\ pc[Me] \in MqHolding /\ pc[Me] \notin MqRecvCalls
      /\ Me # Idle
  BY <1>3, MqFacts DEF MqPC, MqHolding, SchedPlaces, MqRecvCalls
<1>5. /\ pc' \in [Thread -> MqPC] /\ pc'[Idle] = "app" /\ pc'[Me] = "app"
      /\ \A t \in Thread \ {Me} : pc'[t] = pc[t]
  BY <1>3, <1>4, MqGo
<1>6. Node # {} /\ Payload # {}
  BY DEF MessageQueueAssumption
<1>7. /\ node' \in [Thread -> Node] /\ item' \in [Thread -> Payload]
      /\ got' \in [Thread -> Payload]
      /\ \A t \in Thread \ {Me} :
           node'[t] = node[t] /\ item'[t] = item[t] /\ got'[t] = got[t]
  BY <1>2, <1>3, <1>6, MqCallOverIs
<1>8. MqAlone
  BY <1>5, <1>7 DEF MqAlone
<1>9. Sound(k', pc')
  BY <1>1, <1>3, <1>4, GoStep
<1>9a. entry' = entry
  BY <1>3 DEF MqFreeNode
<1>10. MqCalls'
  <2>1. Awakens(k, pc, k', {})
    BY <1>1, <1>3, WakesNobody DEF Awakens
  <2>2. Remain(pc, pc', MqRecvCalls)
    BY <1>4, <1>5 DEF Remain
  <2> QED BY <1>9, <1>9a, <2>1, <2>2, MqRestful
<1>11. PICK n \in Node : n = node[Me]
  BY <1>1, <1>2 DEF MqCallers
<1>12. HandGives(MqHands(pc, node), MqHands(pc', node'), Me, n)
  BY <1>1, <1>4, <1>5, <1>8, <1>11, MqHandGiven
<1>13. MqMemory' /\ MqMove
  <2>1. MqFreeNode(n)
    BY <1>3, <1>11
  <2> QED BY <1>1, <1>2, <1>3, <1>12, <2>1, MqFrees
<1>14. /\ \A m \in Node \ {n} : next'[m] = next[m]
       /\ next' \in [Node -> MqPointer]
  <2>1. next \in [Node -> MqPointer]
    BY <1>2 DEF MqCells
  <2>2. free \in MqPointer
    <3>1. PICK s, f : MqHeap(s, f)
      BY <1>2 DEF MqMemory
    <3>2. /\ Path(Node, next, free, f) /\ Null \notin Node
          /\ f = <<>> <=> free = Null
      BY <3>1, MqPathIn
    <3> QED BY <3>2, PathEmpty DEF MqPointer
  <2> QED BY <1>3, <1>11, <2>1, <2>2 DEF MqFreeNode
<1>15. MqCells' /\ MqCallers'
  BY <1>2, <1>3, <1>5, <1>7, <1>14 DEF MqCells, MqCallers
<1>16. MqMarkedMine
  BY <1>5 DEF MqMarkedMine
<1>17. MqOthersStay
  BY <1>1, <1>2, <1>3, <1>4, <1>11, <1>14, MqHeldApart DEF MqOthersStay
<1>18. MqMarks'
  BY <1>2, <1>8, <1>16, <1>17, MqMarksKept
<1> QED BY <1>10, <1>13, <1>15, <1>18 DEF MqInv

LEMMA MqResetStep ==
  ASSUME MessageQueueAssumption, IsFiniteSet(Thread), MqInv, MqReset
  PROVE  MqInv' /\ MqMove
<1>1. /\ CallsAssumption /\ Sound(k, pc) /\ DOMAIN pc = Thread /\ Me \in Thread
      /\ KernelOK(k) /\ Receivers \in {Receivers, Senders} /\ k.nest = 0 /\ Me = k.cur
  BY MqFacts
<1>2. MqMemory /\ MqCells /\ MqCallers /\ MqMarks
  BY DEF MqInv
<1>3. /\ pc[Me] = "app" /\ Me # Idle /\ Go("call_sched") /\ MqFreeAll
      /\ k' = ResumeAllWithError(k, Receivers)
      /\ data' = data /\ node' = node /\ item' = item /\ got' = got
      /\ timed' = timed /\ last' = last
  BY DEF MqReset, MqFreeAll, At, mqLocals
<1>4. /\ "call_sched" \in MqPC /\ "call_sched" \notin MqHolding
      /\ pc[Me] \notin SchedPlaces /\ pc[Me] \notin MqHolding
  BY <1>3 DEF MqPC, MqHolding, SchedPlaces
<1>5. /\ pc' \in [Thread -> MqPC] /\ pc'[Idle] = "app" /\ pc'[Me] = "call_sched"
      /\ \A t \in Thread \ {Me} : pc'[t] = pc[t]
  BY <1>3, <1>4, MqGo
<1>6. MqAlone
  BY <1>3, <1>5 DEF MqAlone
<1>7. SameHands(MqHands(pc, node), MqHands(pc', node'))
  BY <1>1, <1>4, <1>5, <1>6, MqHandSame
<1>8. MqMemory' /\ MqMove /\ next' \in [Node -> MqPointer]
  BY <1>2, <1>3, <1>7, MqFreesAll
<1>9. MqCells' /\ MqCallers'
  BY <1>2, <1>3, <1>5, <1>8 DEF MqCells, MqCallers
<1>10. Sound(k, pc')
  BY <1>1, <1>3, <1>4, GoStep
<1>11. MqCalls'
  <2> DEFINE X == {t \in Thread : Waits(k, Receivers, t)}
  <2>1. /\ Wakes(k, k', X) /\ Sound(k', pc')
        /\ \A t \in Thread \ X : k'.err[t] = k.err[t]
        /\ \A t \in Thread : ~Waits(k', Receivers, t)
    BY <1>1, <1>3, <1>10, WakesAll
  <2>2. k'.nest = 0
    BY <1>1, <2>1 DEF Wakes
  <2>3. Calm(k')
    <3>1. Calm(k)
      BY DEF MqInv, MqCalls
    <3> HIDE DEF X
    <3> QED BY <2>1, <3>1, CalmWakes
  <2> QED BY <2>1, <2>2, <2>3 DEF MqCalls, Matched
<1>12. MqMarkedMine
  BY <1>5 DEF MqMarkedMine
<1>13. MqOthersStay
  <2>1. \A n \in Node : ~IsIn(MqMessages, n) => next'[n] = next[n]
    BY <1>3 DEF MqFreeAll
  <2> QED BY <1>2, <1>3, <2>1, MqHeldApart DEF MqOthersStay
<1>14. MqMarks'
  BY <1>2, <1>6, <1>12, <1>13, MqMarksKept
<1> QED BY <1>8, <1>9, <1>11, <1>14 DEF MqInv

(* Every step keeps the invariant, and moves the contents as a queue.      *)
LEMMA MqStep ==
  ASSUME MessageQueueAssumption, IsFiniteSet(Thread), MqInv, MqNext
  PROVE  MqInv' /\ FifoMove(MqContents, MqContents', last, last', Cardinality(Node), Payload, {"urgent", "reset"})
<1> SUFFICES MqInv' /\ MqMove
  BY DEF MqMove
<1>1. /\ CallsAssumption /\ Sound(k, pc) /\ KernelOK(k) /\ DOMAIN pc = Thread /\ k.nest = 0
      /\ Me \in Thread /\ k.err \in [Thread -> Error] /\ pc \in [Thread -> MqPC]
      /\ Receivers \in {Receivers, Senders} /\ Senders \in {Receivers, Senders}
      /\ Me = k.cur /\ entry \in Nat
  BY MqFacts
<1>2. /\ pc[Me] # "app" => Me # Idle
      /\ Me \in MqMayRecv => Me # Idle
  BY MqFacts
<1>3. timed \subseteq Thread /\ pc[Idle] = "app"
  BY DEF MqInv, MqCallers
<1>4. ASSUME NEW x \in Payload,
             MqSendTake(x, "send_copy") \/ MqSendTake(x, "urgent_copy") \/ MqIsrSend(x)
      PROVE  MqInv' /\ MqMove
  BY <1>4, MqSendTakeStep, MqIsrStep
<1>5. ASSUME NEW late, k' = Block(k, Receivers, Me, MqFlag, late), Go("recv_sched"),
             pc[Me] \in {"app", "recv_again"}, Me # Idle, entry = 0, timed' \subseteq Thread,
             UNCHANGED <<mqLinks, data, node, item, got, last>>
      PROVE  MqInv' /\ MqMove
  <2>1. /\ pc[Me] \notin SchedPlaces /\ "recv_sched" \in SchedPlaces /\ "recv_sched" \in RecvPlaces
        /\ "recv_sched" \in MqPC /\ pc[Me] \notin MqHolding /\ "recv_sched" \notin MqHolding
    BY <1>5 DEF SchedPlaces, RecvPlaces, MqPC, MqHolding
  <2>2. /\ Sound(k', pc') /\ Joins(k, k', Receivers)
        /\ k'.err[Me] = "EOK" /\ \A t \in Thread \ {Me} : k'.err[t] = k.err[t]
        /\ pc'[Me] = "recv_sched" /\ \A t \in Thread \ {Me} : pc'[t] = pc[t]
    BY <1>1, <1>5, <2>1, BlockStep
  <2>3. entry' = entry
    BY <1>5 DEF mqLinks
  <2>4. MqCalls'
    BY <1>5, <2>2, <2>3, MqQueues
  <2>5. pc' \in [Thread -> MqPC] /\ pc'[Idle] = "app"
    BY <1>5, <2>1, MqGo
  <2>6. OnlyMoves(pc, pc', Me)
    BY <2>2 DEF OnlyMoves
  <2> QED BY <1>5, <2>1, <2>2, <2>4, <2>5, <2>6, MqQuiet
<1>6. CASE MqRecvWait
  <2>1. PICK late \in BOOLEAN : k' = Block(k, Receivers, Me, MqFlag, late) /\ Patience(late)
    BY <1>6 DEF MqRecvWait
  <2>2. timed' \subseteq Thread
    BY <2>1, MqPatience
  <2> QED BY <1>2, <1>5, <1>6, <2>1, <2>2 DEF MqRecvWait, At
<1>7. CASE MqRecvWaitAgain
  <2> DEFINE late == Me \in timed
  <2>1. /\ k' = Block(k, Receivers, Me, MqFlag, late) /\ Go("recv_sched")
        /\ pc[Me] \in {"app", "recv_again"} /\ Me # Idle /\ entry = 0 /\ timed' = timed
        /\ UNCHANGED <<mqLinks, data, node, item, got, last>>
    BY <1>2, <1>7 DEF MqRecvWaitAgain, At, mqLocals
  <2> HIDE DEF late
  <2> QED BY <1>3, <1>5, <2>1
<1>8. CASE MqRecvSchedule
  <2>1. /\ pc[Me] = "recv_sched" /\ Go("recv_error") /\ k' = Schedule(k) /\ timed' = timed
        /\ UNCHANGED <<mqLinks, data, node, item, got, last>> /\ entry' = entry /\ Me # Idle
    BY <1>2, <1>8 DEF MqRecvSchedule, At, mqLocals, mqLinks
  <2>2. /\ "recv_error" \in RecvPlaces /\ pc[Me] \notin SendPlaces /\ "recv_error" \in MqPC
        /\ pc[Me] \notin MqHolding /\ "recv_error" \notin MqHolding
        /\ "recv_error" \in MqRecvCalls
    BY <2>1 DEF RecvPlaces, SendPlaces, MqPC, MqHolding, MqRecvCalls
  <2>3. /\ Sound(k', pc') /\ Wakes(k, k', {}) /\ k'.err = k.err
        /\ pc'[Me] = "recv_error" /\ \A t \in Thread \ {Me} : pc'[t] = pc[t]
    BY <1>1, <2>1, <2>2, ScheduleStep
  <2>4. Awakens(k, pc, k', {}) /\ Remain(pc, pc', MqRecvCalls) /\ OnlyMoves(pc, pc', Me)
    BY <1>1, <2>2, <2>3 DEF Awakens, Remain, OnlyMoves
  <2>5. MqCalls'
    BY <2>1, <2>3, <2>4, MqRestful
  <2>6. pc' \in [Thread -> MqPC] /\ pc'[Idle] = "app"
    BY <2>1, <2>2, MqGo
  <2> QED BY <1>3, <2>1, <2>2, <2>3, <2>4, <2>5, <2>6, MqQuiet
<1>9. CASE MqRecvError
  <2>1. PICK b \in {"recv_again", "app"} :
          /\ pc[Me] = "recv_error" /\ Go(b) /\ k' = k /\ timed' = timed
          /\ UNCHANGED <<mqLinks, data, node, item, got, last>> /\ entry' = entry /\ Me # Idle
          /\ b = "app" => k.err[Me] # "EOK"
    BY <1>2, <1>9 DEF MqRecvError, At, mqLocals, mqLinks
  <2>2. /\ pc[Me] \notin SchedPlaces /\ b \in MqPC /\ pc[Me] \notin MqHolding /\ b \notin MqHolding
    BY <2>1 DEF SchedPlaces, MqPC, MqHolding
  <2>3. /\ Sound(k', pc') /\ ~Waits(k, Receivers, Me) /\ ~Waits(k, Senders, Me)
        /\ pc'[Me] = b /\ \A t \in Thread \ {Me} : pc'[t] = pc[t]
    BY <1>1, <2>1, <2>2, GoStep
  <2>4. Wakes(k, k', {}) /\ OnlyMoves(pc, pc', Me)
    BY <1>1, <2>1, <2>3, WakesNobody DEF OnlyMoves
  <2>5. MqCalls'
    <3>1. CASE b = "app"
      BY <2>1, <2>3, <2>4, <3>1, MqLeaves
    <3>2. CASE b = "recv_again"
      <4>1. Awakens(k, pc, k', {})
        BY <1>1, <2>1, <2>4 DEF Awakens
      <4>2. Remain(pc, pc', MqRecvCalls)
        BY <2>3, <3>2 DEF Remain, MqRecvCalls
      <4> QED BY <2>1, <2>3, <4>1, <4>2, MqRestful
    <3> QED BY <3>1, <3>2
  <2>6. pc' \in [Thread -> MqPC] /\ pc'[Idle] = "app"
    BY <2>1, <2>2, MqGo
  <2> QED BY <1>3, <2>1, <2>2, <2>3, <2>4, <2>5, <2>6, MqQuiet
<1>10. CASE MqRecvTimeUp
  <2>1. /\ pc[Me] = "recv_again" /\ Go("app") /\ timed' = timed /\ entry = 0
        /\ k' = WithError(k, Me, "ETIMEOUT") /\ "ETIMEOUT" \in Error
        /\ UNCHANGED <<mqLinks, data, node, item, got, last>> /\ entry' = entry /\ Me # Idle
    BY <1>2, <1>10 DEF MqRecvTimeUp, At, mqLocals, mqLinks, Error
  <2>2. /\ pc[Me] \notin SchedPlaces /\ "app" \in MqPC /\ pc[Me] \notin MqHolding
        /\ "app" \notin MqHolding
    BY <2>1 DEF SchedPlaces, MqPC, MqHolding
  <2>3. /\ Sound(k, pc') /\ ~Waits(k, Receivers, Me) /\ ~Waits(k, Senders, Me)
        /\ pc'[Me] = "app" /\ \A t \in Thread \ {Me} : pc'[t] = pc[t]
    BY <1>1, <2>1, <2>2, GoStep
  <2>4. Wakes(k, k', {}) /\ Sound(k', pc') /\ \A t \in Thread \ {Me} : k'.err[t] = k.err[t]
    BY <1>1, <2>1, <2>3, ErrorStep
  <2>5. MqCalls'
    BY <2>1, <2>3, <2>4, MqLeaves
  <2>6. pc' \in [Thread -> MqPC] /\ pc'[Idle] = "app"
    BY <2>1, <2>2, MqGo
  <2>7. OnlyMoves(pc, pc', Me)
    BY <2>3 DEF OnlyMoves
  <2> QED BY <1>3, <2>1, <2>2, <2>3, <2>5, <2>6, <2>7, MqQuiet
<1>11. CASE MqReturn
  <2>1. /\ CallSchedule /\ timed' = timed
        /\ UNCHANGED <<mqLinks, data, node, item, got, last>> /\ entry' = entry
    BY <1>11 DEF MqReturn, mqLocals, mqLinks
  <2>2. /\ Sound(k', pc') /\ Wakes(k, k', {}) /\ k'.err = k.err
        /\ pc[Me] = "call_sched" /\ pc'[Me] = "app"
        /\ \A t \in Thread \ {Me} : pc'[t] = pc[t]
    BY <1>1, <2>1, ReturnStep
  <2>3. /\ "app" \in MqPC /\ pc[Me] \notin MqHolding /\ "app" \notin MqHolding
        /\ pc[Me] \notin MqRecvCalls /\ Me # Idle
    BY <1>2, <2>2 DEF MqPC, MqHolding, MqRecvCalls
  <2>4. Awakens(k, pc, k', {}) /\ Remain(pc, pc', MqRecvCalls) /\ OnlyMoves(pc, pc', Me)
    BY <1>1, <2>2, <2>3 DEF Awakens, Remain, OnlyMoves
  <2>5. MqCalls'
    BY <2>1, <2>2, <2>4, MqRestful
  <2>6. pc' \in [Thread -> MqPC] /\ pc'[Idle] = "app"
    BY <2>1, <2>3, MqGo DEF CallSchedule
  <2> QED BY <1>3, <2>1, <2>2, <2>3, <2>4, <2>5, <2>6, MqQuiet
<1>12. CASE MqTick
  <2>1. /\ Tick /\ timed' = timed
        /\ UNCHANGED <<mqLinks, data, node, item, got, last>> /\ entry' = entry
    BY <1>12 DEF MqTick, mqLocals, mqLinks
  <2>2. PICK X \in SUBSET Thread :
           /\ Wakes(k, k', X) /\ Sound(k', pc') /\ pc' = pc
           /\ \A t \in Thread \ X : k'.err[t] = k.err[t]
    BY <1>1, <2>1, TickStep
  <2>3. Awakens(k, pc, k', X) /\ Remain(pc, pc', MqRecvCalls) /\ OnlyMoves(pc, pc', Me)
    BY <1>1, <2>2 DEF Awakens, Remain, OnlyMoves
  <2>4. MqCalls'
    BY <2>1, <2>2, <2>3, MqRestful
  <2> QED BY <1>1, <1>3, <2>1, <2>2, <2>3, <2>4, MqQuiet
<1> QED BY <1>4, <1>6, <1>7, <1>8, <1>9, <1>10, <1>11, <1>12, MqCopyStep, MqLinkStep,
           MqUnlinkStep, MqRecvCopyStep, MqRecvFreeStep, MqResetStep DEF MqNext

(* What the invariant says *)
LEMMA MqHolds ==
  ASSUME MessageQueueAssumption, MqInv
  PROVE  MqNobodyStranded /\ MqNodesAccounted /\ MqQueueWellFormed /\ MqCopiedIntact
<1>1. CallsAssumption /\ KernelOK(k)
  BY MqFacts
<1>2. MqNobodyStranded
  <2>1. Waiters(k, Receivers) # <<>> => \E t \in Thread : Waits(k, Receivers, t)
    BY <1>1, WaitersFacts
  <2>2. Woken(MqRecvCalls, Receivers) = WokenFor(k, pc, MqRecvCalls, Receivers)
    BY WokenIsWokenFor
  <2>3. Matched(entry, k, pc, MqRecvCalls, Receivers)
    BY DEF MqInv, MqCalls
  <2> QED BY <2>1, <2>2, <2>3 DEF MqNobodyStranded, Matched, MqRecvCalls
<1>3. PICK s, f : MqHeap(s, f)
  BY DEF MqInv, MqMemory
<1>4. /\ IsFiniteSet(Node) /\ Null \notin Node
      /\ Path(Node, next, head, s) /\ Path(Node, next, free, f)
      /\ Parted(Node, s, f, MqHands(pc, node))
      /\ s \in Seq(Node) /\ f \in Seq(Node) /\ entry = Len(s) /\ entry \in Nat
      /\ s # <<>> => tail = s[Len(s)]
      /\ s = <<>> => tail = Null
  BY <1>3, MqPathIn
<1>4a. s = <<>> <=> Len(s) = 0
  BY <1>4, PathEmpty
<1>5. MqChain(head) = Append(s, Null) /\ MqChain(free) = Append(f, Null)
  BY <1>4, ChainPath DEF MqChain
<1>6. MqNodesAccounted
  <2>1. MqQueued = {n \in Node : IsIn(s, n)}
    BY <1>4, <1>5, InAppend DEF MqQueued
  <2>2. MqFree = {n \in Node : IsIn(f, n)}
    BY <1>4, <1>5, InAppend DEF MqFree
  <2>3. \A t \in Thread : MqMine(t) = MqHands(pc, node)[t]
    BY DEF MqMine, MqHands, MqHolding
  <2>4. \A t \in Thread : MqMine(t) \subseteq Node
    BY DEF MqMine, MqInv, MqCallers
  <2>5. MqQueued \cap MqFree = {}
    BY <1>4, <2>1, <2>2 DEF Parted, Apart
  <2>6. \A t \in Thread : MqMine(t) \cap (MqQueued \cup MqFree) = {}
    BY <1>4, <2>1, <2>2, <2>3 DEF Parted
  <2>7. \A t, u \in Thread : t # u => MqMine(t) \cap MqMine(u) = {}
    BY <1>4, <2>3 DEF Parted
  <2>8. MqQueued \cup MqFree \cup UNION {MqMine(t) : t \in Thread} = Node
    <3>1. \A n \in Node : n \in MqQueued \/ n \in MqFree \/ \E t \in Thread : n \in MqMine(t)
      BY <1>4, <2>1, <2>2, <2>3 DEF Parted
    <3> QED BY <2>1, <2>2, <2>4, <3>1
  <2> QED BY <2>5, <2>6, <2>7, <2>8 DEF MqNodesAccounted
<1>7. MqQueueWellFormed
  <2> DEFINE c == MqChain(head)
  <2>1. Len(c) = entry + 1 /\ c[entry + 1] = Null /\ \A i \in 1 .. entry : c[i] = s[i]
    BY <1>4, <1>5
  <2>2. entry = 0 => s = <<>>
    BY <1>4, <1>4a
  <2>3. entry # 0 => s # <<>> /\ entry \in 1 .. entry
    BY <1>4, <1>4a
  <2> HIDE DEF c
  <2>4. c[Len(c)] = Null /\ entry = Len(c) - 1 /\ tail = IF entry = 0 THEN Null ELSE c[entry]
    BY <1>4, <2>1, <2>2, <2>3
  <2> QED BY <2>4 DEF MqQueueWellFormed, c
<1>8. MqCopiedIntact
  BY DEF MqCopiedIntact, MqInv, MqMarks
<1> QED BY <1>2, <1>6, <1>7, <1>8

LEMMA MqStart ==
  ASSUME MessageQueueAssumption, MqInit
  PROVE  MqInv /\ MqContents = <<>>
<1>1. /\ CallsAssumption /\ StartOK(MqBoot) /\ Started(MqBoot)
      /\ IsFiniteSet(Node) /\ Node # {} /\ Null \notin Node /\ Payload # {}
  BY DEF MessageQueueAssumption, MqInit
<1>2. /\ Sound(k, pc) /\ Calm(k) /\ k.nest = 0
      /\ \A t \in Thread : pc[t] = "app" /\ ~Waits(k, Receivers, t)
  BY <1>1, StartedSound
<1>3. pc \in [Thread -> MqPC] /\ pc[Idle] = "app"
  BY <1>1, CallFacts DEF Started, MqPC
<1>4. MqCalls
  BY <1>2 DEF MqCalls, Matched
<1>5. MqNoNode \in Node /\ MqNoItem \in Payload
  BY <1>1 DEF MqNoNode, MqNoItem
<1>6. MqCallers /\ MqCells
  BY <1>1, <1>3, <1>5 DEF MqCallers, MqCells, MqInit
<1>7. PICK f : Path(Node, next, free, f) /\ Len(f) = Cardinality(Node) /\ \A x \in Node : IsIn(f, x)
  <2>1. LinkedAll(Node, free, next)
    BY DEF MqInit
  <2> QED BY <1>1, <2>1, PathOfAll
<1>8. Path(Node, next, head, <<>>)
  BY DEF MqInit, Path
<1>9. \A t \in Thread : MqHands(pc, node)[t] = {}
  BY <1>2 DEF MqHands, MqHolding
<1>10. Parted(Node, <<>>, f, MqHands(pc, node))
  BY <1>7, <1>9 DEF Parted, Apart, IsIn
<1>11. MqHeap(<<>>, f)
  BY <1>7, <1>8, <1>10 DEF MqHeap, MqInit
<1>12. MqMarks
  BY <1>2 DEF MqMarks
<1>13. MqContents = <<>>
  <2>1. MqContents = Held(<<>>, data)
    BY <1>11, MqPathIn
  <2> QED BY <2>1 DEF Held
<1> QED BY <1>4, <1>6, <1>11, <1>12, <1>13 DEF MqInv, MqMemory

-----------------------------------------------------------------------------
(* The memory pool                                                         *)

MpPlaces == {"alloc_sched", "alloc_error", "alloc_again"}

MpWaiting(u) == {t \in Thread : Waits(u, Receivers, t)}

(* The free blocks, in the order of the list                               *)
MpHeap(f) ==
  /\ Path(PoolBlock, header, list, f) /\ freeCount = Len(f)
  /\ Parted(PoolBlock, <<>>, f, held)

(* Without time-outs the count is the length of the wait list.             *)
MpCounting(u, p, n, c) ==
  /\ u.armed = {} /\ c = Cardinality(MpWaiting(u))
  /\ Matched(n, u, p, MpPlaces, Receivers)

MpCalls == Sound(k, pc) /\ Calm(k) /\ k.nest = 0

MpCallers ==
  /\ pc \in [Thread -> MpPC] /\ pc[Idle] \in {"app", "call_sched"}
  /\ uses \subseteq (Thread \ {Idle}) \X BOOLEAN

MpMemory ==
  /\ header \in [PoolBlock -> PoolBlock \cup {Null, Pool}]
  /\ held \in [Thread -> SUBSET PoolBlock]
  /\ \A t \in Thread : \A b \in held[t] : header[b] = Pool
  /\ \E f : MpHeap(f)

MpCounted == MpUntimed => timed = {} /\ MpCounting(k, pc, freeCount, suspendCount)

MpInv == MpCalls /\ MpCallers /\ MpMemory /\ MpCounted

-----------------------------------------------------------------------------
(* The kernel's part *)

(* The current thread, put at the front of the wait list                   *)
MpFront(u, late) ==
  LET v == InsertFirst(Suspend(WithError(u, u.cur, "EOK"), u.cur), Wait(Receivers), u.cur)
  IN  IF late THEN TimerStart(v, u.cur) ELSE v

LEMMA FrontList ==
  ASSUME NEW s \in Seq(Thread), Injective(s), NEW t \in Thread, ~IsIn(s, t)
  PROVE  AddsTo(<<t>> \o s, s, t)
<1> DEFINE w == <<t>> \o s  n == Len(s)
<1>1. /\ w \in Seq(Thread) /\ n \in Nat /\ DOMAIN s = 1 .. n
      /\ DOMAIN w = 1 .. n + 1
      /\ w[1] = t /\ \A j \in 2 .. n + 1 : w[j] = s[j - 1]
  OBVIOUS
<1>2. \A j \in 1 .. n : s[j] # t
  BY <1>1 DEF IsIn
<1> HIDE DEF w, n
<1>3. ASSUME NEW i \in 1 .. n + 1, NEW j \in 1 .. n + 1, w[i] = w[j] PROVE i = j
  <2>1. /\ i # 1 => i \in 2 .. n + 1 /\ i - 1 \in 1 .. n
        /\ j # 1 => j \in 2 .. n + 1 /\ j - 1 \in 1 .. n
    BY <1>1
  <2>2. CASE i = 1 \/ j = 1
    BY <1>1, <1>2, <1>3, <2>1, <2>2
  <2>3. CASE i # 1 /\ j # 1
    <3>1. w[i] = s[i - 1] /\ w[j] = s[j - 1] /\ (i - 1 = j - 1 => i = j)
      BY <1>1, <2>1, <2>3
    <3> QED BY <1>1, <1>3, <2>1, <2>3, <3>1 DEF Injective
  <2> QED BY <2>2, <2>3
<1>4. Injective(w)
  BY <1>1, <1>3 DEF Injective
<1>5. ASSUME NEW x PROVE IsIn(w, x) <=> IsIn(s, x) \/ x = t
  <2>1. ASSUME IsIn(w, x) PROVE IsIn(s, x) \/ x = t
    <3>1. PICK i \in 1 .. n + 1 : w[i] = x
      BY <1>1, <2>1 DEF IsIn
    <3>2. i # 1 => i \in 2 .. n + 1 /\ i - 1 \in 1 .. n
      BY <1>1
    <3> QED BY <1>1, <3>1, <3>2 DEF IsIn
  <2>2. ASSUME IsIn(s, x) PROVE IsIn(w, x)
    <3>1. PICK i \in 1 .. n : s[i] = x
      BY <1>1, <2>2 DEF IsIn
    <3>2. i + 1 \in 2 .. n + 1 /\ i + 1 \in 1 .. n + 1 /\ (i + 1) - 1 = i
      BY <1>1
    <3>3. w[i + 1] = x
      BY <1>1, <3>1, <3>2
    <3> QED BY <1>1, <3>2, <3>3 DEF IsIn
  <2>3. IsIn(w, t)
    <3>1. 1 \in 1 .. n + 1
      BY <1>1
    <3> QED BY <1>1, <3>1 DEF IsIn
  <2> QED BY <2>1, <2>2, <2>3
<1> QED BY <1>1, <1>4, <1>5 DEF AddsTo, w

LEMMA FrontProperties ==
  ASSUME NEW u, KernelOK(u), NEW t \in Thread, u.stat[t] = "READY", NEW q \in WaitQueue,
         NEW w, w = InsertFirst(Suspend(u, t), Wait(q), t)
  PROVE  /\ KernelOK(w)
         /\ w.stat = Put(u.stat, t, "SUSPEND")
         /\ w.cur = u.cur /\ w.nest = u.nest /\ w.err = u.err
         /\ w.armed = u.armed \ {t}
         /\ \A o \in WaitQueue, x \in Thread :
              IsIn(w.lists[Wait(o)], x)
                <=> (IsIn(u.lists[Wait(o)], x) /\ x # t) \/ (o = q /\ x = t)
<1> DEFINE v == Suspend(u, t)
           s == v.lists[Wait(q)]
           s2 == <<t>> \o s
           M == Put(v.lists, Wait(q), s2)
<1>1. /\ KernelOK(v)
      /\ Unlinked(v.lists, t)
      /\ v.stat = Put(u.stat, t, "SUSPEND")
      /\ v.prio = u.prio /\ v.cur = u.cur /\ v.nest = u.nest /\ v.err = u.err
      /\ v.armed = u.armed \ {t}
      /\ \A h \in ListHeads, x \in Thread \ {t} :
           IsIn(v.lists[h], x) <=> IsIn(u.lists[h], x)
  BY SuspendProperties
<1>2. w = [v EXCEPT !.lists = M]
  BY DEF InsertFirst, Put
<1> HIDE DEF v
<1>3. /\ v \in Kernel /\ ListsOK(v.lists) /\ ReadyListed(v) /\ GroupExact(v)
      /\ TimersOfSuspended(v)
  BY <1>1, OneListLists DEF KernelOK
<1>4. Wait(q) \in ListHeads /\ \A p \in Prio : Wait(q) # Ready(p)
  BY HeadsAreHeads
<1>5. s \in Seq(Thread) /\ Injective(s) /\ ~IsIn(s, t)
  BY <1>1, <1>3, <1>4, Zenon DEF ListsOK, Unlinked
<1>6. AddsTo(s2, s, t)
  BY <1>5, FrontList
<1> HIDE DEF s2
<1>7. M = Put(v.lists, Wait(q), s2)
  OBVIOUS
<1> HIDE DEF M
<1>8. /\ ListsOK(M)
      /\ \A h \in ListHeads, x \in Thread :
           IsIn(M[h], x) <=> IsIn(v.lists[h], x) \/ (h = Wait(q) /\ x = t)
  BY <1>1, <1>3, <1>4, <1>6, <1>7, InsertInLists
<1>9. /\ w \in Kernel
      /\ w.stat = v.stat /\ w.prio = v.prio /\ w.group = v.group /\ w.lists = M
      /\ w.cur = v.cur /\ w.nest = v.nest /\ w.err = v.err /\ w.armed = v.armed
  BY <1>2, <1>3, <1>8 DEF Kernel, ListsOK
<1>10. KernelOK(w)
  <2>1. OneList(w)
    BY <1>8, <1>9, OneListLists
  <2>2. \A p \in Prio : M[Ready(p)] = v.lists[Ready(p)]
    BY <1>3, <1>4, <1>7, HeadsAreHeads DEF Put, ListsOK
  <2>3. ReadyListed(w)
    BY <1>3, <1>9, <2>2 DEF ReadyListed
  <2>4. GroupExact(w)
    BY <1>3, <1>9, <2>2 DEF GroupExact
  <2>5. TimersOfSuspended(w)
    BY <1>3, <1>9 DEF TimersOfSuspended
  <2> QED BY <1>9, <2>1, <2>3, <2>4, <2>5 DEF KernelOK
<1>11. ASSUME NEW o \in WaitQueue, NEW x \in Thread
       PROVE  IsIn(w.lists[Wait(o)], x)
                <=> (IsIn(u.lists[Wait(o)], x) /\ x # t) \/ (o = q /\ x = t)
  <2>1. Wait(o) \in ListHeads /\ (Wait(o) = Wait(q) <=> o = q)
    BY HeadsAreHeads DEF Wait
  <2>2. ~IsIn(v.lists[Wait(o)], t)
    BY <1>1, <2>1 DEF Unlinked
  <2> QED BY <1>1, <1>8, <1>9, <2>1, <2>2
<1> QED BY <1>1, <1>9, <1>10, <1>11

LEMMA JoinsFront ==
  ASSUME CallsAssumption, NEW u, NEW p, Sound(u, p), u.stat[u.cur] = "READY", NEW late \in BOOLEAN,
         NEW w, w = MpFront(u, late)
  PROVE  /\ Joins(u, w, Receivers)
         /\ w.err[u.cur] = "EOK" /\ \A t \in Thread \ {u.cur} : w.err[t] = u.err[t]
         /\ ~late => w.armed = u.armed \ {u.cur}
<1> DEFINE x == u.cur
           a == WithError(u, x, "EOK")
           v == InsertFirst(Suspend(a, x), Wait(Receivers), x)
<1>1. KernelOK(u) /\ x \in Thread /\ u.stat \in [Thread -> Stat] /\ u.err \in [Thread -> Error]
      /\ Receivers \in WaitQueue /\ Senders \in WaitQueue /\ "EOK" \in Error
  BY SoundFacts, CallFacts DEF Error
<1>2. /\ KernelOK(a)
      /\ a.stat = u.stat /\ a.lists = u.lists /\ a.armed = u.armed /\ a.cur = u.cur
      /\ a.nest = u.nest /\ a.err = Put(u.err, x, "EOK")
  BY <1>1, SetError
<1>3. w = IF late THEN TimerStart(v, x) ELSE v
  BY DEF MpFront
<1>4. u.stat[x] = "READY" /\ x = u.cur
  OBVIOUS
<1> HIDE DEF a, x
<1>5. /\ KernelOK(v)
      /\ v.stat = Put(a.stat, x, "SUSPEND")
      /\ v.cur = a.cur /\ v.nest = a.nest /\ v.err = a.err
      /\ v.armed = a.armed \ {x}
      /\ \A o \in WaitQueue, t \in Thread :
           IsIn(v.lists[Wait(o)], t)
             <=> (IsIn(a.lists[Wait(o)], t) /\ t # x) \/ (o = Receivers /\ t = x)
  BY <1>1, <1>2, <1>4, FrontProperties
<1> HIDE DEF v
<1>6. v.stat[x] = "SUSPEND"
  BY <1>1, <1>2, <1>5 DEF Put
<1>7. /\ KernelOK(w) /\ w.stat = v.stat /\ w.lists = v.lists /\ w.cur = v.cur /\ w.nest = v.nest
      /\ w.err = v.err /\ (~late => w.armed = v.armed)
  <2>1. CASE late
    BY <1>1, <1>3, <1>5, <1>6, <2>1, TimerStartProperties
  <2>2. CASE ~late
    BY <1>3, <1>5, <2>2
  <2> QED BY <2>1, <2>2
<1>8. ~Waits(u, Receivers, x) /\ ~Waits(u, Senders, x)
  BY <1>1, <1>4 DEF Sound
<1>9. \A o \in {Receivers, Senders}, t \in Thread :
        Waits(w, o, t) <=> Waits(u, o, t) \/ (o = Receivers /\ t = x)
  BY <1>1, <1>2, <1>5, <1>7, <1>8 DEF Waits
<1>10. /\ w.stat[x] = "SUSPEND" /\ \A t \in Thread \ {x} : w.stat[t] = u.stat[t]
       /\ w.err[x] = "EOK" /\ \A t \in Thread \ {x} : w.err[t] = u.err[t]
  BY <1>1, <1>2, <1>5, <1>7 DEF Put
<1>11. ~late => w.armed = u.armed \ {x}
  BY <1>2, <1>5, <1>7
<1>12. Joins(u, w, Receivers)
  BY <1>2, <1>4, <1>5, <1>7, <1>9, <1>10 DEF Joins
<1> QED BY <1>4, <1>10, <1>11, <1>12

(* MpResumed: the error code of a waiter already is RT_EOK.                *)
MpFirstResumed(u) ==
  LET t == Waiters(u, Receivers)[1] IN Resume(WithError(u, t, "EOK"), t)

LEMMA WakesFirstCalm ==
  ASSUME CallsAssumption, NEW u, NEW p, Sound(u, p), Calm(u), Waiters(u, Receivers) # <<>>,
         NEW w, w = MpFirstResumed(u)
  PROVE  /\ Wakes(u, w, First(u, Receivers)) /\ Sound(w, p)
         /\ w.cur = u.cur /\ w.err = u.err /\ w.armed \subseteq u.armed
<1> DEFINE x == Waiters(u, Receivers)[1]
           a == WithError(u, x, "EOK")
<1>1. x \in Thread /\ u.stat[x] = "SUSPEND" /\ Waits(u, Receivers, x)
      /\ First(u, Receivers) = {x}
  BY FirstIsSuspended
<1>2. KernelOK(u) /\ u.cur \in Thread /\ u.stat \in [Thread -> Stat] /\ u.err \in [Thread -> Error]
      /\ Receivers \in WaitQueue /\ Senders \in WaitQueue /\ "EOK" \in Error
  BY SoundFacts, CallFacts DEF Error
<1>3. w = Resume(a, x)
  BY DEF MpFirstResumed
<1>4. u.err[x] = "EOK"
  BY <1>1 DEF Calm
<1> HIDE DEF x
<1>5. /\ KernelOK(a)
      /\ a.stat = u.stat /\ a.lists = u.lists /\ a.armed = u.armed /\ a.cur = u.cur
      /\ a.nest = u.nest /\ a.err = Put(u.err, x, "EOK")
  BY <1>1, <1>2, SetError
<1>6. a.err = u.err
  BY <1>2, <1>4, <1>5 DEF Put
<1> HIDE DEF a
<1>7. a.stat[x] = "SUSPEND"
  BY <1>1, <1>5
<1>8. /\ KernelOK(w)
      /\ w.stat = Put(a.stat, x, "READY")
      /\ w.cur = a.cur /\ w.nest = a.nest /\ w.err = a.err
      /\ w.armed = a.armed \ {x}
      /\ \A o \in WaitQueue, t \in Thread :
           IsIn(w.lists[Wait(o)], t) <=> IsIn(a.lists[Wait(o)], t) /\ t # x
  BY <1>1, <1>3, <1>5, <1>7, ResumeProperties
<1>9. w.stat[x] = "READY" /\ \A t \in Thread \ {x} : w.stat[t] = u.stat[t]
  BY <1>1, <1>2, <1>5, <1>8 DEF Put
<1>10. Wakes(u, w, {x})
  BY <1>1, <1>2, <1>5, <1>8, <1>9 DEF Wakes, Waits
<1>11. Sound(w, p)
  BY <1>10, SoundWakes
<1>12. w.armed \subseteq u.armed
  BY <1>5, <1>8
<1> QED BY <1>1, <1>5, <1>6, <1>8, <1>10, <1>11, <1>12

-----------------------------------------------------------------------------
(* How many wait *)
LEMMA MpWaitingFinite ==
  ASSUME IsFiniteSet(Thread), NEW u
  PROVE  IsFiniteSet(MpWaiting(u)) /\ Cardinality(MpWaiting(u)) \in Nat
<1>1. MpWaiting(u) \in SUBSET Thread
  BY DEF MpWaiting
<1>2. IsFiniteSet(MpWaiting(u))
  BY <1>1, FS_Subset
<1> QED BY <1>2, FS_CardinalityType

LEMMA MpNobodyLess ==
  ASSUME NEW u, NEW w, Wakes(u, w, {})
  PROVE  MpWaiting(w) = MpWaiting(u)
BY DEF MpWaiting, Wakes

LEMMA MpOneLess ==
  ASSUME CallsAssumption, IsFiniteSet(Thread), NEW u, NEW w, KernelOK(u),
         Wakes(u, w, First(u, Receivers)), Waiters(u, Receivers) # <<>>
  PROVE  Cardinality(MpWaiting(w)) = Cardinality(MpWaiting(u)) - 1
<1> DEFINE x == Waiters(u, Receivers)[1]
<1>1. x \in Thread /\ Waits(u, Receivers, x) /\ First(u, Receivers) = {x}
  BY WaitersFacts DEF First
<1> HIDE DEF x
<1>2. MpWaiting(w) = MpWaiting(u) \ {x} /\ x \in MpWaiting(u)
  BY <1>1 DEF MpWaiting, Wakes
<1> QED BY <1>2, MpWaitingFinite, FS_RemoveElement

LEMMA MpOneMore ==
  ASSUME IsFiniteSet(Thread), NEW u, NEW w, u.cur \in Thread, Joins(u, w, Receivers),
         ~Waits(u, Receivers, u.cur)
  PROVE  Cardinality(MpWaiting(w)) = Cardinality(MpWaiting(u)) + 1
<1>1. MpWaiting(w) = MpWaiting(u) \cup {u.cur} /\ u.cur \notin MpWaiting(u)
  BY DEF MpWaiting, Joins
<1> QED BY <1>1, MpWaitingFinite, FS_AddElement

LEMMA MpSomebody ==
  ASSUME CallsAssumption, IsFiniteSet(Thread), NEW u, KernelOK(u)
  PROVE  Waiters(u, Receivers) # <<>> <=> Cardinality(MpWaiting(u)) > 0
<1>1. Waiters(u, Receivers) # <<>> <=> MpWaiting(u) # {}
  BY WaitersFacts DEF MpWaiting
<1>2. MpWaiting(u) = {} <=> Cardinality(MpWaiting(u)) = 0
  BY MpWaitingFinite, FS_EmptySet
<1> QED BY <1>1, <1>2, MpWaitingFinite

-----------------------------------------------------------------------------
(* The blocks *)

LEMMA MpHeapIs ==
  ASSUME MemPoolAssumption, NEW f, MpHeap(f)
  PROVE  /\ IsFiniteSet(PoolBlock) /\ Null \notin PoolBlock /\ Pool \notin PoolBlock
         /\ Path(PoolBlock, header, list, f)
         /\ f \in Seq(PoolBlock) /\ freeCount \in Nat /\ freeCount = Len(f)
         /\ Parted(PoolBlock, <<>>, f, held)
         /\ freeCount > 0 => f # <<>> /\ list \in PoolBlock /\ IsIn(f, list)
<1>1. /\ IsFiniteSet(PoolBlock) /\ Null \notin PoolBlock /\ Pool \notin PoolBlock
      /\ Path(PoolBlock, header, list, f) /\ freeCount = Len(f)
      /\ Parted(PoolBlock, <<>>, f, held)
  BY DEF MemPoolAssumption, MpHeap
<1>2. /\ f \in Seq(PoolBlock) /\ Len(f) \in Nat
      /\ f = <<>> <=> Len(f) = 0
      /\ f # <<>> => list \in PoolBlock /\ IsIn(f, list)
  BY <1>1, PathEmpty
<1> QED BY <1>1, <1>2

LEMMA MpKeeps ==
  ASSUME MpMemory, UNCHANGED <<mpPool, held>>
  PROVE  MpMemory'
BY DEF MpMemory, MpHeap, mpPool

LEMMA MpTakes ==
  ASSUME MemPoolAssumption, MpMemory, NEW c \in Thread, freeCount > 0, freeCount' = freeCount - 1,
         list' = header[list], header' = [header EXCEPT ![list] = Pool],
         held' = [held EXCEPT ![c] = @ \cup {list}]
  PROVE  MpMemory' /\ freeCount \in Nat
<1>1. PICK f : MpHeap(f)
  BY DEF MpMemory
<1>2. /\ Null \notin PoolBlock /\ Path(PoolBlock, header, list, f) /\ f # <<>>
      /\ list \in PoolBlock /\ IsFiniteSet(PoolBlock)
      /\ IsIn(f, list) /\ freeCount \in Nat /\ freeCount = Len(f)
      /\ Parted(PoolBlock, <<>>, f, held) /\ f \in Seq(PoolBlock)
  BY <1>1, MpHeapIs
<1> DEFINE r == Rest(f)
<1>3. r = Rest(f)
  OBVIOUS
<1> HIDE DEF r
<1>4. Path(PoolBlock, header, header[list], r) /\ OneLess(f, r, list)
  BY <1>2, <1>3, PathPop
<1>5. \A b \in PoolBlock \ {list} : header'[b] = header[b]
  BY <1>2 DEF MpMemory
<1>6. r \in Seq(PoolBlock)
  BY <1>2, <1>4, PathEmpty
<1>7. \A i \in 1 .. Len(r) : r[i] \in PoolBlock \ {list}
  BY <1>4, <1>6 DEF OneLess, IsIn
<1>8. SameLinks(header, header', r)
  BY <1>5, <1>7 DEF SameLinks
<1>9. Path(PoolBlock, header', list', r)
  BY <1>4, <1>8, PathKept
<1>10. HandTakes(held, held', c, list)
  BY DEF HandTakes, MpMemory
<1>11. Parted(PoolBlock, <<>>, r, held')
  BY <1>2, <1>4, <1>10, PartedTake
<1>12. freeCount' = Len(r)
  BY <1>2, <1>4, <1>6 DEF OneLess
<1>13. MpHeap(r)'
  BY <1>9, <1>11, <1>12 DEF MpHeap
<1>14. /\ header' \in [PoolBlock -> PoolBlock \cup {Null, Pool}]
       /\ held' \in [Thread -> SUBSET PoolBlock] /\ header'[list] = Pool
  BY <1>2 DEF MpMemory
<1>15. \A t \in Thread : \A b \in held'[t] : header'[b] = Pool
  BY <1>2, <1>5, <1>10, <1>14 DEF MpMemory, HandTakes
<1> QED BY <1>2, <1>13, <1>14, <1>15 DEF MpMemory

LEMMA MpGives ==
  ASSUME MemPoolAssumption, MpMemory, NEW c \in Thread, NEW b \in PoolBlock, b \in held[c],
         MpGiveBlock(b), held' = [held EXCEPT ![c] = @ \ {b}]
  PROVE  MpMemory' /\ freeCount \in Nat /\ freeCount' = freeCount + 1
<1>1. PICK f : MpHeap(f)
  BY DEF MpMemory
<1>2. /\ Null \notin PoolBlock /\ Path(PoolBlock, header, list, f) /\ IsFiniteSet(PoolBlock)
      /\ freeCount \in Nat /\ freeCount = Len(f)
      /\ Parted(PoolBlock, <<>>, f, held) /\ f \in Seq(PoolBlock)
  BY <1>1, MpHeapIs
<1>3. freeCount' = freeCount + 1 /\ header' = [header EXCEPT ![b] = list] /\ list' = b
  BY DEF MpGiveBlock
<1>4. ~IsIn(f, b)
  BY <1>2 DEF Parted
<1>5. header'[b] = list /\ \A x \in PoolBlock \ {b} : header'[x] = header[x]
  BY <1>3 DEF MpMemory
<1>6. \A i \in 1 .. Len(f) : f[i] \in PoolBlock \ {b}
  BY <1>2, <1>4 DEF IsIn
<1>7. SameLinks(header, header', f)
  BY <1>5, <1>6 DEF SameLinks
<1> DEFINE r == <<b>> \o f
<1>8. Pushed(f, r, b)
  BY DEF Pushed
<1> HIDE DEF r
<1>9. Path(PoolBlock, header', b, r) /\ OneMore(f, r, b)
  BY <1>2, <1>4, <1>5, <1>7, <1>8, PathPush
<1>10. HandGives(held, held', c, b)
  BY DEF HandGives, MpMemory
<1>11. Parted(PoolBlock, <<>>, r, held')
  BY <1>2, <1>9, <1>10, PartedGive
<1>12. MpHeap(r)'
  BY <1>2, <1>3, <1>9, <1>11 DEF MpHeap, OneMore
<1>13. \A t \in Thread : b \notin held'[t]
  BY <1>2, <1>10 DEF Parted, HandGives
<1>14. list \in PoolBlock \cup {Null}
  BY <1>2, PathEmpty
<1>15. /\ header' \in [PoolBlock -> PoolBlock \cup {Null, Pool}]
       /\ held' \in [Thread -> SUBSET PoolBlock]
  BY <1>3, <1>14 DEF MpMemory
<1>16. \A t \in Thread : \A x \in held'[t] : header'[x] = Pool
  BY <1>5, <1>10, <1>13, <1>15 DEF MpMemory, HandGives
<1> QED BY <1>2, <1>3, <1>12, <1>15, <1>16 DEF MpMemory

-----------------------------------------------------------------------------
(* The count and the match, step by step *)

LEMMA MpPlacesApart == MpPlaces \cap Others(Receivers) = {}
BY DEF MpPlaces, Others, SendPlaces

LEMMA MpCountKept ==
  ASSUME IsFiniteSet(Thread), NEW u, NEW w, NEW p, NEW r, NEW n \in Int, NEW m \in Int, m <= n,
         NEW c, MpCounting(u, p, n, c), Awakens(u, p, w, {}), Remain(p, r, MpPlaces),
         w.armed \subseteq u.armed
  PROVE  MpCounting(w, r, m, c)
<1>1. u.armed = {} /\ c = Cardinality(MpWaiting(u)) /\ Matched(n, u, p, MpPlaces, Receivers)
  BY DEF MpCounting
<1>2. MpWaiting(w) = MpWaiting(u)
  BY MpNobodyLess DEF Awakens
<1>3. Matched(m, w, r, MpPlaces, Receivers)
  BY <1>1, MpPlacesApart, MatchedWakes
<1> QED BY <1>1, <1>2, <1>3 DEF MpCounting

LEMMA MpCountTaken ==
  ASSUME IsFiniteSet(Thread), NEW u, NEW w, NEW p, NEW r, NEW n \in Int, NEW m \in Int, m <= n - 1,
         NEW c, MpCounting(u, p, n, c), Awakens(u, p, w, {}), NEW a, OnlyMoves(p, r, a),
         w.armed \subseteq u.armed
  PROVE  MpCounting(w, r, m, c)
<1>1. u.armed = {} /\ c = Cardinality(MpWaiting(u)) /\ Matched(n, u, p, MpPlaces, Receivers)
  BY DEF MpCounting
<1>2. MpWaiting(w) = MpWaiting(u)
  BY MpNobodyLess DEF Awakens
<1>3. Matched(m, w, r, MpPlaces, Receivers)
  BY <1>1, MpPlacesApart, MatchedWakesTaken
<1> QED BY <1>1, <1>2, <1>3 DEF MpCounting

LEMMA MpCountGiven ==
  ASSUME CallsAssumption, IsFiniteSet(Thread), NEW u, NEW w, NEW p, NEW r,
         NEW n \in Int, NEW m \in Int, m <= n + 1,
         NEW c, MpCounting(u, p, n, c), Waiters(u, Receivers) # <<>>, NEW d, d = c - 1,
         KernelOK(u), Calm(u), Wakes(u, w, First(u, Receivers)), w.err = u.err,
         WaitAt(u, p, MpPlaces, Receivers), Remain(p, r, MpPlaces),
         w.armed \subseteq u.armed
  PROVE  MpCounting(w, r, m, d)
<1>1. u.armed = {} /\ c = Cardinality(MpWaiting(u)) /\ Matched(n, u, p, MpPlaces, Receivers)
  BY DEF MpCounting
<1>2. Cardinality(MpWaiting(w)) = Cardinality(MpWaiting(u)) - 1
  BY MpOneLess
<1>3. Matched(m, w, r, MpPlaces, Receivers)
  BY <1>1, MatchedGiven
<1> QED BY <1>1, <1>2, <1>3 DEF MpCounting

LEMMA MpCountJoins ==
  ASSUME IsFiniteSet(Thread), NEW u, NEW w, NEW p, NEW r, NEW n, NEW m \in Int, m <= 0,
         NEW c, MpCounting(u, p, n, c), NEW d, d = c + 1,
         u.cur \in Thread, Joins(u, w, Receivers), ~Waits(u, Receivers, u.cur),
         w.armed \subseteq u.armed
  PROVE  MpCounting(w, r, m, d)
<1>1. u.armed = {} /\ c = Cardinality(MpWaiting(u))
  BY DEF MpCounting
<1>2. Cardinality(MpWaiting(w)) = Cardinality(MpWaiting(u)) + 1
  BY MpOneMore
<1>3. Matched(m, w, r, MpPlaces, Receivers)
  BY MatchedNothing
<1> QED BY <1>1, <1>2, <1>3 DEF MpCounting

LEMMA MpCountNobody ==
  ASSUME CallsAssumption, IsFiniteSet(Thread), NEW u, KernelOK(u), NEW p, NEW n, NEW m,
         NEW c, MpCounting(u, p, n, c), ~(c > 0)
  PROVE  MpCounting(u, p, m, c)
<1>1. u.armed = {} /\ c = Cardinality(MpWaiting(u))
  BY DEF MpCounting
<1>2. Waiters(u, Receivers) = <<>>
  BY <1>1, MpSomebody
<1>3. Matched(m, u, p, MpPlaces, Receivers)
  BY <1>2, WaitersFacts DEF Matched
<1> QED BY <1>1, <1>3 DEF MpCounting

-----------------------------------------------------------------------------
(* The steps *)

LEMMA MpFacts ==
  ASSUME MemPoolAssumption, MpInv
  PROVE  /\ CallsAssumption /\ Sound(k, pc) /\ Calm(k) /\ k.nest = 0 /\ KernelOK(k)
         /\ DOMAIN pc = Thread /\ pc \in [Thread -> MpPC] /\ Me \in Thread /\ Idle \in Thread
         /\ pc[Idle] \in {"app", "call_sched"} /\ uses \subseteq (Thread \ {Idle}) \X BOOLEAN
         /\ k.err \in [Thread -> Error] /\ k.armed \subseteq Thread
         /\ WaitAt(k, pc, MpPlaces, Receivers)
<1>1. CallsAssumption /\ Sound(k, pc) /\ pc \in [Thread -> MpPC]
  BY DEF MemPoolAssumption, MpInv, MpCalls, MpCallers
<1>2. KernelOK(k) /\ Me \in Thread /\ k.err \in [Thread -> Error] /\ k \in Kernel
  BY <1>1, SoundFacts DEF Me
<1>3. k.armed \subseteq Thread
  BY <1>2 DEF Kernel
<1>4. Idle \in Thread
  BY <1>1, CallFacts
<1>5. WaitAt(k, pc, MpPlaces, Receivers)
  BY <1>1 DEF WaitAt, Sound, RecvPlaces, MpPC, MpPlaces
<1> QED BY <1>1, <1>2, <1>3, <1>4, <1>5 DEF MpInv, MpCalls, MpCallers

LEMMA MpGo ==
  ASSUME MemPoolAssumption, MpInv, NEW b \in MpPC, Go(b), Me = Idle => b \in {"app", "call_sched"}
  PROVE  /\ pc' \in [Thread -> MpPC] /\ pc'[Idle] \in {"app", "call_sched"} /\ pc'[Me] = b
         /\ \A t \in Thread \ {Me} : pc'[t] = pc[t]
<1>1. pc \in [Thread -> MpPC] /\ pc[Idle] \in {"app", "call_sched"} /\ Idle \in Thread /\ Me \in Thread
  BY MpFacts
<1> QED BY <1>1 DEF Go

(* A step that leaves the blocks and the count alone. *)
LEMMA MpQuiet ==
  ASSUME MemPoolAssumption, IsFiniteSet(Thread), MpInv,
         UNCHANGED <<mpPool, suspendCount, held, timed, uses>>,
         Awakens(k, pc, k', {}), k'.armed \subseteq k.armed, Sound(k', pc'),
         Calm(k'),
         Remain(pc, pc', MpPlaces) \/ freeCount = 0 \/ (OnlyMoves(pc, pc', Me) /\ k.err[Me] # "EOK"),
         pc' \in [Thread -> MpPC], pc'[Idle] \in {"app", "call_sched"}
  PROVE  MpInv'
<1>1. MpMemory' /\ MpMemory
  BY MpKeeps DEF MpInv
<1>2. PICK f : MpHeap(f)
  BY <1>1 DEF MpMemory
<1>3. freeCount \in Nat
  BY <1>2, MpHeapIs
<1>4. freeCount' = freeCount /\ suspendCount' = suspendCount /\ timed' = timed /\ uses' = uses
  BY DEF mpPool
<1>5. MpCalls' /\ MpCallers'
  BY <1>4 DEF MpInv, MpCalls, MpCallers, Awakens, Wakes
<1>6. ASSUME MpUntimed PROVE MpCounting(k', pc', freeCount, suspendCount)
  <2>1. MpCounting(k, pc, freeCount, suspendCount)
    BY <1>6 DEF MpInv, MpCounted
  <2>2. CASE Remain(pc, pc', MpPlaces)
    BY <1>3, <2>1, <2>2, MpCountKept
  <2>3. CASE freeCount = 0
    <3>1. MpWaiting(k') = MpWaiting(k)
      BY MpNobodyLess DEF Awakens
    <3>2. Matched(freeCount, k', pc', MpPlaces, Receivers)
      BY <1>3, <2>3, MatchedNothing
    <3> QED BY <2>1, <3>1, <3>2 DEF MpCounting
  <2>4. CASE OnlyMoves(pc, pc', Me) /\ k.err[Me] # "EOK"
    <3>1. Remain(pc, pc, MpPlaces)
      BY DEF Remain
    <3>2. MpCounting(k', pc, freeCount, suspendCount)
      BY <1>3, <2>1, <3>1, MpCountKept
    <3>3. k'.err[Me] # "EOK"
      BY <2>4, MpFacts DEF Awakens
    <3>4. WokenFor(k', pc, MpPlaces, Receivers) \subseteq WokenFor(k', pc', MpPlaces, Receivers)
      BY <2>4, <3>3 DEF WokenFor, OnlyMoves
    <3>5. Matched(freeCount, k', pc', MpPlaces, Receivers)
      BY <1>3, <3>2, <3>4, MatchedKept DEF MpCounting
    <3> QED BY <3>2, <3>5 DEF MpCounting
  <2> QED BY <2>2, <2>3, <2>4
<1>7. MpCounted'
  BY <1>4, <1>6 DEF MpCounted, MpUntimed, MpInv
<1> QED BY <1>1, <1>5, <1>7 DEF MpInv

LEMMA MpTakeStep ==
  ASSUME MemPoolAssumption, IsFiniteSet(Thread), MpInv, pc[Me] \in {"app", "alloc_again"},
         MpTakeBlock, uses' = uses
  PROVE  MpInv'
<1>1. /\ CallsAssumption /\ Sound(k, pc) /\ DOMAIN pc = Thread /\ Me \in Thread /\ KernelOK(k)
  BY MpFacts
<1>2. /\ freeCount > 0 /\ freeCount' = freeCount - 1 /\ Go("app")
      /\ list' = header[list] /\ header' = [header EXCEPT ![list] = Pool]
      /\ held' = [held EXCEPT ![Me] = @ \cup {list}]
      /\ k' = k /\ suspendCount' = suspendCount /\ timed' = timed
  BY DEF MpTakeBlock
<1>3. MpMemory' /\ freeCount \in Nat
  BY <1>1, <1>2, MpTakes DEF MpInv
<1>4. /\ pc' \in [Thread -> MpPC] /\ pc'[Idle] \in {"app", "call_sched"} /\ pc'[Me] = "app"
      /\ \A t \in Thread \ {Me} : pc'[t] = pc[t]
  BY <1>2, MpGo DEF MpPC
<1>5. Sound(k', pc')
  BY <1>1, <1>2, GoStep DEF SchedPlaces
<1>6. MpCalls' /\ MpCallers'
  BY <1>2, <1>4, <1>5 DEF MpInv, MpCalls, MpCallers
<1>7. ASSUME MpUntimed PROVE MpCounting(k', pc', freeCount', suspendCount)
  <2>1. MpCounting(k, pc, freeCount, suspendCount)
    BY <1>7 DEF MpInv, MpCounted
  <2>2. Awakens(k, pc, k', {}) /\ k'.armed \subseteq k.armed
    BY <1>1, <1>2, WakesNobody DEF Awakens
  <2>3. OnlyMoves(pc, pc', Me)
    BY <1>4 DEF OnlyMoves
  <2>4. freeCount' \in Int /\ freeCount \in Int /\ freeCount' <= freeCount - 1
    BY <1>2, <1>3
  <2> QED BY <2>1, <2>2, <2>3, <2>4, MpCountTaken
<1>8. MpCounted'
  BY <1>2, <1>7 DEF MpCounted, MpUntimed, MpInv
<1> QED BY <1>3, <1>6, <1>8 DEF MpInv

LEMMA MpQueueStep ==
  ASSUME MemPoolAssumption, IsFiniteSet(Thread), MpInv, pc[Me] \in {"app", "alloc_again"},
         Me # Idle, NEW late \in BOOLEAN, MpQueue(late), uses' = uses,
         MpUntimed => ~late /\ timed' = {}
  PROVE  MpInv'
<1>1. /\ CallsAssumption /\ Sound(k, pc) /\ DOMAIN pc = Thread /\ Me \in Thread /\ KernelOK(k)
  BY MpFacts
<1>2. /\ freeCount = 0 /\ freeCount' = 0 /\ k' = MpFront(k, late)
      /\ suspendCount' = suspendCount + 1 /\ Go("alloc_sched") /\ UNCHANGED <<mpPool, held>>
  BY DEF MpQueue, MpFront, Me, mpPool
<1>3. MpMemory'
  BY <1>2, MpKeeps DEF MpInv
<1>4. /\ pc' \in [Thread -> MpPC] /\ pc'[Idle] \in {"app", "call_sched"} /\ pc'[Me] = "alloc_sched"
      /\ \A t \in Thread \ {Me} : pc'[t] = pc[t]
  BY <1>2, MpGo DEF MpPC
<1>5. k.stat[Me] = "READY" /\ ~Waits(k, Receivers, Me)
  BY <1>1, SoundReady DEF SchedPlaces, Me
<1>6. /\ Joins(k, k', Receivers)
      /\ k'.err[Me] = "EOK" /\ \A t \in Thread \ {Me} : k'.err[t] = k.err[t]
      /\ ~late => k'.armed = k.armed \ {Me}
  BY <1>1, <1>2, <1>5, JoinsFront DEF Me
<1>7. Sound(k', [pc EXCEPT ![k.cur] = "alloc_sched"])
  <2>1. "alloc_sched" \in SchedPlaces /\ "alloc_sched" \in RecvPlaces
    BY DEF SchedPlaces, RecvPlaces
  <2> QED BY <1>1, <1>5, <1>6, <2>1, SoundJoins DEF Me
<1>8. Sound(k', pc')
  BY <1>2, <1>7 DEF Go, Me
<1>9. Calm(k')
  BY <1>6, CalmJoins DEF MpInv, MpCalls, Me
<1>10. MpCalls' /\ MpCallers'
  BY <1>4, <1>6, <1>8, <1>9 DEF MpInv, MpCalls, MpCallers, Joins
<1>11. ASSUME MpUntimed PROVE MpCounting(k', pc', freeCount', suspendCount')
  <2>1. MpCounting(k, pc, freeCount, suspendCount)
    BY <1>11 DEF MpInv, MpCounted
  <2>2. k'.armed \subseteq k.armed
    BY <1>6, <1>11
  <2>3. freeCount' \in Int /\ freeCount' <= 0
    BY <1>2
  <2> QED BY <1>1, <1>2, <1>5, <1>6, <2>1, <2>2, <2>3, MpCountJoins DEF Me
<1>12. MpCounted'
  BY <1>11 DEF MpCounted, MpUntimed
<1> QED BY <1>3, <1>10, <1>12 DEF MpInv

(* What a free does to the kernel, in a call or in an interrupt handler    *)
MpWakesOne(w) ==
  /\ Wakes(k, w, First(k, Receivers)) /\ w.err = k.err /\ w.armed \subseteq k.armed

LEMMA MpFreeStep ==
  ASSUME MemPoolAssumption, IsFiniteSet(Thread), MpInv, NEW c \in Thread, NEW b \in PoolBlock,
         b \in held[c], MpGiveBlock(b), held' = [held EXCEPT ![c] = @ \ {b}],
         UNCHANGED <<timed, uses>>, Sound(k', pc'), Remain(pc, pc', MpPlaces),
         pc' \in [Thread -> MpPC], pc'[Idle] \in {"app", "call_sched"},
         IF suspendCount > 0
         THEN /\ MpWake
              /\ Waiters(k, Receivers) = <<>> => k' = k
              /\ Waiters(k, Receivers) # <<>> => MpWakesOne(k')
         ELSE k' = k /\ pc' = pc /\ suspendCount' = suspendCount
  PROVE  MpInv'
<1>1. /\ CallsAssumption /\ Sound(k, pc) /\ Calm(k) /\ KernelOK(k) /\ WaitAt(k, pc, MpPlaces, Receivers)
      /\ k.nest = 0
  BY MpFacts
<1>2. MpMemory' /\ freeCount \in Nat /\ freeCount' = freeCount + 1
  BY MpGives DEF MpInv
<1>3. k' = k \/ MpWakesOne(k')
  OBVIOUS
<1>4. Calm(k') /\ k'.nest = 0
  <2>1. CASE k' = k
    BY <1>1, <2>1
  <2>2. CASE MpWakesOne(k')
    BY <1>1, <2>2, CalmWakes DEF MpWakesOne, Wakes
  <2> QED BY <1>3, <2>1, <2>2
<1>5. MpCalls' /\ MpCallers'
  BY <1>4 DEF MpInv, MpCalls, MpCallers
<1>6. freeCount \in Int /\ freeCount' \in Int /\ freeCount' <= freeCount + 1
  BY <1>2
<1>7. ASSUME MpUntimed PROVE MpCounting(k', pc', freeCount', suspendCount')
  <2>1. MpCounting(k, pc, freeCount, suspendCount)
    BY <1>7 DEF MpInv, MpCounted
  <2>2. CASE ~(suspendCount > 0)
    BY <1>1, <2>1, <2>2, MpCountNobody
  <2>3. CASE suspendCount > 0
    <3>1. Waiters(k, Receivers) # <<>>
      BY <1>1, <2>1, <2>3, MpSomebody DEF MpCounting
    <3>2. suspendCount' = suspendCount - 1 /\ MpWakesOne(k')
      BY <2>3, <3>1 DEF MpWake
    <3> QED BY <1>1, <1>6, <2>1, <3>1, <3>2, MpCountGiven DEF MpWakesOne
  <2> QED BY <2>2, <2>3
<1>8. MpCounted'
  BY <1>7 DEF MpCounted, MpUntimed, MpInv
<1> QED BY <1>2, <1>5, <1>8 DEF MpInv

LEMMA MpStep ==
  ASSUME MemPoolAssumption, IsFiniteSet(Thread), MpInv, MpNext
  PROVE  MpInv'
<1>1. /\ CallsAssumption /\ Sound(k, pc) /\ Calm(k) /\ DOMAIN pc = Thread /\ Me \in Thread
      /\ KernelOK(k) /\ k.nest = 0 /\ pc \in [Thread -> MpPC]
      /\ pc[Idle] \in {"app", "call_sched"} /\ uses \subseteq (Thread \ {Idle}) \X BOOLEAN
      /\ Idle \in Thread
  BY MpFacts
<1>2. MpSteps /\ uses' = uses
  BY DEF MpNext
<1>3. CASE MpAllocNow
  BY <1>2, <1>3, MpTakeStep DEF MpAllocNow, At
<1>4. CASE MpAllocFails
  <2>1. /\ freeCount = 0 /\ k' = WithError(k, Me, "ETIMEOUT") /\ pc[Me] = "app"
        /\ UNCHANGED <<pc, mpPool, suspendCount, held, timed>>
    BY <1>4 DEF MpAllocFails, At
  <2>2. ~Waits(k, Receivers, Me) /\ ~Waits(k, Senders, Me)
    BY <1>1, <2>1, SoundReady DEF SchedPlaces, Me
  <2>3. /\ Wakes(k, k', {}) /\ Sound(k', pc) /\ k'.armed = k.armed
        /\ \A t \in Thread \ {Me} : k'.err[t] = k.err[t]
    <3>1. "ETIMEOUT" \in Error
      BY DEF Error
    <3>2. k'.armed = k.armed
      BY <1>1, <2>1, <3>1, SetError
    <3> QED BY <1>1, <2>1, <3>1, <3>2, ErrorStep
  <2>4. Calm(k')
    BY <1>1, <2>2, <2>3 DEF Calm, Wakes
  <2>5. ASSUME MpUntimed PROVE MpCounting(k', pc', freeCount, suspendCount)
    <3>1. MpCounting(k, pc, freeCount, suspendCount)
      BY <2>5 DEF MpInv, MpCounted
    <3>2. MpWaiting(k') = MpWaiting(k)
      BY <2>3, MpNobodyLess
    <3>3. Matched(freeCount, k', pc', MpPlaces, Receivers)
      BY <2>1, MatchedNothing
    <3> QED BY <2>3, <3>1, <3>2, <3>3 DEF MpCounting
  <2>6. MpMemory'
    BY <2>1, MpKeeps DEF MpInv
  <2>7. MpCalls' /\ MpCallers'
    BY <1>2, <2>1, <2>3, <2>4 DEF MpInv, MpCalls, MpCallers, Wakes
  <2>8. MpCounted'
    BY <1>2, <2>1, <2>5 DEF MpCounted, MpUntimed, MpInv, mpPool
  <2> QED BY <2>6, <2>7, <2>8 DEF MpInv
<1>5. CASE MpAllocWait
  <2>1. PICK late \in BOOLEAN : <<Me, late>> \in uses /\ MpQueue(late) /\ Patience(late)
    BY <1>5 DEF MpAllocWait
  <2>2. pc[Me] = "app" /\ Me # Idle
    BY <1>1, <1>5, <2>1 DEF MpAllocWait, At
  <2>3. MpUntimed => ~late /\ timed' = {}
    <3>1. MpUntimed => ~<<Me, late>>[2]
      BY <2>1 DEF MpUntimed
    <3>2. MpUntimed => timed = {}
      BY DEF MpInv, MpCounted
    <3> QED BY <2>1, <3>1, <3>2 DEF Patience
  <2> QED BY <1>2, <2>1, <2>2, <2>3, MpQueueStep
<1>6. CASE MpAllocSchedule
  <2>1. /\ pc[Me] = "alloc_sched" /\ Go("alloc_error") /\ k' = Schedule(k)
        /\ UNCHANGED <<mpPool, suspendCount, held, timed>>
    BY <1>6 DEF MpAllocSchedule, At
  <2>2. /\ Sound(k', pc') /\ Wakes(k, k', {}) /\ k'.err = k.err
    BY <1>1, <2>1, ScheduleStep DEF RecvPlaces, SendPlaces
  <2>3. k'.armed = k.armed
    BY <1>1, <2>1, WakesSchedule
  <2>4. /\ pc' \in [Thread -> MpPC] /\ pc'[Idle] \in {"app", "call_sched"} /\ pc'[Me] = "alloc_error"
        /\ \A t \in Thread \ {Me} : pc'[t] = pc[t]
    BY <1>1, <2>1, MpGo DEF MpPC
  <2>5. Remain(pc, pc', MpPlaces)
    BY <2>4 DEF Remain, MpPlaces
  <2>6. Calm(k') /\ Awakens(k, pc, k', {})
    BY <1>1, <2>2, CalmWakes DEF Awakens
  <2> QED BY <1>2, <2>1, <2>2, <2>3, <2>4, <2>5, <2>6, MpQuiet
<1>7. CASE MpAllocError
  <2> DEFINE b == IF k.err[Me] = "EOK" THEN "alloc_again" ELSE "app"
  <2>1. /\ pc[Me] = "alloc_error" /\ Go(b) /\ k' = k
        /\ UNCHANGED <<mpPool, suspendCount, held, timed>>
    BY <1>7 DEF MpAllocError, At
  <2>2. b \in MpPC /\ Me # Idle /\ pc[Me] \notin SchedPlaces
    BY <1>1, <2>1 DEF MpPC, SchedPlaces
  <2>3. b = "alloc_again" \/ k.err[Me] # "EOK"
    OBVIOUS
  <2> HIDE DEF b
  <2>4. Sound(k', pc')
    BY <1>1, <2>1, <2>2, GoStep
  <2>5. /\ pc' \in [Thread -> MpPC] /\ pc'[Idle] \in {"app", "call_sched"} /\ pc'[Me] = b
        /\ \A t \in Thread \ {Me} : pc'[t] = pc[t]
    BY <2>1, <2>2, MpGo
  <2>6. Remain(pc, pc', MpPlaces) \/ (OnlyMoves(pc, pc', Me) /\ k.err[Me] # "EOK")
    BY <2>3, <2>5 DEF Remain, MpPlaces, OnlyMoves
  <2>7. Calm(k') /\ Awakens(k, pc, k', {})
    BY <1>1, <2>1, WakesNobody DEF Awakens
  <2> QED BY <1>2, <2>1, <2>4, <2>5, <2>6, <2>7, MpQuiet
<1>8. CASE MpAllocAgain
  BY <1>2, <1>8, MpTakeStep DEF MpAllocAgain, At
<1>9. CASE MpAllocWaitAgain
  <2>1. pc[Me] = "alloc_again" /\ MpQueue(Me \in timed) /\ timed' = timed
    BY <1>9 DEF MpAllocWaitAgain, At
  <2>2. Me # Idle
    BY <1>1, <2>1
  <2>3. (Me \in timed) \in BOOLEAN
    OBVIOUS
  <2>4. MpUntimed => ~(Me \in timed) /\ timed' = {}
    BY <2>1 DEF MpInv, MpCounted
  <2>5. pc[Me] \in {"app", "alloc_again"}
    BY <2>1
  <2> HIDE DEF MpQueue
  <2> QED BY <1>2, <2>1, <2>2, <2>3, <2>4, <2>5, MpQueueStep
<1>10. CASE MpAllocTimeUp
  <2>1. /\ pc[Me] = "alloc_again" /\ freeCount = 0 /\ k' = WithError(k, Me, "ETIMEOUT") /\ Go("app")
        /\ Me \in timed /\ UNCHANGED <<mpPool, suspendCount, held, timed>>
    BY <1>10 DEF MpAllocTimeUp, At
  <2>2. ~Waits(k, Receivers, Me) /\ ~Waits(k, Senders, Me) /\ pc[Me] \notin SchedPlaces
    BY <1>1, <2>1, SoundReady DEF SchedPlaces, Me
  <2>3. Sound(k, pc')
    BY <1>1, <2>1, <2>2, GoStep
  <2>4. /\ Wakes(k, k', {}) /\ Sound(k', pc')
        /\ \A t \in Thread \ {Me} : k'.err[t] = k.err[t]
    <3>1. "ETIMEOUT" \in Error
      BY DEF Error
    <3> QED BY <1>1, <2>1, <2>3, <3>1, ErrorStep
  <2>5. Calm(k')
    BY <1>1, <2>2, <2>4 DEF Calm, Wakes
  <2>6. /\ pc' \in [Thread -> MpPC] /\ pc'[Idle] \in {"app", "call_sched"}
    BY <1>1, <2>1, MpGo DEF MpPC
  <2>7. MpMemory'
    BY <2>1, MpKeeps DEF MpInv
  <2>8. MpCalls' /\ MpCallers'
    BY <1>2, <2>1, <2>4, <2>5, <2>6 DEF MpInv, MpCalls, MpCallers, Wakes
  <2>9. MpCounted'
    BY <1>2, <2>1 DEF MpCounted, MpUntimed, MpInv
  <2> QED BY <2>7, <2>8, <2>9 DEF MpInv
<1>11. ASSUME NEW b \in PoolBlock, MpFree(b) PROVE MpInv'
  <2>1. /\ pc[Me] = "app" /\ b \in held[Me] /\ held' = [held EXCEPT ![Me] = @ \ {b}]
        /\ MpGiveBlock(b) /\ timed' = timed
    BY <1>11 DEF MpFree, At
  <2>2. CASE ~(suspendCount > 0)
    <3>1. k' = k /\ pc' = pc /\ suspendCount' = suspendCount
      BY <1>11, <2>2 DEF MpFree
    <3>2. Remain(pc, pc', MpPlaces)
      BY <3>1 DEF Remain
    <3> QED BY <1>1, <1>2, <2>1, <2>2, <3>1, <3>2, MpFreeStep
  <2>3. CASE suspendCount > 0
    <3>1. /\ MpWake /\ Go("call_sched")
          /\ k' = IF Waiters(k, Receivers) = <<>> THEN k ELSE MpResumed
      BY <1>11, <2>3 DEF MpFree
    <3>2. Sound(k, pc')
      BY <1>1, <2>1, <3>1, GoStep DEF SchedPlaces
    <3>3. Waiters(k, Receivers) # <<>> => MpWakesOne(k') /\ Sound(k', pc')
      <4>1. ASSUME Waiters(k, Receivers) # <<>> PROVE k' = MpFirstResumed(k)
        BY <3>1, <4>1 DEF MpResumed, MpFirstResumed
      <4> QED BY <1>1, <3>2, <4>1, WakesFirstCalm DEF MpWakesOne
    <3>4. Waiters(k, Receivers) = <<>> => k' = k
      BY <3>1
    <3>5. Sound(k', pc')
      BY <3>2, <3>3, <3>4
    <3>6. /\ pc' \in [Thread -> MpPC] /\ pc'[Idle] \in {"app", "call_sched"} /\ pc'[Me] = "call_sched"
          /\ \A t \in Thread \ {Me} : pc'[t] = pc[t]
      BY <3>1, MpGo DEF MpPC
    <3>7. Remain(pc, pc', MpPlaces)
      BY <2>1, <3>6 DEF Remain, MpPlaces
    <3> QED BY <1>1, <1>2, <2>1, <2>3, <3>1, <3>3, <3>4, <3>5, <3>6, <3>7, MpFreeStep
  <2> QED BY <2>2, <2>3
<1>12. ASSUME NEW b \in PoolBlock, NEW t \in Thread, MpIsrFree(t, b) PROVE MpInv'
  <2>1. /\ b \in held[t] /\ held' = [held EXCEPT ![t] = @ \ {b}]
        /\ MpGiveBlock(b) /\ timed' = timed /\ pc' = pc
    BY <1>12 DEF MpIsrFree
  <2>1a. Remain(pc, pc', MpPlaces)
    BY <2>1 DEF Remain
  <2>2. CASE ~(suspendCount > 0)
    <3>1. k' = k /\ suspendCount' = suspendCount
      BY <1>12, <2>2 DEF MpIsrFree
    <3> QED BY <1>1, <1>2, <2>1, <2>1a, <2>2, <3>1, MpFreeStep
  <2>3. CASE suspendCount > 0
    <3>1. /\ MpWake
          /\ k' = IF Waiters(k, Receivers) = <<>> THEN k ELSE Schedule(MpResumed)
      BY <1>12, <2>3 DEF MpIsrFree
    <3>2. Waiters(k, Receivers) # <<>> => MpWakesOne(k') /\ Sound(k', pc')
      <4> SUFFICES ASSUME Waiters(k, Receivers) # <<>> PROVE MpWakesOne(k') /\ Sound(k', pc')
        OBVIOUS
      <4>1. PICK v : v = MpFirstResumed(k)
        OBVIOUS
      <4>2. k' = Schedule(v)
        BY <3>1, <4>1 DEF MpResumed, MpFirstResumed
      <4>3. Wakes(k, v, First(k, Receivers)) /\ Sound(v, pc) /\ v.err = k.err /\ v.armed \subseteq k.armed
        BY <1>1, <4>1, WakesFirstCalm
      <4>4. Wakes(v, k', {}) /\ Sound(k', pc) /\ k'.err = v.err /\ k'.armed = v.armed
        BY <1>1, <4>2, <4>3, WakesSchedule
      <4>5. Wakes(k, k', First(k, Receivers) \cup {})
        BY <4>3, <4>4, WakesTwice
      <4>6. First(k, Receivers) \cup {} = First(k, Receivers)
        OBVIOUS
      <4> QED BY <2>1, <4>3, <4>4, <4>5, <4>6 DEF MpWakesOne
    <3>3. Waiters(k, Receivers) = <<>> => k' = k
      BY <3>1
    <3>4. Sound(k', pc')
      BY <1>1, <2>1, <3>2, <3>3
    <3> QED BY <1>1, <1>2, <2>1, <2>1a, <2>3, <3>1, <3>2, <3>3, <3>4, MpFreeStep
  <2> QED BY <2>2, <2>3
<1>13. CASE MpReturn
  <2>1. CallSchedule /\ UNCHANGED <<mpPool, suspendCount, held, timed>>
    BY <1>13 DEF MpReturn
  <2>2. /\ Sound(k', pc') /\ Wakes(k, k', {}) /\ k'.err = k.err
        /\ pc[Me] = "call_sched"
    BY <1>1, <2>1, ReturnStep
  <2>3. k' = Schedule(k) /\ Go("app")
    BY <2>1 DEF CallSchedule
  <2>4. k'.armed = k.armed
    BY <1>1, <2>3, WakesSchedule
  <2>5. /\ pc' \in [Thread -> MpPC] /\ pc'[Idle] \in {"app", "call_sched"} /\ pc'[Me] = "app"
        /\ \A t \in Thread \ {Me} : pc'[t] = pc[t]
    BY <2>3, MpGo DEF MpPC
  <2>6. Remain(pc, pc', MpPlaces)
    BY <2>2, <2>5 DEF Remain, MpPlaces
  <2>7. Calm(k') /\ Awakens(k, pc, k', {})
    BY <1>1, <2>2, CalmWakes DEF Awakens
  <2> QED BY <1>2, <2>1, <2>2, <2>4, <2>5, <2>6, <2>7, MpQuiet
<1>14. CASE MpTick
  <2>1. UNCHANGED <<mpPool, suspendCount, held, timed>> /\ pc' = pc
    BY <1>14 DEF MpTick, TickYield, TickTimeout
  <2>2. CASE TickYield
    <3>1. k' = Yield(k)
      BY <2>2 DEF TickYield
    <3>2. Wakes(k, k', {}) /\ Sound(k', pc) /\ k'.err = k.err /\ k'.armed = k.armed
      BY <1>1, <3>1, WakesYield, YieldProperties
    <3>3. Calm(k') /\ Awakens(k, pc, k', {}) /\ Remain(pc, pc', MpPlaces)
      BY <1>1, <2>1, <3>2, CalmWakes DEF Awakens, Remain
    <3> QED BY <1>1, <1>2, <2>1, <3>2, <3>3, MpQuiet
  <2>3. ASSUME NEW t \in Thread, TickTimeout(t) PROVE MpInv'
    <3>1. t \in k.armed /\ k' = Timeout(k, t)
      BY <2>3 DEF TickTimeout
    <3>2. /\ Wakes(k, k', {t}) /\ Sound(k', pc)
          /\ \A x \in Thread \ {t} : k'.err[x] = k.err[x]
      BY <1>1, <3>1, WakesTimeout
    <3>3. Calm(k')
      BY <1>1, <3>2, CalmWakes
    <3>4. ~MpUntimed
      BY <3>1 DEF MpInv, MpCounted, MpCounting
    <3>5. MpMemory'
      BY <2>1, MpKeeps DEF MpInv
    <3>6. MpCalls' /\ MpCallers'
      BY <1>2, <2>1, <3>2, <3>3 DEF MpInv, MpCalls, MpCallers, Wakes
    <3>7. MpCounted'
      BY <1>2, <3>4 DEF MpCounted, MpUntimed
    <3> QED BY <3>5, <3>6, <3>7 DEF MpInv
  <2> QED BY <1>14, <2>2, <2>3 DEF MpTick
<1> QED BY <1>2, <1>3, <1>4, <1>5, <1>6, <1>7, <1>8, <1>9, <1>10, <1>11, <1>12, <1>13, <1>14 DEF MpSteps

LEMMA MpHolds ==
  ASSUME MemPoolAssumption, MpInv
  PROVE  MpNobodyStranded /\ MpBlocksAccounted
<1>1. CallsAssumption /\ KernelOK(k)
  BY MpFacts
<1>2. MpNobodyStranded
  <2>1. Waiters(k, Receivers) # <<>> => \E t \in Thread : Waits(k, Receivers, t)
    BY <1>1, WaitersFacts
  <2>2. Woken(MpPlaces, Receivers) = WokenFor(k, pc, MpPlaces, Receivers)
    BY WokenIsWokenFor
  <2>3. MpUntimed => Matched(freeCount, k, pc, MpPlaces, Receivers)
    BY DEF MpInv, MpCounted, MpCounting
  <2> QED BY <2>1, <2>2, <2>3 DEF MpNobodyStranded, Matched, MpPlaces
<1>3. PICK f : MpHeap(f)
  BY DEF MpInv, MpMemory
<1>4. /\ IsFiniteSet(PoolBlock) /\ Null \notin PoolBlock
      /\ Path(PoolBlock, header, list, f) /\ f \in Seq(PoolBlock) /\ freeCount = Len(f)
      /\ Parted(PoolBlock, <<>>, f, held)
  BY <1>3, MpHeapIs
<1> DEFINE c == MpChain(list)
<1>5. c = Append(f, Null)
  BY <1>4, ChainPath DEF MpChain
<1>6. c[Len(c)] = Null /\ Len(c) = freeCount + 1
  BY <1>4, <1>5
<1>7. \A b \in PoolBlock : IsIn(c, b) <=> IsIn(f, b)
  BY <1>4, <1>5, InAppend
<1> HIDE DEF c
<1>7a. \A b : ~IsIn(<<>>, b)
  BY DEF IsIn
<1>8. \A b \in PoolBlock : IsIn(c, b) <=> ~\E t \in Thread : b \in held[t]
  BY <1>4, <1>7, <1>7a DEF Parted
<1>9. \A t, u \in Thread : t # u => held[t] \cap held[u] = {}
  BY <1>4 DEF Parted
<1>10. \A t \in Thread, b \in PoolBlock : b \in held[t] => header[b] = Pool
  BY DEF MpInv, MpMemory
<1> QED BY <1>2, <1>6, <1>8, <1>9, <1>10 DEF MpBlocksAccounted, c

LEMMA MpStart ==
  ASSUME MemPoolAssumption, MpInit
  PROVE  MpInv
<1>1. /\ CallsAssumption /\ StartOK(MpBoot) /\ Started(MpBoot)
      /\ IsFiniteSet(PoolBlock) /\ PoolBlock # {} /\ Null \notin PoolBlock
  BY DEF MemPoolAssumption, MpInit
<1>2. /\ Sound(k, pc) /\ Calm(k) /\ k.nest = 0
      /\ \A t \in Thread : pc[t] = "app" /\ ~Waits(k, Receivers, t)
  BY <1>1, StartedSound
<1>3. pc \in [Thread -> MpPC] /\ pc[Idle] = "app"
  BY <1>1, CallFacts DEF Started, MpPC
<1>4. uses \subseteq (Thread \ {Idle}) \X BOOLEAN
  BY DEF MemPoolAssumption, MpInit
<1>5. PICK f : Path(PoolBlock, header, list, f) /\ Len(f) = Cardinality(PoolBlock)
               /\ \A x \in PoolBlock : IsIn(f, x)
  <2>1. LinkedAll(PoolBlock, list, header)
    BY DEF MpInit
  <2> QED BY <1>1, <2>1, PathOfAll
<1>6. \A t \in Thread : held[t] = {}
  BY DEF MpInit
<1>7. Parted(PoolBlock, <<>>, f, held)
  BY <1>5, <1>6 DEF Parted, Apart, IsIn
<1>8. MpHeap(f)
  BY <1>5, <1>7 DEF MpHeap, MpInit, MpSize
<1>9. MpMemory
  BY <1>6, <1>8 DEF MpMemory, MpInit
<1>10. k.armed = {}
  <2> DEFINE u == Booted(MpBoot.prio, MpBoot.lists)
  <2>1. u \in Kernel /\ u.armed = {}
    BY <1>1, CallFacts, BootedIdle DEF StartOK
  <2>2. k = [u EXCEPT !.stat = [t \in Thread |->
                   IF IsIn(MpBoot.lists[MpBoot.prio[t]], t) THEN "READY" ELSE "INIT"]]
    BY <1>1 DEF Started
  <2> HIDE DEF u
  <2> QED BY <2>1, <2>2 DEF Kernel
<1>11. MpWaiting(k) = {}
  BY <1>2 DEF MpWaiting
<1>12. Cardinality(MpWaiting(k)) = 0
  BY <1>11, FS_EmptySet
<1>13. Matched(freeCount, k, pc, MpPlaces, Receivers)
  BY <1>2 DEF Matched
<1>14. MpCounted
  BY <1>10, <1>12, <1>13 DEF MpCounted, MpCounting, MpInit
<1> QED BY <1>2, <1>3, <1>4, <1>9, <1>14 DEF MpInv, MpCalls, MpCallers

-----------------------------------------------------------------------------
(* A step that changes nothing keeps the invariants                        *)

LEMMA MbRestsToo ==
  ASSUME MbInv, UNCHANGED ipcVars
  PROVE  MbInv' /\ MbContents' = MbContents
BY DEF MbInv, ipcVars, ofMailbox, MbCalls, MbTypeOK, Sound, Calm, Matched, MbContents

LEMMA DqRestsToo ==
  ASSUME DqInv, UNCHANGED ipcVars
  PROVE  DqInv' /\ DqContents' = DqContents
BY DEF DqInv, ipcVars, ofDataQueue, DqCalls, DqRingOK, DqCallers, DqNest, DqMarked, DqCount, DqFull, Sound, Calm, Matched, DqContents

LEMMA PipeRestsToo ==
  ASSUME PipeInv, UNCHANGED ipcVars
  PROVE  /\ PipeInv' /\ PipeContents' = PipeContents
         /\ PipeUnstranded(k, ring) => PipeUnstranded(k, ring)'
BY DEF PipeInv, ipcVars, ofPipe, PipeTypeOK, PipeInCall, Sound, PipeContents, PipeUnstranded

LEMMA MqRestsToo ==
  ASSUME MqInv, UNCHANGED ipcVars
  PROVE  MqInv' /\ MqContents' = MqContents
<1>1. MqCalls' /\ MqCallers' /\ MqCells'
  BY DEF MqInv, ipcVars, ofQueue, MqCalls, MqCallers, MqCells, Sound, Calm, Matched
<1>2. MqMemory' /\ MqMarks'
  BY DEF MqInv, ipcVars, ofQueue, MqMemory, MqHeap, MqMarks
<1>3. MqContents' = MqContents
  BY DEF ipcVars, ofQueue, MqContents, MqMessages, MqChain
<1> QED BY <1>1, <1>2, <1>3 DEF MqInv

LEMMA EventRestsToo ==
  ASSUME EventInv, UNCHANGED ipcVars
  PROVE  EventInv'
BY DEF EventInv, ipcVars, ofEvent, EventCalls, EventCallers, EventUnheard, EventHears, Sound, Calm

LEMMA MpRestsToo ==
  ASSUME MpInv, UNCHANGED ipcVars
  PROVE  MpInv'
BY DEF MpInv, ipcVars, ofPool, MpCalls, MpCallers, MpMemory, MpHeap, MpCounted, MpCounting, MpUntimed, Sound, Calm, Matched

LEMMA CompletionRestsToo ==
  ASSUME CompletionInv, UNCHANGED ipcVars
  PROVE  CompletionInv'
BY DEF CompletionInv, ipcVars, ofCompletion, CompletionTypeOK, Sound

-----------------------------------------------------------------------------
(* The objects together *)

LEMMA IpcSteps ==
  ASSUME [IpcNext]_ipcVars
  PROVE  /\ object' = object
         /\ \/ UNCHANGED ipcVars
            \/ object = "mailbox" /\ MbNext
            \/ object = "queue" /\ MqNext
            \/ object = "dataqueue" /\ DqNext
            \/ object = "pipe" /\ PipeNext
            \/ object = "event" /\ EventNext
            \/ object = "mempool" /\ MpNext
            \/ object = "completion" /\ CompletionNext
BY DEF IpcNext, ipcVars, OnMailbox, OnQueue, OnDataQueue, OnPipe, OnEvent, OnPool, OnCompletion

LEMMA IpcBegins ==
  ASSUME IpcInit
  PROVE  /\ object = "mailbox" => MbInit /\ last = <<>>
         /\ object = "queue" => MqInit /\ last = <<>>
         /\ object = "dataqueue" => DqInit /\ last = <<>>
         /\ object = "pipe" => PipeInit /\ last = <<>>
         /\ object = "event" => EventInit
         /\ object = "mempool" => MpInit
         /\ object = "completion" => CompletionInit
         /\ object \in {"mailbox", "queue", "dataqueue", "pipe", "event", "mempool", "completion"}
BY DEF IpcInit, MbInit, MqInit, DqInit, PipeInit

Message == Mail \cup Payload \cup Item \cup Byte

(* An item of the data queue was overrun. *)
Lost == object = "dataqueue" /\ overrun

FifoKept ==
  /\ Lost => Lost'
  /\ ~Lost' => FifoMove(Queued, Queued', Delivered, Delivered', Room, Message, Extras)
  /\ ~Lost /\ Lost' => "overrun" \in Extras /\ Len(Queued) = Room

MbPart == object = "mailbox" => MbInv
MqPart == object = "queue" => MqInv
DqPart == object = "dataqueue" => DqInv
PipePart == object = "pipe" => PipeInv
EventPart == object = "event" => EventInv
MpPart == object = "mempool" => MpInv
CompletionPart == object = "completion" => CompletionInv

LEMMA MbTurn ==
  ASSUME IpcAssumption, IsFiniteSet(Thread), MbPart, [IpcNext]_ipcVars
  PROVE  MbPart' /\ (object = "mailbox" => FifoKept)
<1>1. object' = object
  BY IpcSteps
<1>2. SUFFICES ASSUME object = "mailbox" PROVE MbInv' /\ FifoKept
  BY <1>1 DEF MbPart
<1>3. MbInv /\ MailboxAssumption
  BY <1>2 DEF MbPart, IpcAssumption
<1>4. MbInv' /\ FifoMove(MbContents, MbContents', last, last', MbSize, Mail, {"reset"})
  <2>1. CASE MbNext
    BY <1>3, <2>1, MbStep
  <2>2. CASE UNCHANGED ipcVars
    <3>1. last' = last
      BY <2>2 DEF ipcVars
    <3> QED BY <1>3, <2>2, <3>1, MbRestsToo DEF FifoMove
  <2> QED BY <1>2, <2>1, <2>2, IpcSteps
<1>5. /\ Queued = MbContents /\ Queued' = MbContents' /\ Delivered = last /\ Delivered' = last'
      /\ Room = MbSize /\ Extras = {"reset"} /\ ~Lost /\ ~Lost'
  BY <1>1, <1>2 DEF Queued, Delivered, Room, Extras, Lost
<1> QED BY <1>4, <1>5 DEF FifoKept, FifoMove, Message

LEMMA MqTurn ==
  ASSUME IpcAssumption, IsFiniteSet(Thread), MqPart, [IpcNext]_ipcVars
  PROVE  MqPart' /\ (object = "queue" => FifoKept)
<1>1. object' = object
  BY IpcSteps
<1>2. SUFFICES ASSUME object = "queue" PROVE MqInv' /\ FifoKept
  BY <1>1 DEF MqPart
<1>3. MqInv /\ MessageQueueAssumption
  BY <1>2 DEF MqPart, IpcAssumption
<1>4. MqInv' /\ FifoMove(MqContents, MqContents', last, last', Cardinality(Node), Payload, {"urgent", "reset"})
  <2>1. CASE MqNext
    BY <1>3, <2>1, MqStep
  <2>2. CASE UNCHANGED ipcVars
    <3>1. last' = last
      BY <2>2 DEF ipcVars
    <3> QED BY <1>3, <2>2, <3>1, MqRestsToo DEF FifoMove
  <2> QED BY <1>2, <2>1, <2>2, IpcSteps
<1>5. /\ Queued = MqContents /\ Queued' = MqContents' /\ Delivered = last /\ Delivered' = last'
      /\ Room = Cardinality(Node) /\ Extras = {"urgent", "reset"} /\ ~Lost /\ ~Lost'
  BY <1>1, <1>2 DEF Queued, Delivered, Room, Extras, Lost
<1> QED BY <1>4, <1>5 DEF FifoKept, FifoMove, Message

LEMMA DqTurn ==
  ASSUME IpcAssumption, IsFiniteSet(Thread), OnePusher, SizeFits, DqPart, [IpcNext]_ipcVars
  PROVE  DqPart' /\ (object = "dataqueue" => FifoKept)
<1>1. object' = object
  BY IpcSteps
<1>2. SUFFICES ASSUME object = "dataqueue" PROVE DqInv' /\ FifoKept
  BY <1>1 DEF DqPart
<1>3. DqInv /\ DataQueueAssumption
  BY <1>2 DEF DqPart, IpcAssumption
<1>4. DqInv' /\ DqMove
  <2>1. CASE DqNext
    BY <1>3, <2>1, DqStep
  <2>2. CASE UNCHANGED ipcVars
    <3>1. last' = last /\ overrun' = overrun
      BY <2>2 DEF ipcVars, ofDataQueue
    <3> QED BY <1>3, <2>2, <3>1, DqRestsToo DEF FifoMove, DqMove
  <2> QED BY <1>2, <2>1, <2>2, IpcSteps
<1>5. /\ Queued = DqContents /\ Queued' = DqContents' /\ Delivered = last /\ Delivered' = last'
      /\ Room = DqSize /\ Extras = {"overrun"}
      /\ Lost <=> overrun
      /\ Lost' <=> overrun'
  BY <1>1, <1>2 DEF Queued, Delivered, Room, Extras, Lost
<1>6. ~overrun' => FifoMove(Queued, Queued', Delivered, Delivered', Room, Message, Extras)
  BY <1>4, <1>5 DEF DqMove, FifoMove, Message
<1> QED BY <1>4, <1>5, <1>6 DEF FifoKept, DqMove

LEMMA MpTurn ==
  ASSUME IpcAssumption, IsFiniteSet(Thread), MpPart, [IpcNext]_ipcVars
  PROVE  MpPart'
<1>1. object' = object
  BY IpcSteps
<1>2. SUFFICES ASSUME object = "mempool" PROVE MpInv'
  BY <1>1 DEF MpPart
<1>3. MpInv /\ MemPoolAssumption
  BY <1>2 DEF MpPart, IpcAssumption
<1>4. CASE MpNext
  BY <1>3, <1>4, MpStep
<1>5. CASE UNCHANGED ipcVars
  BY <1>3, <1>5, MpRestsToo
<1> QED BY <1>2, <1>4, <1>5, IpcSteps

LEMMA CompletionTurn ==
  ASSUME IpcAssumption, CompletionPart, [IpcNext]_ipcVars
  PROVE  CompletionPart'
<1>1. object' = object
  BY IpcSteps
<1>2. SUFFICES ASSUME object = "completion" PROVE CompletionInv'
  BY <1>1 DEF CompletionPart
<1>3. CompletionInv /\ CompletionAssumption
  BY <1>2 DEF CompletionPart, IpcAssumption
<1>4. CASE CompletionNext
  BY <1>3, <1>4, CompletionStep
<1>5. CASE UNCHANGED ipcVars
  BY <1>3, <1>5, CompletionRestsToo
<1> QED BY <1>2, <1>4, <1>5, IpcSteps

LEMMA EventInTurn ==
  ASSUME IpcAssumption, EventPart, [IpcNext]_ipcVars
  PROVE  EventPart' /\ (object = "event" => EventClearsOnce \/ UNCHANGED ipcVars)
<1>1. object' = object
  BY IpcSteps
<1>2. SUFFICES ASSUME object = "event" PROVE EventInv' /\ (EventClearsOnce \/ UNCHANGED ipcVars)
  BY <1>1 DEF EventPart
<1>3. EventInv /\ EventAssumption
  BY <1>2 DEF EventPart, IpcAssumption
<1>4. CASE EventNext
  BY <1>3, <1>4, EventStep
<1>5. CASE UNCHANGED ipcVars
  BY <1>3, <1>5, EventRestsToo
<1> QED BY <1>2, <1>4, <1>5, IpcSteps

PipeFree == object = "pipe" => PipeUnstranded(k, ring)

LEMMA PipeTurn ==
  ASSUME IpcAssumption, PipePart, [IpcNext]_ipcVars
  PROVE  /\ PipePart' /\ (PipeSingle /\ PipeFree => PipeFree')
         /\ object = "pipe" => PipeMove(Queued, Queued', Delivered, Delivered')
<1>1. object' = object
  BY IpcSteps
<1>2. SUFFICES ASSUME object = "pipe"
               PROVE  /\ PipeInv' /\ (PipeSingle /\ PipeUnstranded(k, ring) => PipeUnstranded(k', ring'))
                      /\ PipeMove(Queued, Queued', Delivered, Delivered')
  BY <1>1 DEF PipePart, PipeFree, PipeUnstranded
<1>3. PipeInv /\ PipeAssumption
  BY <1>2 DEF PipePart, IpcAssumption
<1>4. /\ PipeInv' /\ (PipeSingle /\ PipeUnstranded(k, ring) => PipeUnstranded(k', ring'))
      /\ PipeMove(PipeContents, PipeContents', last, last')
  <2>1. CASE PipeNext
    BY <1>3, <2>1, PipeStep DEF PipeKept, PipeData
  <2>2. CASE UNCHANGED ipcVars
    <3>1. last' = last /\ k' = k /\ ring' = ring
      BY <2>2 DEF ipcVars, ofPipe
    <3> QED BY <1>3, <2>2, <3>1, PipeRestsToo DEF PipeMove
  <2> QED BY <1>2, <2>1, <2>2, IpcSteps
<1>5. Queued = PipeContents /\ Queued' = PipeContents' /\ Delivered = last /\ Delivered' = last'
  BY <1>1, <1>2 DEF Queued, Delivered
<1> QED BY <1>4, <1>5

-----------------------------------------------------------------------------
(* The first state *)

LEMMA IpcStart ==
  ASSUME IpcAssumption, IpcInit
  PROVE  /\ EventPart /\ MpPart /\ CompletionPart /\ PipePart /\ PipeFree
         /\ IsFiniteSet(Thread) => MbPart /\ MqPart /\ DqPart
<1>1. EventPart /\ MpPart /\ CompletionPart
  BY IpcBegins, EventStart, MpStart, CompletionStart
  DEF IpcAssumption, EventPart, MpPart, CompletionPart
<1>2. PipePart /\ PipeFree
  BY IpcBegins, PipeStart DEF IpcAssumption, PipePart, PipeFree
<1>3. ASSUME IsFiniteSet(Thread) PROVE MbPart /\ MqPart /\ DqPart
  BY <1>3, IpcBegins, MbStart, MqStart, DqStart DEF IpcAssumption, MbPart, MqPart, DqPart
<1> QED BY <1>1, <1>2, <1>3

LEMMA IpcQueuedNothing ==
  ASSUME IpcAssumption, IsFiniteSet(Thread), IpcInit
  PROVE  Queued = <<>> /\ Delivered = <<>>
<1>1. /\ object = "mailbox" => MbContents = <<>> /\ last = <<>>
      /\ object = "queue" => MqContents = <<>> /\ last = <<>>
      /\ object = "dataqueue" => DqContents = <<>> /\ last = <<>>
      /\ object = "pipe" => PipeContents = <<>> /\ last = <<>>
  BY IpcBegins, MbStart, MqStart, DqStart, PipeStart DEF IpcAssumption
<1> QED BY <1>1 DEF Queued, Delivered

-----------------------------------------------------------------------------
(* The steps as steps of the bounded queue *)

(* The move of one item as the actions of the bounded queue say it *)
FifoDone(s, t, d, e, n, V, o) ==
  \/ t = s /\ e = d
  \/ \E a \in [1 .. 1 -> V] : Len(s) + Len(a) <= n /\ t = s \o a /\ e = d
  \/ \E x \in V : "urgent" \in o /\ Len(s) < n /\ t = <<x>> \o s /\ e = d
  \/ 1 <= Len(s) /\ e = SubSeq(s, 1, 1) /\ t = SubSeq(s, 1 + 1, Len(s))
  \/ "reset" \in o /\ t = <<>> /\ e = d

LEMMA FifoMoveMeans ==
  ASSUME NEW V, NEW s \in Seq(V), NEW t, NEW d, NEW e, NEW n \in Nat, NEW o,
         FifoMove(s, t, d, e, n, V, o)
  PROVE  t \in Seq(V) /\ FifoDone(s, t, d, e, n, V, o)
<1>1. CASE t = s /\ e = d
  BY <1>1 DEF FifoDone
<1>2. ASSUME NEW x \in V, Len(s) < n, t = Append(s, x), e = d
      PROVE  t \in Seq(V) /\ FifoDone(s, t, d, e, n, V, o)
  <2>1. <<x>> \in Seq(V) /\ Len(<<x>>) = 1 /\ <<x>> \in [1 .. 1 -> V]
    OBVIOUS
  <2>2. Append(s, x) = s \o <<x>> /\ Append(s, x) \in Seq(V)
    OBVIOUS
  <2>3. Len(s) + 1 <= n
    BY <1>2, LenProperties
  <2> QED BY <1>2, <2>1, <2>2, <2>3 DEF FifoDone
<1>3. ASSUME NEW x \in V, "urgent" \in o, Len(s) < n, t = <<x>> \o s, e = d
      PROVE  t \in Seq(V) /\ FifoDone(s, t, d, e, n, V, o)
  <2>1. <<x>> \in Seq(V)
    OBVIOUS
  <2>2. t \in Seq(V)
    BY <1>3, <2>1, ConcatProperties
  <2>3. FifoDone(s, t, d, e, n, V, o)
    BY <1>3 DEF FifoDone
  <2> QED BY <2>2, <2>3
<1>4. CASE Len(s) > 0 /\ e = <<s[1]>> /\ t = SubSeq(s, 2, Len(s))
  <2>1. Len(s) \in Nat /\ 1 <= Len(s)
    BY <1>4, LenProperties
  <2>2. SubSeq(s, 1, 1) = <<s[1]>>
    <3> DEFINE w == SubSeq(s, 1, 1)
    <3>1. w \in Seq(V) /\ Len(w) = 1 /\ w[1] = s[1]
      BY <2>1, SubSeqProperties
    <3>2. s[1] \in V
      BY <2>1, ElementOfSeq
    <3>3. <<s[1]>> \in Seq(V) /\ Len(<<s[1]>>) = 1 /\ <<s[1]>>[1] = s[1]
      BY <3>2
    <3> HIDE DEF w
    <3>4. w = <<s[1]>>
      BY <3>1, <3>3, SeqEqual
    <3> QED BY <3>4 DEF w
  <2>3. SubSeq(s, 2, Len(s)) \in Seq(V)
    BY <2>1, SubSeqProperties
  <2> QED BY <1>4, <2>1, <2>2, <2>3 DEF FifoDone
<1>5. CASE "reset" \in o /\ t = <<>> /\ e = d
  BY <1>5 DEF FifoDone
<1> QED BY <1>1, <1>2, <1>3, <1>4, <1>5 DEF FifoMove

LEMMA PipeMoveMeans ==
  ASSUME NEW s \in Seq(Byte), NEW t, NEW d, NEW e, MaxRequest \in Nat, PipeMove(s, t, d, e)
  PROVE  t \in Seq(Byte)
<1>1. ASSUME NEW n \in 1 .. MaxRequest, n <= Len(s), t = SubSeq(s, n + 1, Len(s))
      PROVE  t \in Seq(Byte)
  BY <1>1, SubSeqProperties, LenProperties
<1>2. ASSUME NEW n \in 1 .. MaxRequest, NEW a \in [1 .. n -> Byte], t = s \o a
      PROVE  t \in Seq(Byte)
  <2>1. a \in Seq(Byte)
    BY n \in Nat, SeqDef
  <2> QED BY <1>2, <2>1
<1> QED BY <1>1, <1>2 DEF PipeMove

(* One item at a time for the queues; a pipe moves up to a whole request.  *)
LEMMA FifoSteps ==
  ASSUME IpcAssumption, IsFiniteSet(Thread), ~Lost => Queued \in Seq(Message),
         object' = object,
         object \in {"mailbox", "queue", "dataqueue"} => FifoKept,
         object = "pipe" => Queued \in Seq(Byte) /\ PipeMove(Queued, Queued', Delivered, Delivered')
  PROVE  [Fifo!FifoNext]_Fifo!fifoVars /\ (~Lost' => Queued' \in Seq(Message))
<1> DEFINE lost == object = "dataqueue" /\ overrun
<1>0. /\ lost \in BOOLEAN /\ lost' \in BOOLEAN
      /\ Lost <=> lost = TRUE
      /\ Lost' <=> lost' = TRUE
  BY DEF Lost
<1>1. CASE object \in {"mailbox", "queue", "dataqueue"}
  <2>1. FifoKept
    BY <1>1
  <2>2. Room \in Nat
    BY <1>1, FS_CardinalityType
    DEF Room, IpcAssumption, MailboxAssumption, MessageQueueAssumption, DataQueueAssumption
  <2>3. CASE ~Lost'
    <3>1. ~Lost /\ FifoMove(Queued, Queued', Delivered, Delivered', Room, Message, Extras)
      BY <2>1, <2>3 DEF FifoKept
    <3>2. /\ Queued' \in Seq(Message)
          /\ FifoDone(Queued, Queued', Delivered, Delivered', Room, Message, Extras)
      BY <2>2, <3>1, FifoMoveMeans
    <3>3. 1 \in 1 .. (IF object = "pipe" THEN MaxRequest ELSE 1)
      BY <1>1
    <3>4. lost = FALSE /\ lost' = FALSE
      BY <1>0, <2>3, <3>1
    <3> HIDE DEF lost
    <3>5. [Fifo!FifoNext]_Fifo!fifoVars
      <4>1. CASE Queued' = Queued /\ Delivered' = Delivered
        BY <3>4, <4>1 DEF Fifo!fifoVars, lost
      <4>2. CASE ~(Queued' = Queued /\ Delivered' = Delivered)
        <5>1. \/ \E n \in 1 .. (IF object = "pipe" THEN MaxRequest ELSE 1) :
                   Fifo!Get(n) \/ \E s \in [1 .. n -> Message] : Fifo!Put(s)
              \/ \E x \in Message : Fifo!PutUrgent(x)
              \/ Fifo!Reset
          BY <3>2, <3>3, <4>2 DEF FifoDone, Fifo!Put, Fifo!PutUrgent, Fifo!Get, Fifo!Reset, Message
        <5> QED BY <3>4, <5>1 DEF Fifo!FifoNext, Message, lost
      <4> QED BY <4>1, <4>2
    <3> QED BY <3>2, <3>5
  <2>4. CASE Lost'
    <3>1. lost' = TRUE /\ (lost \/ Fifo!Overrun)
      BY <1>0, <2>1, <2>4 DEF FifoKept, Fifo!Overrun
    <3>2. Fifo!FifoNext
      BY <3>1 DEF Fifo!FifoNext
    <3> QED BY <2>4, <3>2
  <2> QED BY <2>3, <2>4
<1>2. CASE object = "pipe"
  <2>1. MaxRequest \in Nat /\ Room = Size
    BY <1>2 DEF Room, IpcAssumption, PipeAssumption
  <2>2. PipeMove(Queued, Queued', Delivered, Delivered') /\ Queued \in Seq(Byte)
    BY <1>2
  <2>3. Queued' \in Seq(Message)
    <3>1. Queued' \in Seq(Byte)
      BY <2>1, <2>2, PipeMoveMeans
    <3>2. Byte \subseteq Message
      BY DEF Message
    <3> QED BY <3>1, <3>2, SeqMonotonic
  <2>4. 1 .. MaxRequest = 1 .. (IF object = "pipe" THEN MaxRequest ELSE 1)
    BY <1>2
  <2>5. \A n \in 1 .. MaxRequest : [1 .. n -> Byte] \subseteq [1 .. n -> Message]
    BY DEF Message
  <2>6. lost = FALSE /\ lost' = FALSE
    BY <1>2
  <2> HIDE DEF lost
  <2>7. [Fifo!FifoNext]_Fifo!fifoVars
    <3>1. CASE Queued' = Queued /\ Delivered' = Delivered
      BY <2>6, <3>1 DEF Fifo!fifoVars, lost
    <3>2. CASE ~(Queued' = Queued /\ Delivered' = Delivered)
      <4>1. \E n \in 1 .. (IF object = "pipe" THEN MaxRequest ELSE 1) :
              Fifo!Get(n) \/ \E s \in [1 .. n -> Message] : Fifo!Put(s)
        BY <2>1, <2>2, <2>4, <2>5, <3>2 DEF PipeMove, Fifo!Put, Fifo!Get
      <4> QED BY <2>6, <4>1 DEF Fifo!FifoNext, Message, lost
    <3> QED BY <3>1, <3>2
  <2> QED BY <2>3, <2>7
<1>3. CASE object \notin {"mailbox", "queue", "dataqueue", "pipe"}
  <2>1. Queued = <<>> /\ Queued' = <<>> /\ Delivered = <<>> /\ Delivered' = <<>>
    BY <1>3 DEF Queued, Delivered
  <2>2. lost = FALSE /\ lost' = FALSE
    BY <1>3
  <2> HIDE DEF lost
  <2>3. Queued' \in Seq(Message)
    BY <2>1
  <2> QED BY <2>1, <2>2, <2>3 DEF Fifo!fifoVars, lost
<1> QED BY <1>1, <1>2, <1>3

-----------------------------------------------------------------------------
(* The theorems *)

(* What is invariant whichever object is used *)
IpcKind ==
  object \in {"mailbox", "queue", "dataqueue", "pipe", "event", "mempool", "completion"}

IpcInv ==
  /\ IpcKind
  /\ MbPart /\ MqPart /\ DqPart /\ PipePart /\ EventPart /\ MpPart /\ CompletionPart

LEMMA IpcHolds ==
  ASSUME IpcAssumption, IsFiniteSet(Thread), OnePusher, SizeFits
  PROVE  IpcSpec => []IpcInv
<1>1. IpcInit => IpcInv
  BY IpcStart, IpcBegins DEF IpcInv, IpcKind
<1>2. IpcInv /\ [IpcNext]_ipcVars => IpcInv'
  <2> SUFFICES ASSUME IpcInv, [IpcNext]_ipcVars PROVE IpcInv'
    OBVIOUS
  <2>1. IpcKind'
    BY IpcSteps DEF IpcInv, IpcKind
  <2>2. MbPart' /\ MqPart' /\ DqPart'
    BY MbTurn, MqTurn, DqTurn DEF IpcInv
  <2>3. PipePart' /\ EventPart' /\ MpPart' /\ CompletionPart'
    BY PipeTurn, EventInTurn, MpTurn, CompletionTurn DEF IpcInv
  <2> QED BY <2>1, <2>2, <2>3 DEF IpcInv
<1> QED BY <1>1, <1>2, PTL DEF IpcSpec

(* No wake-up is lost in any of the objects, whatever the threads, their   *)
(* priorities and the sizes: who waits, waits for what is not there.  The  *)
(* data queue has one pusher, a size its mask fits (a power of two) and,   *)
(* for the pusher, no item overrun; the pipe has one reader and one        *)
(* writer, as their waits are written for (dataqueue.c:79-129,             *)
(* pipe.c:53-67).                                                          *)
THEOREM NobodyIsStranded ==
  ASSUME IpcAssumption, IsFiniteSet(Thread), OnePusher, SizeFits, PipeSingle
  PROVE  IpcSpec => []NobodyStranded
<1>1. IpcSpec => []IpcInv
  BY IpcHolds
<1>2. IpcInit => PipeFree
  BY IpcStart
<1>3. IpcInv /\ PipeFree /\ [IpcNext]_ipcVars => PipeFree'
  BY PipeTurn DEF IpcInv
<1>4. IpcInv /\ PipeFree => NobodyStranded
  <2> SUFFICES ASSUME IpcInv, PipeFree PROVE NobodyStranded
    OBVIOUS
  <2>1. object = "mailbox" => MbNobodyStranded
    BY MbHolds DEF IpcInv, MbPart, IpcAssumption
  <2>2. object = "queue" => MqNobodyStranded
    BY MqHolds DEF IpcInv, MqPart, IpcAssumption
  <2>3. object = "dataqueue" => DqNobodyStranded
    BY DqHolds DEF IpcInv, DqPart, IpcAssumption
  <2>4. object = "pipe" => PipeNobodyStranded
    BY PipeStrandedMeans DEF IpcInv, PipePart, PipeFree, IpcAssumption
  <2>5. object = "event" => EventNoSatisfiedWaiter
    BY EventHolds DEF IpcInv, EventPart, IpcAssumption
  <2>6. object = "mempool" => MpNobodyStranded
    BY MpHolds DEF IpcInv, MpPart, IpcAssumption
  <2>7. object = "completion" => CompletionNobodyStranded
    BY CompletionHolds DEF IpcInv, CompletionPart, IpcAssumption
  <2>8. IpcKind
    BY DEF IpcInv
  <2>9. CASE object = "mailbox"
    BY <2>1, <2>9, SMT DEF NobodyStranded
  <2>10. CASE object = "queue"
    BY <2>2, <2>10, SMT DEF NobodyStranded
  <2>11. CASE object = "dataqueue"
    BY <2>3, <2>11, SMT DEF NobodyStranded
  <2>12. CASE object = "pipe"
    BY <2>4, <2>12, SMT DEF NobodyStranded
  <2>13. CASE object = "event"
    BY <2>5, <2>13, SMT DEF NobodyStranded
  <2>14. CASE object = "mempool"
    BY <2>6, <2>14, SMT DEF NobodyStranded
  <2>15. CASE object = "completion"
    BY <2>7, <2>15, SMT DEF NobodyStranded
  <2> QED BY <2>8, <2>9, <2>10, <2>11, <2>12, <2>13, <2>14, <2>15 DEF IpcKind
<1> QED BY <1>1, <1>2, <1>3, <1>4, PTL DEF IpcSpec

(* Whatever calls, time-outs and interrupt handlers interleave, the ready  *)
(* lists, the wait lists, the armed timers and the states of the threads   *)
(* agree: a call that returns or is woken has left no list halfway         *)
(* (ipc.c:61-196, scheduler.c:221-379, thread.c:563-735).                  *)
THEOREM ListsOfKernelAgree ==
  ASSUME IpcAssumption, IsFiniteSet(Thread), OnePusher, SizeFits
  PROVE  IpcSpec => []KernelOK(k)
<1>1. IpcSpec => []IpcInv
  BY IpcHolds
<1>2. IpcInv => KernelOK(k)
  <2> SUFFICES ASSUME IpcInv PROVE KernelOK(k)
    OBVIOUS
  <2>1. IpcKind /\ MbPart /\ MqPart /\ DqPart /\ PipePart /\ EventPart /\ MpPart /\ CompletionPart
    BY DEF IpcInv
  <2>2. CASE object = "mailbox"
    BY <2>1, <2>2, MbFacts DEF MbPart, IpcAssumption
  <2>3. CASE object = "queue"
    BY <2>1, <2>3, MqFacts DEF MqPart, IpcAssumption
  <2>4. CASE object = "dataqueue"
    BY <2>1, <2>4, DqFacts DEF DqPart, IpcAssumption
  <2>5. CASE object = "pipe"
    BY <2>1, <2>5, PipeFacts DEF PipePart, IpcAssumption
  <2>6. CASE object = "event"
    BY <2>1, <2>6, EventFacts DEF EventPart, IpcAssumption
  <2>7. CASE object = "mempool"
    BY <2>1, <2>7, MpFacts DEF MpPart, IpcAssumption
  <2>8. CASE object = "completion"
    BY <2>1, <2>8, CompletionFacts DEF CompletionPart, IpcAssumption
  <2> QED BY <2>1, <2>2, <2>3, <2>4, <2>5, <2>6, <2>7, <2>8 DEF IpcKind
<1> QED BY <1>1, <1>2, PTL

(* Every message of a queue is in one place, and the list of the waiting   *)
(* ones is well formed; every block of a pool is free or one thread's      *)
(* (ipc.c:1943-1980, 2190-2213, mempool.c:387-401, 430-436).               *)
THEOREM MemoryIsAccounted ==
  ASSUME IpcAssumption, IsFiniteSet(Thread)
  PROVE  IpcSpec => []MemoryAccounted
<1>1. IpcInit => MqPart /\ MpPart
  BY IpcStart
<1>2. MqPart /\ MpPart /\ [IpcNext]_ipcVars => MqPart' /\ MpPart'
  BY MqTurn, MpTurn
<1>3. MqPart /\ MpPart => MemoryAccounted
  BY MqHolds, MpHolds DEF MqPart, MpPart, MemoryAccounted, IpcAssumption
<1> QED BY <1>1, <1>2, <1>3, PTL DEF IpcSpec

(* rt_mq_recv returns the message that lay first when it took it: nobody   *)
(* writes into the message between the two times interrupts are disabled   *)
(* (ipc.c:2203-2213).                                                      *)
THEOREM CopiesAreIntact ==
  ASSUME IpcAssumption, IsFiniteSet(Thread)
  PROVE  IpcSpec => []CopiedIntact
<1>1. IpcInit => MqPart
  BY IpcStart
<1>2. MqPart /\ [IpcNext]_ipcVars => MqPart'
  BY MqTurn
<1>3. MqPart => CopiedIntact
  BY MqHolds DEF MqPart, CopiedIntact, IpcAssumption
<1> QED BY <1>1, <1>2, <1>3, PTL DEF IpcSpec

(* A wait for bits returns bits that were asked for, a wait for a          *)
(* completion returns after a signal (ipc.c:1028-1056, completion.c:52).   *)
THEOREM RequestsAreAnswered ==
  ASSUME IpcAssumption
  PROVE  IpcSpec => []AnswersRequest
<1>1. IpcInit => EventPart /\ CompletionPart
  BY IpcStart
<1>2. EventPart /\ CompletionPart /\ [IpcNext]_ipcVars => EventPart' /\ CompletionPart'
  BY EventInTurn, CompletionTurn
<1>3. EventPart /\ CompletionPart => AnswersRequest
  BY EventHolds, CompletionHolds DEF EventPart, CompletionPart, AnswersRequest, IpcAssumption
<1> QED BY <1>1, <1>2, <1>3, PTL DEF IpcSpec

(* A bit is cleared once: two receivers that clear it never both get it    *)
(* from one send (ipc.c:1050-1066).                                        *)
THEOREM BitsAreClearedOnce ==
  ASSUME IpcAssumption
  PROVE  IpcSpec => ClearedOnce
<1>1. IpcInit => EventPart
  BY IpcStart
<1>2. EventPart /\ [IpcNext]_ipcVars => EventPart'
  BY EventInTurn
<1>3. EventPart /\ [IpcNext]_ipcVars => [object = "event" => EventClearsOnce]_ipcVars
  BY EventInTurn
<1> QED BY <1>1, <1>2, <1>3, PTL DEF IpcSpec, ClearedOnce

(* The mailbox, the message queue, the data queue and the pipe are bounded *)
(* queues: what is sent is delivered once and in order, and they never     *)
(* hold more than their size (ipc.c:1437-1668, 1914-2219, dataqueue.c:50,  *)
(* pipe.c:33, ringbuffer.c).  The data queue is one, across the wrap of    *)
(* its indices, if its size is a power of two and until a push meets it    *)
(* full while its test for room fails (dataqueue.c:82); that push, and     *)
(* nothing else, ends the promise.                                         *)
THEOREM DeliversInOrder ==
  ASSUME IpcAssumption, IsFiniteSet(Thread), OnePusher, SizeFits
  PROVE  IpcSpec => ImplementsFifo
<1> DEFINE Sent == (~Lost => Queued \in Seq(Message)) /\ (object = "pipe" => Queued \in Seq(Byte))
<1>1. IpcSpec => []IpcInv
  BY IpcHolds
<1>2. IpcInit => Fifo!FifoInit /\ Sent
  <2> SUFFICES ASSUME IpcInit PROVE Fifo!FifoInit /\ Sent
    OBVIOUS
  <2>1. Queued = <<>> /\ Delivered = <<>>
    BY IpcQueuedNothing
  <2>2. (object = "dataqueue" /\ overrun) = FALSE
    BY IpcBegins DEF DqInit
  <2> QED BY <2>1, <2>2, EmptySeq DEF Fifo!FifoInit
<1>3. IpcInv /\ Sent /\ [IpcNext]_ipcVars => Sent' /\ [Fifo!FifoNext]_Fifo!fifoVars
  <2> SUFFICES ASSUME IpcInv, Sent, [IpcNext]_ipcVars
               PROVE  Sent' /\ [Fifo!FifoNext]_Fifo!fifoVars
    OBVIOUS
  <2>1. object' = object
    BY IpcSteps
  <2>2. object \in {"mailbox", "queue", "dataqueue"} => FifoKept
    BY MbTurn, MqTurn, DqTurn DEF IpcInv
  <2>3. object = "pipe" => PipeMove(Queued, Queued', Delivered, Delivered')
    BY PipeTurn DEF IpcInv
  <2>4. [Fifo!FifoNext]_Fifo!fifoVars /\ (~Lost' => Queued' \in Seq(Message))
    BY <2>1, <2>2, <2>3, FifoSteps
  <2>5. object = "pipe" => Queued' \in Seq(Byte)
    <3> SUFFICES ASSUME object = "pipe" PROVE Queued' \in Seq(Byte)
      OBVIOUS
    <3>1. Queued \in Seq(Byte) /\ PipeMove(Queued, Queued', Delivered, Delivered')
      BY <2>3
    <3>2. MaxRequest \in Nat
      BY DEF IpcAssumption, PipeAssumption
    <3> QED BY <3>1, <3>2, PipeMoveMeans
  <2> QED BY <2>1, <2>4, <2>5
<1> QED BY <1>1, <1>2, <1>3, PTL DEF IpcSpec, ImplementsFifo, Fifo!FifoSpec
=============================================================================
