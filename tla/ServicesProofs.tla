---------------------------- MODULE ServicesProofs ----------------------------
(***************************************************************************)
(* The heap, for every size of it, of its headers and of the requests, and *)
(* every number of callers: the blocks tile it, free blocks are merged,    *)
(* and the used ones are those the callers hold, of which used_mem is the  *)
(* size.  A block is split and two blocks are joined in one place each     *)
(* (Split, Join); what they do to the chain of headers is shown once, for  *)
(* any headers, and the operations are put together from them.             *)
(*                                                                         *)
(* The timers, for every set of timers, of calls and of timeout functions, *)
(* under the hypotheses Timers names (InReach, OneStarter; SoftInThreads,  *)
(* StopsOnlyOwn): both lists stay sorted, the check of the tick leaves no  *)
(* timer behind whose time has come, the timer thread is never late for a  *)
(* soft timer, and only started timers expire.  What a call does to the    *)
(* lists is shown for any memory (Moves), and each step of a thread or of  *)
(* an interrupt handler is put together from that.                         *)
(***************************************************************************)
EXTENDS Heap, Timers, KernelProofs

Typed(m) ==
  /\ DOMAIN m \subseteq Address /\ {0, End} \subseteq DOMAIN m
  /\ m \in [DOMAIN m -> LinkType]

LEMMA SizeFacts ==
  ASSUME HeapAssumption
  PROVE  /\ MemSize \in Nat /\ Header \in Nat \ {0} /\ MinSize \in Nat
         /\ End \in Nat /\ End = MemSize + Header /\ 0 < End /\ NoBlock = End
         /\ Address \subseteq Nat /\ 0 \in Address /\ End \in Address
         /\ \A a \in Address : a <= End
BY DEF HeapAssumption, End, NoBlock, Address

(* A header of a well-formed chain: its fields, and the block behind it.   *)
LEMMA HeadFacts ==
  ASSUME HeapAssumption, NEW m, Typed(m), Tiled(m), NEW a \in Blocks(m)
  PROVE  /\ a \in DOMAIN m /\ a \in Address /\ a \in Nat /\ a # End /\ a < End
         /\ m[a] \in LinkType /\ m[a].used \in BOOLEAN
         /\ m[a].next \in DOMAIN m /\ m[a].next \in Address /\ m[a].next \in Nat
         /\ a + Header <= m[a].next /\ a < m[a].next /\ m[a].next # 0
         /\ m[a].prev \in Address
<1>1. a \in DOMAIN m /\ a \in Address /\ a # End
  BY DEF Blocks, Typed
<1>2. m[a] \in LinkType
  BY <1>1 DEF Typed
<1>3. m[a].next \in DOMAIN m /\ a + Header <= m[a].next
  BY DEF Tiled
<1>4. m[a].next \in Address /\ m[a].prev \in Address /\ m[a].used \in BOOLEAN
  BY <1>2 DEF LinkType
<1>5. a \in Nat /\ m[a].next \in Nat /\ a <= End /\ Header \in Nat \ {0} /\ End \in Nat
  BY <1>1, <1>4, SizeFacts
<1> QED BY <1>1, <1>2, <1>3, <1>4, <1>5

LEMMA RoomIsNat ==
  ASSUME HeapAssumption, NEW m, Typed(m), Tiled(m), NEW a \in Blocks(m)
  PROVE  Room(m, a) \in Nat /\ m[a].next = a + Header + Room(m, a)
<1>1. a \in Nat /\ Header \in Nat /\ m[a].next \in Nat /\ a + Header <= m[a].next
  BY HeadFacts, SizeFacts
<1> QED BY <1>1 DEF Room

(* No header lies in a block; so two blocks have different next ones.      *)
LEMMA Apart ==
  ASSUME HeapAssumption, NEW m, Typed(m), Tiled(m), NEW a \in Blocks(m), NEW b \in DOMAIN m
  PROVE  b <= a \/ m[a].next <= b
BY DEF Tiled

LEMMA NextIsOneToOne ==
  ASSUME HeapAssumption, NEW m, Typed(m), Tiled(m),
         NEW a \in Blocks(m), NEW b \in Blocks(m), a # b
  PROVE  m[a].next # m[b].next
<1>1. /\ a \in DOMAIN m /\ b \in DOMAIN m /\ a \in Nat /\ b \in Nat
      /\ m[a].next \in Nat /\ m[b].next \in Nat /\ a < m[a].next /\ b < m[b].next
  BY HeadFacts
<1>2. (b <= a \/ m[a].next <= b) /\ (a <= b \/ m[b].next <= a)
  BY <1>1, Apart
<1> QED BY <1>1, <1>2

(* The block before a block: prev leads to it. *)
LEMMA PrevLeadsBack ==
  ASSUME HeapAssumption, NEW m, Typed(m), Tiled(m), NEW a \in Blocks(m)
  PROVE  /\ a = 0 => m[a].prev = a
         /\ a # 0 => /\ m[a].prev \in Blocks(m) /\ m[a].prev # a
                     /\ m[m[a].prev].next = a
<1>1. CASE a = 0
  BY <1>1, SizeFacts DEF Tiled
<1>2. CASE a # 0
  <2> DEFINE S == {a - x : x \in {y \in DOMAIN m : y < a}}
  <2>1. DOMAIN m \subseteq Nat /\ a \in Nat /\ a < End /\ a # End /\ a \in DOMAIN m
    BY HeadFacts, SizeFacts DEF Typed
  <2>2. S \in SUBSET Nat
    BY <2>1
  <2>3. 0 \in DOMAIN m /\ 0 < a
    BY <1>2, <2>1 DEF Typed
  <2>4. S # {}
    BY <2>3
  <2>5. PICK s \in S : \A y \in S : s <= y
    BY <2>2, <2>4, LeastElementExists
  <2>6. PICK p \in DOMAIN m : p < a /\ s = a - p
    BY <2>5
  <2>7. \A x \in DOMAIN m : x < a => x <= p
    <3> SUFFICES ASSUME NEW x \in DOMAIN m, x < a PROVE x <= p
      OBVIOUS
    <3>1. a - x \in S /\ x \in Nat /\ p \in Nat
      BY <2>1
    <3>2. s <= a - x
      BY <2>5, <3>1
    <3> QED BY <2>1, <2>6, <3>1, <3>2
  <2>8. p \in Blocks(m) /\ p # a
    BY <2>1, <2>6 DEF Blocks
  <2>9. m[p].next \in DOMAIN m /\ m[p].next \in Nat /\ p < m[p].next /\ p \in Nat
    BY <2>8, HeadFacts
  <2>10. a <= p \/ m[p].next <= a
    BY <2>1, <2>8, Apart
  <2>11. m[p].next = a
    BY <2>1, <2>6, <2>7, <2>9, <2>10
  <2>12. m[a].prev = p
    BY <2>1, <2>8, <2>11 DEF Tiled
  <2> QED BY <1>2, <2>8, <2>11, <2>12
<1> QED BY <1>1, <1>2

(* What SetPrev, Added and Dropped do, header by header. *)
LEMMA SetPrevIs ==
  ASSUME NEW m, Typed(m), NEW a \in DOMAIN m, NEW p \in Address
  PROVE  /\ DOMAIN SetPrev(m, a, p) = DOMAIN m /\ Typed(SetPrev(m, a, p))
         /\ \A x \in DOMAIN m :
              /\ SetPrev(m, a, p)[x].next = m[x].next
              /\ SetPrev(m, a, p)[x].used = m[x].used
              /\ SetPrev(m, a, p)[x].prev = IF x = a /\ a # End THEN p ELSE m[x].prev
<1>1. CASE a = End
  BY <1>1 DEF SetPrev
<1>2. CASE a # End
  <2>1. SetPrev(m, a, p) = [m EXCEPT ![a].prev = p]
    BY <1>2 DEF SetPrev
  <2>2. \A x \in DOMAIN m : m[x] \in LinkType
    BY DEF Typed
  <2> QED BY <1>2, <2>1, <2>2 DEF Typed, LinkType
<1> QED BY <1>1, <1>2

LEMMA JoinIs ==
  ASSUME HeapAssumption, NEW m, Typed(m), Tiled(m), NEW a \in Blocks(m), NEW b \in Blocks(m),
         m[a].next = b
  PROVE  LET j == Join(m, a, b)
             c == m[b].next
         IN  /\ DOMAIN j = DOMAIN m \ {b} /\ Typed(j) /\ Blocks(j) = Blocks(m) \ {b}
             /\ \A x \in DOMAIN m \ {b} :
                  /\ j[x].used = m[x].used
                  /\ j[x].next = IF x = a THEN c ELSE m[x].next
                  /\ j[x].prev = IF x = c /\ c # End THEN a ELSE m[x].prev
<1> DEFINE c == m[b].next  q == [m EXCEPT ![a].next = c]  r == SetPrev(q, c, a)  j == Join(m, a, b)
<1>1. /\ a \in DOMAIN m /\ a \in Address /\ a # End /\ b \in DOMAIN m /\ b # 0 /\ b # End
      /\ c \in DOMAIN m /\ c \in Address
      /\ b < c /\ a < b /\ b \in Nat /\ a \in Nat /\ c \in Nat
  BY HeadFacts
<1>2. \A x \in DOMAIN m : m[x] \in LinkType
  BY DEF Typed
<1>3. /\ DOMAIN q = DOMAIN m /\ Typed(q)
      /\ \A x \in DOMAIN m : /\ q[x].used = m[x].used /\ q[x].prev = m[x].prev
                             /\ q[x].next = IF x = a THEN c ELSE m[x].next
  BY <1>1, <1>2 DEF Typed, LinkType
<1> HIDE DEF q, c
<1>4. /\ DOMAIN r = DOMAIN m /\ Typed(r)
      /\ \A x \in DOMAIN m : /\ r[x].used = m[x].used
                             /\ r[x].next = IF x = a THEN c ELSE m[x].next
                             /\ r[x].prev = IF x = c /\ c # End THEN a ELSE m[x].prev
  <2>1. c \in DOMAIN q /\ Typed(q) /\ a \in Address
    BY <1>1, <1>3
  <2>2. /\ DOMAIN r = DOMAIN q /\ Typed(r)
        /\ \A x \in DOMAIN q : /\ r[x].next = q[x].next /\ r[x].used = q[x].used
                               /\ r[x].prev = IF x = c /\ c # End THEN a ELSE q[x].prev
    BY <2>1, SetPrevIs
  <2> HIDE DEF r
  <2> QED BY <1>3, <2>2
<1>5. j = Dropped(r, b)
  BY DEF Join, q, c
<1> HIDE DEF r, j
<1>6. DOMAIN j = DOMAIN m \ {b} /\ \A x \in DOMAIN m \ {b} : j[x] = r[x]
  BY <1>4, <1>5 DEF Dropped
<1>7. j \in [DOMAIN j -> LinkType]
  BY <1>4, <1>5, <1>6 DEF Typed, Dropped
<1>8. Typed(j)
  BY <1>1, <1>6, <1>7 DEF Typed
<1> QED BY <1>4, <1>6, <1>8 DEF Blocks, c, j

(* Block a of m ends at b, and the rest of it is a free block. *)
Halved(m, a, b, s) ==
  LET c == m[a].next
  IN  /\ DOMAIN s = DOMAIN m \cup {b} /\ Typed(s) /\ Blocks(s) = Blocks(m) \cup {b}
      /\ b \notin DOMAIN m /\ b \in Address /\ b # End /\ b # a /\ b # c
      /\ a < b /\ b + Header <= c
      /\ s[b].next = c /\ s[b].prev = a /\ s[b].used = FALSE
      /\ \A x \in DOMAIN m :
           /\ s[x].used = m[x].used
           /\ s[x].next = IF x = a THEN b ELSE m[x].next
           /\ s[x].prev = IF x = c /\ c # End THEN b ELSE m[x].prev

LEMMA SplitIs ==
  ASSUME HeapAssumption, NEW m, Typed(m), Tiled(m), NEW a \in Blocks(m), NEW n \in Nat,
         n + Header <= Room(m, a)
  PROVE  Halved(m, a, a + Header + n, Split(m, a, n))
<1> DEFINE b == a + Header + n  c == m[a].next  q == [m EXCEPT ![a].next = b]
           w == Added(q, b, Link(c, a, FALSE))  s == Split(m, a, n)
<1>1. /\ a \in DOMAIN m /\ a \in Address /\ a # End /\ a \in Nat
      /\ c \in DOMAIN m /\ c \in Address /\ c \in Nat /\ c # 0
  BY HeadFacts
<1>2. c = a + Header + Room(m, a) /\ Room(m, a) \in Nat /\ Header \in Nat \ {0}
  BY RoomIsNat, SizeFacts
<1>3. b \in Nat /\ a < b /\ b + Header <= c /\ b < c
  BY <1>1, <1>2
<1>4. c <= End /\ Address = 0 .. End /\ End \in Nat
  BY <1>1, SizeFacts DEF Address
<1>5. b \in Address /\ b # End
  BY <1>1, <1>3, <1>4
<1>6. b \notin DOMAIN m
  BY <1>1, <1>3, Apart
<1>7. \A x \in DOMAIN m : m[x] \in LinkType
  BY DEF Typed
<1> HIDE DEF b, c
<1>8. /\ DOMAIN q = DOMAIN m /\ q \in [DOMAIN m -> LinkType]
      /\ \A x \in DOMAIN m : /\ q[x].used = m[x].used /\ q[x].prev = m[x].prev
                             /\ q[x].next = IF x = a THEN b ELSE m[x].next
  BY <1>1, <1>5, <1>7 DEF Typed, LinkType
<1> HIDE DEF q
<1>9. /\ Link(c, a, FALSE) \in LinkType /\ Link(c, a, FALSE).next = c
      /\ Link(c, a, FALSE).prev = a /\ Link(c, a, FALSE).used = FALSE
  BY <1>1 DEF Link, LinkType
<1>10. /\ DOMAIN w = DOMAIN m \cup {b} /\ w[b] = Link(c, a, FALSE)
       /\ \A x \in DOMAIN m : w[x] = q[x]
       /\ w \in [DOMAIN w -> LinkType]
  BY <1>6, <1>8, <1>9 DEF Added
<1>11. Typed(w) /\ c \in DOMAIN w
  BY <1>1, <1>5, <1>10 DEF Typed
<1>12. s = SetPrev(w, c, b)
  BY DEF Split, b, c, q
<1> HIDE DEF w, s
<1>13. /\ DOMAIN s = DOMAIN w /\ Typed(s)
       /\ \A x \in DOMAIN w : /\ s[x].next = w[x].next /\ s[x].used = w[x].used
                              /\ s[x].prev = IF x = c /\ c # End THEN b ELSE w[x].prev
  BY <1>5, <1>11, <1>12, SetPrevIs
<1>14. b # c /\ b # a
  BY <1>1, <1>3
<1>15. s[b].next = c /\ s[b].prev = a /\ s[b].used = FALSE
  BY <1>9, <1>10, <1>13, <1>14
<1>16. \A x \in DOMAIN m :
          /\ s[x].used = m[x].used
          /\ s[x].next = IF x = a THEN b ELSE m[x].next
          /\ s[x].prev = IF x = c /\ c # End THEN b ELSE m[x].prev
  BY <1>8, <1>10, <1>13
<1>17. Blocks(s) = Blocks(m) \cup {b}
  BY <1>5, <1>10, <1>13 DEF Blocks
<1> QED BY <1>3, <1>5, <1>6, <1>10, <1>13, <1>14, <1>15, <1>16, <1>17 DEF b, c, s, Halved

-----------------------------------------------------------------------------
(* The chain stays a tiling when two blocks are joined or one is split.    *)
LEMMA JoinTiled ==
  ASSUME HeapAssumption, NEW m, Typed(m), Tiled(m), NEW a \in Blocks(m), NEW b \in Blocks(m),
         m[a].next = b
  PROVE  Tiled(Join(m, a, b))
<1> DEFINE c == m[b].next  j == Join(m, a, b)
<1>1. /\ DOMAIN j = DOMAIN m \ {b} /\ Typed(j) /\ Blocks(j) = Blocks(m) \ {b}
      /\ \A x \in DOMAIN m \ {b} :
           /\ j[x].used = m[x].used
           /\ j[x].next = IF x = a THEN c ELSE m[x].next
           /\ j[x].prev = IF x = c /\ c # End THEN a ELSE m[x].prev
  BY JoinIs
<1>2. /\ a \in DOMAIN m /\ a \in Nat /\ a # End /\ b \in Nat /\ a < b /\ a + Header <= b
      /\ c \in DOMAIN m /\ c \in Nat /\ b < c /\ c # 0 /\ b # 0
      /\ DOMAIN m \subseteq Nat /\ Header \in Nat
  BY HeadFacts, SizeFacts DEF Typed
<1> HIDE DEF c, j
<1>3. {0, End} \subseteq DOMAIN j
  BY <1>1 DEF Typed
<1>4. ASSUME NEW y \in DOMAIN j PROVE y <= a \/ c <= y
  <2>1. y \in DOMAIN m /\ y # b /\ y \in Nat
    BY <1>1, <1>2
  <2>2. (y <= a \/ b <= y) /\ (y <= b \/ c <= y)
    BY <2>1, Apart DEF c
  <2> QED BY <1>2, <2>1, <2>2
<1>5. ASSUME NEW x \in Blocks(j), x # a
      PROVE  /\ j[x].next = m[x].next /\ m[x].next \in DOMAIN j /\ x + Header <= m[x].next
             /\ \A y \in DOMAIN j : y <= x \/ m[x].next <= y
             /\ m[x].next # End => j[m[x].next].prev = x
  <2>1. x \in Blocks(m) /\ x # b /\ x \in DOMAIN m
    BY <1>1 DEF Blocks
  <2>2. m[x].next \in DOMAIN m /\ m[x].next # b /\ m[x].next # c
    BY <1>5, <2>1, HeadFacts, NextIsOneToOne DEF c
  <2>3. /\ x + Header <= m[x].next /\ \A y \in DOMAIN m : y <= x \/ m[x].next <= y
        /\ m[x].next # End => m[m[x].next].prev = x
    BY <2>1 DEF Tiled
  <2> QED BY <1>1, <1>5, <2>1, <2>2, <2>3
<1>6. /\ j[a].next = c /\ c \in DOMAIN j /\ a + Header <= c
      /\ c # End => j[c].prev = a
  BY <1>1, <1>2
<1>7. 0 # End => j[0].prev = 0
  BY <1>1, <1>2, <1>3 DEF Tiled
<1> QED BY <1>3, <1>4, <1>5, <1>6, <1>7 DEF Tiled, j

LEMMA SplitTiled ==
  ASSUME HeapAssumption, NEW m, Typed(m), Tiled(m), NEW a \in Blocks(m), NEW n \in Nat,
         n + Header <= Room(m, a)
  PROVE  Tiled(Split(m, a, n))
<1> DEFINE b == a + Header + n  c == m[a].next  s == Split(m, a, n)
<1>1. /\ DOMAIN s = DOMAIN m \cup {b} /\ Typed(s) /\ Blocks(s) = Blocks(m) \cup {b}
      /\ b \notin DOMAIN m /\ b # End /\ b # a /\ b # c /\ a < b /\ b + Header <= c
      /\ s[b].next = c /\ s[b].prev = a
      /\ \A x \in DOMAIN m :
           /\ s[x].used = m[x].used
           /\ s[x].next = IF x = a THEN b ELSE m[x].next
           /\ s[x].prev = IF x = c /\ c # End THEN b ELSE m[x].prev
  <2>1. Halved(m, a, b, s)
    BY SplitIs
  <2> HIDE DEF b, s
  <2> QED BY <2>1 DEF Halved
<1>2. /\ a \in DOMAIN m /\ a \in Nat /\ a # End /\ c \in DOMAIN m /\ c \in Nat /\ c # 0
      /\ DOMAIN m \subseteq Nat /\ Header \in Nat \ {0} /\ b \in Nat
  BY HeadFacts, SizeFacts DEF Typed
<1>3. a + Header <= b
  BY <1>2
<1> HIDE DEF b, c, s
<1>4. {0, End} \subseteq DOMAIN s
  BY <1>1 DEF Typed
<1>5. ASSUME NEW y \in DOMAIN s PROVE (y <= a \/ b <= y) /\ (y <= b \/ c <= y)
  <2>1. CASE y = b
    BY <1>2, <2>1
  <2>2. CASE y # b
    <3>1. y \in DOMAIN m /\ y \in Nat
      BY <1>1, <1>2, <2>2
    <3>2. y <= a \/ c <= y
      BY <3>1, Apart DEF c
    <3>3. b <= c /\ a <= b
      BY <1>1, <1>2
    <3> QED BY <1>2, <3>1, <3>2, <3>3
  <2> QED BY <2>1, <2>2
<1>6. ASSUME NEW x \in Blocks(s), x # a, x # b
      PROVE  /\ s[x].next \in DOMAIN s /\ x + Header <= s[x].next
             /\ \A y \in DOMAIN s : y <= x \/ s[x].next <= y
             /\ s[x].next # End => s[s[x].next].prev = x
  <2>1. x \in Blocks(m) /\ x \in DOMAIN m /\ x \in Nat
    BY <1>1, <1>2, <1>6 DEF Blocks
  <2>2. m[x].next \in DOMAIN m /\ m[x].next # c /\ s[x].next = m[x].next /\ m[x].next \in Nat
    BY <1>1, <1>6, <2>1, HeadFacts, NextIsOneToOne DEF c
  <2>3. /\ x + Header <= m[x].next /\ \A y \in DOMAIN m : y <= x \/ m[x].next <= y
        /\ m[x].next # End => m[m[x].next].prev = x
    BY <2>1 DEF Tiled
  <2>4. b <= x \/ m[x].next <= b
    <3>1. a <= x \/ m[x].next <= a
      BY <1>2, <2>3
    <3>2. x <= a \/ c <= x
      BY <2>1, Apart DEF c
    <3> QED BY <1>1, <1>2, <1>6, <2>1, <2>2, <3>1, <3>2
  <2>5. \A y \in DOMAIN s : y <= x \/ s[x].next <= y
    BY <1>1, <2>2, <2>3, <2>4
  <2> QED BY <1>1, <2>2, <2>3, <2>5
<1>7. 0 # End => s[0].prev = 0
  BY <1>1, <1>2 DEF Typed, Tiled
<1>8. c # End => s[c].prev = b
  BY <1>1, <1>2
<1>9. /\ s[a].next = b /\ b \in DOMAIN s /\ s[b].prev = a
      /\ s[b].next = c /\ c \in DOMAIN s /\ b + Header <= c
  BY <1>1, <1>2
<1> QED BY <1>3, <1>4, <1>5, <1>6, <1>7, <1>8, <1>9 DEF Tiled, s

-----------------------------------------------------------------------------
MergedBut(m, S) ==
  \A a \in Blocks(m) \ S : m[a].next # End /\ ~m[a].used => m[m[a].next].used

(* Where a search for a free block may begin *)
FreeAt(m, l) == l \in DOMAIN m /\ (l = End \/ ~m[l].used)

(* The used blocks stay as they are. *)
UsedKept(m, j) ==
  /\ \A x \in Blocks(j) : x \in Blocks(m) /\ j[x].used = m[x].used
  /\ \A x \in Blocks(m) : m[x].used => x \in Blocks(j) /\ j[x].next = m[x].next

LEMMA UsedKeptTwice ==
  ASSUME NEW m, NEW i, NEW j, UsedKept(m, i), UsedKept(i, j)
  PROVE  UsedKept(m, j)
BY DEF UsedKept

(* Two free blocks are joined. *)
LEMMA JoinFree ==
  ASSUME HeapAssumption, NEW m, Typed(m), Tiled(m), NEW a \in Blocks(m), NEW b \in Blocks(m),
         m[a].next = b, ~m[a].used, ~m[b].used,
         NEW S, MergedBut(m, S \cup {a}), b \notin S, NEW l, FreeAt(m, l)
  PROVE  /\ Typed(Join(m, a, b)) /\ Tiled(Join(m, a, b))
         /\ a \in Blocks(Join(m, a, b)) /\ ~Join(m, a, b)[a].used
         /\ Join(m, a, b)[a].prev = m[a].prev
         /\ MergedBut(Join(m, a, b), S)
         /\ UsedKept(m, Join(m, a, b))
         /\ FreeAt(Join(m, a, b), IF l = b THEN a ELSE l)
<1> DEFINE c == m[b].next  j == Join(m, a, b)
<1>1. /\ DOMAIN j = DOMAIN m \ {b} /\ Typed(j) /\ Blocks(j) = Blocks(m) \ {b}
      /\ \A x \in DOMAIN m \ {b} :
           /\ j[x].used = m[x].used
           /\ j[x].next = IF x = a THEN c ELSE m[x].next
           /\ j[x].prev = IF x = c /\ c # End THEN a ELSE m[x].prev
  BY JoinIs
<1>2. /\ a \in DOMAIN m /\ a # b /\ a # End /\ a # c /\ b # End /\ b # c /\ b \in DOMAIN m
      /\ c \in DOMAIN m
  <2>1. /\ a \in DOMAIN m /\ a \in Nat /\ a # End /\ b \in DOMAIN m /\ b \in Nat /\ b # End
        /\ c \in DOMAIN m /\ c \in Nat /\ a < b /\ b < c
    BY HeadFacts
  <2> QED BY <2>1
<1>3. Tiled(j)
  BY JoinTiled
<1>4. \A x \in Blocks(m) : x # a => m[x].next # b
  BY NextIsOneToOne
<1>5. \A x \in Blocks(m) : x \in DOMAIN m /\ m[x].next \in DOMAIN m
  BY HeadFacts
<1> HIDE DEF c, j
<1>6. a \in Blocks(j) /\ ~j[a].used /\ j[a].prev = m[a].prev
  BY <1>1, <1>2
<1>7. MergedBut(j, S)
  <2> SUFFICES ASSUME NEW x \in Blocks(j) \ S, j[x].next # End, ~j[x].used
               PROVE  j[j[x].next].used
    BY DEF MergedBut
  <2>1. CASE x = a
    <3>1. j[x].next = c
      BY <1>1, <1>2, <2>1
    <3>2. m[b].next # End => m[m[b].next].used
      BY <1>2 DEF MergedBut
    <3> QED BY <1>1, <1>2, <3>1, <3>2 DEF c
  <2>2. CASE x # a
    <3>1. x \in Blocks(m) /\ x # b /\ x \in DOMAIN m /\ x \notin S \cup {a}
      BY <1>1, <1>5, <2>2
    <3>2. j[x].next = m[x].next /\ ~m[x].used /\ m[x].next # b /\ m[x].next \in DOMAIN m
      BY <1>1, <1>4, <1>5, <2>2, <3>1
    <3>3. m[m[x].next].used
      BY <3>1, <3>2 DEF MergedBut
    <3> QED BY <1>1, <3>2, <3>3
  <2> QED BY <2>1, <2>2
<1>8. UsedKept(m, j)
  BY <1>1, <1>2, <1>5 DEF UsedKept
<1>9. FreeAt(j, IF l = b THEN a ELSE l)
  BY <1>1, <1>2, <1>6 DEF FreeAt
<1> QED BY <1>1, <1>3, <1>6, <1>7, <1>8, <1>9 DEF j

(* plug_holes, with the block behind: what is left is the one before.      *)
LEMMA PlugForwardIs ==
  ASSUME HeapAssumption, NEW m, Typed(m), Tiled(m), NEW a \in Blocks(m), ~m[a].used,
         MergedBut(m, {m[a].prev, a}), NEW l, FreeAt(m, l)
  PROVE  LET h == PlugForward(Heaped(m, l), a)
         IN  /\ Typed(h.mem) /\ Tiled(h.mem) /\ FreeAt(h.mem, h.lfree)
             /\ a \in Blocks(h.mem) /\ ~h.mem[a].used
             /\ MergedBut(h.mem, {h.mem[a].prev} \ {a}) /\ UsedKept(m, h.mem)
<1> DEFINE b == m[a].next  p == m[a].prev  h == PlugForward(Heaped(m, l), a)
<1>1. Heaped(m, l).mem = m /\ Heaped(m, l).lfree = l
  BY DEF Heaped
<1>2. CASE b # End /\ ~m[b].used
  <2>1. h = Heaped(Join(m, a, b), IF l = b THEN a ELSE l)
    BY <1>1, <1>2 DEF PlugForward
  <2>2. h.mem = Join(m, a, b) /\ h.lfree = IF l = b THEN a ELSE l
    BY <2>1 DEF Heaped
  <2>3. b \in Blocks(m) /\ a \in Nat /\ b \in Nat /\ a < b
    BY <1>2, HeadFacts DEF Blocks
  <2>4. p = a \/ (p \in Nat /\ p < a)
    <3>1. a # 0 => p \in Blocks(m) /\ m[p].next = a
      BY PrevLeadsBack
    <3>2. a = 0 => p = a
      BY PrevLeadsBack
    <3>3. a # 0 => p \in Nat /\ p < a
      BY <3>1, HeadFacts
    <3> QED BY <3>2, <3>3
  <2>5. b \notin {p} \ {a}
    BY <2>3, <2>4
  <2>6. MergedBut(m, ({p} \ {a}) \cup {a})
    <3>1. ({p} \ {a}) \cup {a} = {p, a}
      OBVIOUS
    <3> QED BY <3>1
  <2> HIDE DEF h
  <2>7. /\ Typed(h.mem) /\ Tiled(h.mem) /\ FreeAt(h.mem, h.lfree)
        /\ a \in Blocks(h.mem) /\ ~h.mem[a].used /\ h.mem[a].prev = p
        /\ MergedBut(h.mem, {p} \ {a}) /\ UsedKept(m, h.mem)
    <3> DEFINE S == {p} \ {a}
    <3>1. b \notin S /\ MergedBut(m, S \cup {a})
      BY <2>5, <2>6
    <3>1a. m[a].next = b /\ m[a].prev = p
      OBVIOUS
    <3>1b. ~m[b].used /\ b \in Blocks(m)
      BY <1>2, <2>3
    <3> HIDE DEF b, p, S
    <3>2. /\ Typed(Join(m, a, b)) /\ Tiled(Join(m, a, b))
          /\ a \in Blocks(Join(m, a, b)) /\ ~Join(m, a, b)[a].used
          /\ Join(m, a, b)[a].prev = p
          /\ MergedBut(Join(m, a, b), S) /\ UsedKept(m, Join(m, a, b))
          /\ FreeAt(Join(m, a, b), IF l = b THEN a ELSE l)
      BY <3>1, <3>1a, <3>1b, JoinFree
    <3> QED BY <2>2, <3>2 DEF S
  <2> QED BY <2>7 DEF h
<1>3. CASE ~(b # End /\ ~m[b].used)
  <2>1. h.mem = m /\ h.lfree = l
    BY <1>1, <1>3 DEF PlugForward
  <2>2. MergedBut(m, {p} \ {a})
    BY <1>3 DEF MergedBut
  <2>3. UsedKept(m, m)
    BY DEF UsedKept
  <2> QED BY <2>1, <2>2, <2>3
<1> QED BY <1>2, <1>3

(* plug_holes, with the block before: all there is to merge is merged.     *)
LEMMA PlugBackwardIs ==
  ASSUME HeapAssumption, NEW m, Typed(m), Tiled(m), NEW a \in Blocks(m), ~m[a].used,
         MergedBut(m, {m[a].prev} \ {a}), NEW l, FreeAt(m, l)
  PROVE  LET h == PlugBackward(Heaped(m, l), a)
         IN  /\ Typed(h.mem) /\ Tiled(h.mem) /\ FreeAt(h.mem, h.lfree)
             /\ Merged(h.mem) /\ UsedKept(m, h.mem)
<1> DEFINE p == m[a].prev  h == PlugBackward(Heaped(m, l), a)
<1>1. Heaped(m, l).mem = m /\ Heaped(m, l).lfree = l
  BY DEF Heaped
<1>2. p # a => p \in Blocks(m) /\ m[p].next = a
  BY PrevLeadsBack
<1>3. CASE p # a /\ ~m[p].used
  <2>1. h = Heaped(Join(m, p, a), IF l = a THEN p ELSE l)
    BY <1>1, <1>3 DEF PlugBackward
  <2>2. h.mem = Join(m, p, a) /\ h.lfree = IF l = a THEN p ELSE l
    BY <2>1 DEF Heaped
  <2>3. MergedBut(m, {} \cup {p})
    <3>1. {} \cup {p} = {p} \ {a}
      BY <1>3
    <3> QED BY <3>1
  <2> HIDE DEF h
  <2>4. /\ Typed(h.mem) /\ Tiled(h.mem) /\ FreeAt(h.mem, h.lfree)
        /\ MergedBut(h.mem, {}) /\ UsedKept(m, h.mem)
    <3>1. p \in Blocks(m) /\ m[p].next = a /\ a \notin {} /\ ~m[p].used
      BY <1>2, <1>3
    <3> HIDE DEF p
    <3>2. /\ Typed(Join(m, p, a)) /\ Tiled(Join(m, p, a))
          /\ MergedBut(Join(m, p, a), {}) /\ UsedKept(m, Join(m, p, a))
          /\ FreeAt(Join(m, p, a), IF l = a THEN p ELSE l)
      BY <2>3, <3>1, JoinFree
    <3> QED BY <2>2, <3>2
  <2>5. Merged(h.mem)
    BY <2>4 DEF Merged, MergedBut
  <2> QED BY <2>4, <2>5 DEF h
<1>4. CASE ~(p # a /\ ~m[p].used)
  <2>1. h.mem = m /\ h.lfree = l
    BY <1>1, <1>4 DEF PlugBackward
  <2>2. Merged(m)
    BY <1>4 DEF Merged, MergedBut
  <2>3. UsedKept(m, m)
    BY DEF UsedKept
  <2> QED BY <2>1, <2>2, <2>3
<1> QED BY <1>3, <1>4

LEMMA PlugHolesIs ==
  ASSUME HeapAssumption, NEW m, Typed(m), Tiled(m), NEW a \in Blocks(m), ~m[a].used,
         MergedBut(m, {m[a].prev, a}), NEW l, FreeAt(m, l)
  PROVE  LET h == PlugHoles(Heaped(m, l), a)
         IN  /\ Typed(h.mem) /\ Tiled(h.mem) /\ FreeAt(h.mem, h.lfree)
             /\ Merged(h.mem) /\ UsedKept(m, h.mem)
<1> DEFINE f == PlugForward(Heaped(m, l), a)  n == f.mem  g == f.lfree
           h == PlugBackward(Heaped(n, g), a)
<1>1. /\ Typed(n) /\ Tiled(n) /\ FreeAt(n, g) /\ a \in Blocks(n) /\ ~n[a].used
      /\ MergedBut(n, {n[a].prev} \ {a}) /\ UsedKept(m, n)
  BY PlugForwardIs
<1>2. f = Heaped(n, g)
  BY DEF PlugForward, Heaped
<1>3. PlugHoles(Heaped(m, l), a) = h
  BY <1>2 DEF PlugHoles
<1> HIDE DEF n, g
<1>4. /\ Typed(h.mem) /\ Tiled(h.mem) /\ FreeAt(h.mem, h.lfree)
      /\ Merged(h.mem) /\ UsedKept(n, h.mem)
  BY <1>1, PlugBackwardIs
<1> HIDE DEF h
<1>5. UsedKept(m, h.mem)
  BY <1>1, <1>4, UsedKeptTwice
<1> QED BY <1>3, <1>4, <1>5

-----------------------------------------------------------------------------
(* The headers m, the start l of the search and the sizes v that the       *)
(* callers hold fit together.                                              *)
Sound(m, l, v) ==
  /\ Typed(m) /\ Tiled(m) /\ Merged(m) /\ FreeAt(m, l)
  /\ {a \in Blocks(m) : m[a].used} = DOMAIN v
  /\ v \in [DOMAIN v -> Nat]
  /\ \A a \in DOMAIN v : Room(m, a) >= v[a]

LEMMA LowestIsIn ==
  ASSUME NEW S \in SUBSET Nat, S # {}
  PROVE  Lowest(S) \in S
<1>1. \E a \in S : \A b \in S : a <= b
  BY LeastElementExists
<1> QED BY <1>1 DEF Lowest

(* What rt_malloc makes of a free block before it is marked: the block,    *)
(* and perhaps a free rest behind it.                                      *)
Carved(m, a, n, s) ==
  /\ Typed(s) /\ Tiled(s) /\ a \in Blocks(s) /\ ~s[a].used /\ Room(s, a) >= n
  /\ MergedBut(s, {a}) /\ DOMAIN m \subseteq DOMAIN s
  /\ \A x \in Blocks(s) : x \notin Blocks(m) => ~s[x].used
  /\ \A x \in Blocks(m) : /\ x \in Blocks(s) /\ s[x].used = m[x].used
                          /\ x # a => s[x].next = m[x].next

LEMMA CarvedIs ==
  ASSUME HeapAssumption, NEW m, Typed(m), Tiled(m), Merged(m),
         NEW a \in Blocks(m), ~m[a].used, NEW n \in Nat, Room(m, a) >= n
  PROVE  Carved(m, a, n, IF Splits(m, a, n) THEN Split(m, a, n) ELSE m)
<1>1. CASE ~Splits(m, a, n)
  BY <1>1 DEF Carved, MergedBut, Merged
<1>2. CASE Splits(m, a, n)
  <2> DEFINE b == a + Header + n  s == Split(m, a, n)
  <2>1. Room(m, a) \in Nat /\ Header \in Nat \ {0} /\ MinSize \in Nat /\ a \in Nat
    BY RoomIsNat, SizeFacts, HeadFacts
  <2>2. n + Header <= Room(m, a)
    BY <1>2, <2>1 DEF Splits
  <2>3. Halved(m, a, b, s) /\ Tiled(s)
    BY <2>2, SplitIs, SplitTiled
  <2>4. Room(s, a) = n
    <3>1. s[a].next = b
      BY <2>3, HeadFacts DEF Halved
    <3> QED BY <2>1, <3>1 DEF Room
  <2> HIDE DEF b, s
  <2>5. \A x \in Blocks(m) : x \in DOMAIN m /\ m[x].next \in DOMAIN m
    BY HeadFacts
  <2>6. MergedBut(s, {a})
    <3> SUFFICES ASSUME NEW x \in Blocks(s) \ {a}, s[x].next # End, ~s[x].used
                 PROVE  s[s[x].next].used
      BY DEF MergedBut
    <3>1. CASE x = b
      <4>1. s[x].next = m[a].next /\ m[a].next \in DOMAIN m
        BY <2>3, <2>5, <3>1 DEF Halved
      <4>2. m[m[a].next].used
        BY <4>1 DEF Merged
      <4> QED BY <2>3, <4>1, <4>2 DEF Halved
    <3>2. CASE x # b
      <4>1. x \in Blocks(m) /\ x # a
        BY <2>3, <3>2 DEF Halved
      <4>2. s[x].next = m[x].next /\ s[x].used = m[x].used /\ m[x].next \in DOMAIN m
        BY <2>3, <2>5, <4>1 DEF Halved
      <4>3. m[m[x].next].used
        BY <4>1, <4>2 DEF Merged
      <4> QED BY <2>3, <4>2, <4>3 DEF Halved
    <3> QED BY <3>1, <3>2
  <2>7. Typed(s) /\ a \in Blocks(s) /\ ~s[a].used /\ DOMAIN m \subseteq DOMAIN s
    BY <2>3, <2>5 DEF Halved
  <2>8. \A x \in Blocks(s) : x \notin Blocks(m) => ~s[x].used
    BY <2>3 DEF Halved
  <2>9. \A x \in Blocks(m) : /\ x \in Blocks(s) /\ s[x].used = m[x].used
                             /\ x # a => s[x].next = m[x].next
    BY <2>3, <2>5 DEF Halved
  <2>10. Room(s, a) >= n
    BY <2>4
  <2>11. Carved(m, a, n, s)
    BY <2>3, <2>6, <2>7, <2>8, <2>9, <2>10 DEF Carved
  <2> QED BY <1>2, <2>11 DEF s
<1> QED BY <1>1, <1>2

(* Marking a block changes nothing else. *)
LEMMA MarkIs ==
  ASSUME NEW s, Typed(s), NEW a \in Blocks(s), NEW u \in BOOLEAN
  PROVE  LET t == [s EXCEPT ![a].used = u]
         IN  /\ DOMAIN t = DOMAIN s /\ Blocks(t) = Blocks(s) /\ Typed(t)
             /\ \A x \in DOMAIN s : /\ t[x].next = s[x].next /\ t[x].prev = s[x].prev
                                    /\ t[x].used = IF x = a THEN u ELSE s[x].used
             /\ Tiled(s) => Tiled(t)
<1> DEFINE t == [s EXCEPT ![a].used = u]
<1>1. \A x \in DOMAIN s : s[x] \in LinkType
  BY DEF Typed
<1>2. a \in DOMAIN s
  BY DEF Blocks
<1>3. /\ DOMAIN t = DOMAIN s
      /\ \A x \in DOMAIN s : /\ t[x].next = s[x].next /\ t[x].prev = s[x].prev
                             /\ t[x].used = IF x = a THEN u ELSE s[x].used
  BY <1>1, <1>2 DEF LinkType
<1>4. t \in [DOMAIN s -> LinkType]
  BY <1>1, <1>2 DEF LinkType
<1> HIDE DEF t
<1>5. Typed(t) /\ Blocks(t) = Blocks(s)
  BY <1>3, <1>4 DEF Typed, Blocks
<1>6. Tiled(s) => Tiled(t)
  <2> SUFFICES ASSUME Tiled(s) PROVE Tiled(t)
    OBVIOUS
  <2>1. \A x \in Blocks(s) : x \in DOMAIN s /\ s[x].next \in DOMAIN s
    BY DEF Blocks, Tiled
  <2> QED BY <1>3, <1>5, <2>1 DEF Tiled
<1> QED BY <1>3, <1>5, <1>6 DEF t

-----------------------------------------------------------------------------
LEMMA HeldBlocks ==
  ASSUME HeapAssumption, NEW m, NEW l, NEW v, Sound(m, l, v), NEW a \in DOMAIN v
  PROVE  a \in Blocks(m) /\ m[a].used /\ a \in Address /\ a # NoBlock /\ a \in Nat
<1>1. a \in Blocks(m) /\ m[a].used /\ Typed(m) /\ Tiled(m)
  BY DEF Sound
<1> QED BY <1>1, HeadFacts, SizeFacts

(* rt_malloc: a free block that is large enough becomes the caller's.      *)
LEMMA AllocateIs ==
  ASSUME HeapAssumption, Sound(mem, lfree, live), NEW n \in Nat, Allocate(n)
  PROVE  LET a == Lowest(Found(mem, lfree, Larger(n, MinSize)))
         IN  /\ Sound(mem', lfree', live') /\ a \in Address
             /\ DOMAIN live' = DOMAIN live \cup {a} /\ a \notin DOMAIN live
             /\ \A x \in DOMAIN live : mem'[x].next = mem[x].next
<1> DEFINE size == Larger(n, MinSize)  F == Found(mem, lfree, size)  a == Lowest(F)
           s == IF Splits(mem, a, size) THEN Split(mem, a, size) ELSE mem
<1>1. /\ Typed(mem) /\ Tiled(mem) /\ Merged(mem) /\ FreeAt(mem, lfree)
      /\ {x \in Blocks(mem) : mem[x].used} = DOMAIN live /\ live \in [DOMAIN live -> Nat]
      /\ \A x \in DOMAIN live : Room(mem, x) >= live[x]
  BY DEF Sound
<1>2. size \in Nat /\ size >= n
  BY SizeFacts DEF Larger
<1>3. /\ F # {} /\ mem' = [s EXCEPT ![a].used = TRUE]
      /\ lfree' = NextFree(mem', lfree, a) /\ live' = Added(live, a, n)
  BY DEF Allocate, Taken
<1> HIDE DEF size
<1>4. \A x \in F : x \in Blocks(mem) /\ x \in Nat /\ ~mem[x].used /\ Room(mem, x) >= size
  BY <1>1, HeadFacts DEF Found
<1>5. a \in F
  <2>1. F \in SUBSET Nat
    BY <1>4
  <2> QED BY <1>3, <2>1, LowestIsIn
<1> HIDE DEF F
<1>6. a \in Blocks(mem) /\ ~mem[a].used /\ Room(mem, a) >= size /\ a \in Address
  BY <1>1, <1>4, <1>5, HeadFacts
<1>7. Carved(mem, a, size, s)
  BY <1>1, <1>2, <1>6, CarvedIs
<1> HIDE DEF a, s
<1>8. /\ Typed(s) /\ Tiled(s) /\ a \in Blocks(s) /\ ~s[a].used /\ Room(s, a) >= size
      /\ MergedBut(s, {a}) /\ DOMAIN mem \subseteq DOMAIN s
      /\ \A x \in Blocks(s) : x \notin Blocks(mem) => ~s[x].used
      /\ \A x \in Blocks(mem) : /\ x \in Blocks(s) /\ s[x].used = mem[x].used
                                /\ x # a => s[x].next = mem[x].next
  BY <1>7 DEF Carved
<1>9. /\ DOMAIN mem' = DOMAIN s /\ Blocks(mem') = Blocks(s) /\ Typed(mem')
      /\ \A x \in DOMAIN s : /\ mem'[x].next = s[x].next
                             /\ mem'[x].used = IF x = a THEN TRUE ELSE s[x].used
      /\ Tiled(mem')
  <2>1. /\ Typed(s) /\ Tiled(s) /\ a \in Blocks(s) /\ TRUE \in BOOLEAN
    BY <1>8
  <2> DEFINE t == [s EXCEPT ![a].used = TRUE]
  <2>2. /\ DOMAIN t = DOMAIN s /\ Blocks(t) = Blocks(s) /\ Typed(t)
        /\ \A x \in DOMAIN s : t[x].next = s[x].next /\ t[x].used = IF x = a THEN TRUE ELSE s[x].used
        /\ Tiled(t)
    BY <2>1, MarkIs
  <2>3. mem' = t
    BY <1>3
  <2> HIDE DEF t
  <2> QED BY <2>2, <2>3
<1>10. Merged(mem')
  <2> SUFFICES ASSUME NEW x \in Blocks(s), mem'[x].next # End, ~mem'[x].used
               PROVE  mem'[mem'[x].next].used
    BY <1>9 DEF Merged
  <2>1. x \in DOMAIN s /\ s[x].next \in DOMAIN s
    BY <1>8, HeadFacts
  <2>2. x # a /\ ~s[x].used /\ mem'[x].next = s[x].next
    BY <1>9, <2>1
  <2>3. s[s[x].next].used
    BY <1>8, <2>2 DEF MergedBut
  <2> QED BY <1>9, <2>1, <2>2, <2>3
<1>11. /\ DOMAIN live' = DOMAIN live \cup {a} /\ live'[a] = n
       /\ \A x \in DOMAIN live : x # a => live'[x] = live[x]
       /\ live' \in [DOMAIN live' -> Nat]
  BY <1>1, <1>3 DEF Added
<1>12. {x \in Blocks(mem') : mem'[x].used} = DOMAIN live'
  <2>1. ASSUME NEW x \in Blocks(s) PROVE mem'[x].used <=> x = a \/ x \in DOMAIN live
    <3>1. x \in DOMAIN s
      BY DEF Blocks
    <3> QED BY <1>1, <1>6, <1>8, <1>9, <3>1
  <2>2. \A x \in DOMAIN live : x \in Blocks(s)
    BY <1>1, <1>8
  <2> QED BY <1>8, <1>9, <1>11, <2>1, <2>2
<1>13. ASSUME NEW x \in DOMAIN live' PROVE Room(mem', x) >= live'[x]
  <2>1. CASE x = a
    <3>1. mem'[a].next = s[a].next
      BY <1>8, <1>9 DEF Blocks
    <3>2. Room(mem', a) = Room(s, a) /\ Room(s, a) \in Nat
      BY <1>8, <3>1, RoomIsNat DEF Room
    <3> QED BY <1>2, <1>8, <1>11, <2>1, <3>2
  <2>2. CASE x # a
    <3>1. x \in DOMAIN live /\ x \in Blocks(mem)
      BY <1>1, <1>11, <2>2
    <3>2. s[x].next = mem[x].next /\ x \in DOMAIN s
      BY <1>8, <2>2, <3>1 DEF Blocks
    <3>3. Room(mem', x) = Room(mem, x)
      BY <1>9, <3>2 DEF Room
    <3> QED BY <1>1, <1>11, <2>2, <3>1, <3>3
  <2> QED BY <2>1, <2>2
<1>14. FreeAt(mem', lfree')
  <2>1. CASE lfree = a
    <3> DEFINE S == {b \in DOMAIN mem' : lfree <= b /\ (b = End \/ ~mem'[b].used)}
    <3>1. S \in SUBSET Nat
      BY <1>9, SizeFacts DEF Typed
    <3>2. lfree <= End
      BY <1>6, <2>1, SizeFacts
    <3>3. End \in S
      BY <1>9, <3>2 DEF Typed
    <3>4. lfree' = Lowest(S)
      BY <1>3, <2>1 DEF NextFree
    <3>5. lfree' \in S
      BY <3>1, <3>3, <3>4, LowestIsIn
    <3> QED BY <3>5 DEF FreeAt
  <2>2. CASE lfree # a
    <3>1. lfree' = lfree
      BY <1>3, <2>2 DEF NextFree
    <3>2. lfree \in DOMAIN mem /\ (lfree = End \/ ~mem[lfree].used)
      BY <1>1 DEF FreeAt
    <3>3. lfree \in DOMAIN s /\ (lfree = End \/ ~s[lfree].used)
      BY <1>8, <3>2 DEF Blocks
    <3> QED BY <1>9, <2>2, <3>1, <3>3 DEF FreeAt
  <2> QED BY <2>1, <2>2
<1>15. Sound(mem', lfree', live')
  BY <1>9, <1>10, <1>11, <1>12, <1>13, <1>14 DEF Sound
<1>16. a \notin DOMAIN live
  BY <1>1, <1>6
<1>17. ASSUME NEW x \in DOMAIN live PROVE mem'[x].next = mem[x].next
  <2>1. x \in Blocks(mem) /\ x # a
    BY <1>1, <1>16
  <2>2. x \in DOMAIN s /\ s[x].next = mem[x].next
    BY <1>8, <2>1 DEF Blocks
  <2> QED BY <1>9, <2>2
<1> QED BY <1>6, <1>11, <1>15, <1>16, <1>17 DEF a, F, size

(* rt_free: the block is no longer the caller's; the others stay.          *)
LEMMA ReleaseIs ==
  ASSUME HeapAssumption, Sound(mem, lfree, live), NEW a \in DOMAIN live, FreeBlock(a)
  PROVE  /\ Sound(mem', lfree', live') /\ DOMAIN live' = DOMAIN live \ {a}
         /\ \A x \in DOMAIN live' : mem'[x].next = mem[x].next
<1> DEFINE f == [mem EXCEPT ![a].used = FALSE]  l == IF a < lfree THEN a ELSE lfree
           h == PlugHoles(Heaped(f, l), a)
<1>1. /\ Typed(mem) /\ Tiled(mem) /\ Merged(mem) /\ FreeAt(mem, lfree)
      /\ {x \in Blocks(mem) : mem[x].used} = DOMAIN live /\ live \in [DOMAIN live -> Nat]
      /\ \A x \in DOMAIN live : Room(mem, x) >= live[x]
  BY DEF Sound
<1>2. a \in Blocks(mem) /\ a \in DOMAIN mem /\ a # End
  BY <1>1 DEF Blocks
<1>3. mem' = h.mem /\ lfree' = h.lfree /\ live' = Dropped(live, a)
  BY DEF FreeBlock
<1>4. /\ DOMAIN f = DOMAIN mem /\ Blocks(f) = Blocks(mem) /\ Typed(f) /\ Tiled(f)
      /\ \A x \in DOMAIN mem : /\ f[x].next = mem[x].next /\ f[x].prev = mem[x].prev
                               /\ f[x].used = IF x = a THEN FALSE ELSE mem[x].used
  <2> DEFINE g(u) == [mem EXCEPT ![a].used = u]
  <2>1. ASSUME NEW u \in BOOLEAN
        PROVE  /\ DOMAIN g(u) = DOMAIN mem /\ Blocks(g(u)) = Blocks(mem) /\ Typed(g(u))
               /\ \A x \in DOMAIN mem : /\ g(u)[x].next = mem[x].next
                                        /\ g(u)[x].prev = mem[x].prev
                                        /\ g(u)[x].used = IF x = a THEN u ELSE mem[x].used
               /\ Tiled(g(u))
    BY <1>1, <1>2, MarkIs
  <2>2. f = g(FALSE)
    OBVIOUS
  <2> HIDE DEF g, f
  <2> QED BY <2>1, <2>2
<1> HIDE DEF f
<1>5. ~f[a].used /\ f[a].prev = mem[a].prev
  BY <1>2, <1>4
<1>6. MergedBut(f, {f[a].prev, a})
  <2> SUFFICES ASSUME NEW x \in Blocks(f) \ {f[a].prev, a}, f[x].next # End, ~f[x].used
               PROVE  f[f[x].next].used
    BY DEF MergedBut
  <2>1. x \in Blocks(mem) /\ x \in DOMAIN mem /\ mem[x].next \in DOMAIN mem
    BY <1>1, <1>4, HeadFacts
  <2>2. f[x].next = mem[x].next /\ mem[x].next # End /\ ~mem[x].used
    BY <1>4, <2>1
  <2>3. mem[mem[x].next].used
    BY <1>1, <2>1, <2>2 DEF Merged
  <2>4. mem[x].next # a
    <3> SUFFICES ASSUME mem[x].next = a PROVE FALSE
      OBVIOUS
    <3>1. mem[a].prev = x
      BY <1>1, <2>1, <2>2 DEF Tiled
    <3> QED BY <1>5, <3>1
  <2> QED BY <1>4, <2>1, <2>2, <2>3, <2>4
<1>7. FreeAt(f, l)
  <2>1. lfree \in DOMAIN mem /\ (lfree = End \/ ~mem[lfree].used)
    BY <1>1 DEF FreeAt
  <2>2. FreeAt(f, a) /\ FreeAt(f, lfree)
    BY <1>2, <1>4, <1>5, <2>1 DEF FreeAt
  <2> QED BY <2>2
<1> HIDE DEF l
<1>8. /\ Typed(h.mem) /\ Tiled(h.mem) /\ FreeAt(h.mem, h.lfree)
      /\ Merged(h.mem) /\ UsedKept(f, h.mem)
  BY <1>2, <1>4, <1>5, <1>6, <1>7, PlugHolesIs
<1> HIDE DEF h
<1>9. /\ DOMAIN live' = DOMAIN live \ {a} /\ live' \in [DOMAIN live' -> Nat]
      /\ \A x \in DOMAIN live' : live'[x] = live[x]
  BY <1>1, <1>3 DEF Dropped
<1>10. \A x \in Blocks(mem) : x \in DOMAIN mem /\ (f[x].used <=> x # a /\ mem[x].used)
  BY <1>4 DEF Blocks
<1>11. {x \in Blocks(mem') : mem'[x].used} = DOMAIN live'
  BY <1>1, <1>3, <1>4, <1>8, <1>9, <1>10 DEF UsedKept
<1>12. ASSUME NEW x \in DOMAIN live' PROVE mem'[x].next = mem[x].next
  <2>1. x \in DOMAIN live /\ x # a /\ x \in Blocks(mem) /\ mem[x].used /\ x \in DOMAIN mem
    BY <1>1, <1>9, <1>10
  <2> QED BY <1>3, <1>4, <1>8, <1>10, <2>1 DEF UsedKept
<1>13. ASSUME NEW x \in DOMAIN live' PROVE Room(mem', x) >= live'[x]
  <2>1. Room(mem', x) = Room(mem, x) /\ x \in DOMAIN live
    BY <1>9, <1>12 DEF Room
  <2> QED BY <1>1, <1>9, <2>1
<1> QED BY <1>3, <1>8, <1>9, <1>11, <1>12, <1>13 DEF Sound

(* rt_realloc to a smaller size: the rest becomes a free block.            *)
LEMMA ShrinkIs ==
  ASSUME HeapAssumption, Sound(mem, lfree, live), NEW c \in Caller, NEW a \in DOMAIN live,
         NEW n \in Nat, Shrink(c, a, n)
  PROVE  /\ Sound(mem', lfree', live') /\ DOMAIN live' = DOMAIN live
         /\ mem'[a].next = a + Header + n
         /\ \A x \in DOMAIN live : x # a => mem'[x].next = mem[x].next
<1> DEFINE b == a + Header + n  s == Split(mem, a, n)
           h == PlugHoles(Heaped(s, lfree), b)
<1>1. /\ Typed(mem) /\ Tiled(mem) /\ Merged(mem) /\ FreeAt(mem, lfree)
      /\ {x \in Blocks(mem) : mem[x].used} = DOMAIN live /\ live \in [DOMAIN live -> Nat]
      /\ \A x \in DOMAIN live : Room(mem, x) >= live[x]
  BY DEF Sound
<1>2. /\ mem' = h.mem /\ lfree' = h.lfree /\ live' = [live EXCEPT ![a] = n]
      /\ n + Header + MinSize < Room(mem, a)
  BY DEF Shrink, Shrinks
<1>3. a \in Blocks(mem) /\ mem[a].used /\ a \in Nat
  BY HeldBlocks
<1>4. n + Header <= Room(mem, a)
  <2>1. Room(mem, a) \in Nat /\ Header \in Nat /\ MinSize \in Nat
    BY <1>1, <1>3, RoomIsNat, SizeFacts
  <2> QED BY <1>2, <2>1
<1>5. Halved(mem, a, b, s) /\ Tiled(s)
  BY <1>1, <1>3, <1>4, SplitIs, SplitTiled
<1>6. b - (a + Header) = n
  BY <1>3, SizeFacts
<1> HIDE DEF b, s
<1>7. \A x \in Blocks(mem) : x \in DOMAIN mem /\ mem[x].next \in DOMAIN mem
  BY <1>1, HeadFacts
<1>8. Typed(s) /\ b \in Blocks(s) /\ ~s[b].used /\ s[b].prev = a
  BY <1>5 DEF Halved
<1>9. MergedBut(s, {s[b].prev, b})
  <2> SUFFICES ASSUME NEW x \in Blocks(s) \ {a, b}, s[x].next # End, ~s[x].used
               PROVE  s[s[x].next].used
    BY <1>8 DEF MergedBut
  <2>1. x \in Blocks(mem) /\ x # a
    BY <1>5 DEF Halved
  <2>2. s[x].next = mem[x].next /\ s[x].used = mem[x].used /\ mem[x].next \in DOMAIN mem
    BY <1>5, <1>7, <2>1 DEF Halved
  <2>3. mem[mem[x].next].used
    BY <1>1, <2>1, <2>2 DEF Merged
  <2> QED BY <1>5, <2>2, <2>3 DEF Halved
<1>10. FreeAt(s, lfree)
  BY <1>1, <1>5 DEF FreeAt, Halved
<1>11. /\ Typed(h.mem) /\ Tiled(h.mem) /\ FreeAt(h.mem, h.lfree)
       /\ Merged(h.mem) /\ UsedKept(s, h.mem)
  BY <1>5, <1>8, <1>9, <1>10, PlugHolesIs
<1> HIDE DEF h
<1>12. /\ DOMAIN live' = DOMAIN live /\ live' \in [DOMAIN live' -> Nat] /\ live'[a] = n
       /\ \A x \in DOMAIN live : x # a => live'[x] = live[x]
  BY <1>1, <1>2
<1>13. \A x \in Blocks(s) : s[x].used <=> x \in Blocks(mem) /\ mem[x].used
  BY <1>5, <1>7 DEF Halved
<1>14. \A x \in Blocks(mem) : x \in Blocks(s)
  BY <1>5 DEF Halved
<1>15. {x \in Blocks(mem') : mem'[x].used} = DOMAIN live'
  BY <1>1, <1>2, <1>11, <1>12, <1>13, <1>14 DEF UsedKept
<1>16. ASSUME NEW x \in DOMAIN live
       PROVE  mem'[x].next = IF x = a THEN b ELSE mem[x].next
  <2>1. x \in Blocks(mem) /\ mem[x].used /\ x \in DOMAIN mem
    BY <1>1, <1>7
  <2>2. mem'[x].next = s[x].next
    BY <1>2, <1>11, <1>13, <1>14, <2>1 DEF UsedKept
  <2> QED BY <1>5, <2>1, <2>2 DEF Halved
<1>17. ASSUME NEW x \in DOMAIN live' PROVE Room(mem', x) >= live'[x]
  <2>1. x \in DOMAIN live
    BY <1>12
  <2>2. CASE x = a
    BY <1>6, <1>12, <1>16, <2>1, <2>2 DEF Room
  <2>3. CASE x # a
    <3>1. Room(mem', x) = Room(mem, x)
      BY <1>16, <2>1, <2>3 DEF Room
    <3> QED BY <1>1, <1>12, <2>1, <2>3, <3>1
  <2> QED BY <2>2, <2>3
<1> QED BY <1>2, <1>11, <1>12, <1>15, <1>16, <1>17 DEF Sound, b

-----------------------------------------------------------------------------
(* used_mem: the units from the header of each block of D to the next one. *)
Cover(D, m) == UNION {x .. m[x].next - 1 : x \in D}

LEMMA CoverIsFinite ==
  ASSUME HeapAssumption, NEW m, Typed(m), Tiled(m), NEW D \in SUBSET Blocks(m)
  PROVE  IsFiniteSet(Cover(D, m)) /\ Cardinality(Cover(D, m)) \in Nat
<1>1. ASSUME NEW x \in D PROVE x .. m[x].next - 1 \subseteq 0 .. End
  <2>1. x \in Nat /\ m[x].next \in Nat /\ m[x].next <= End /\ End \in Nat
    BY HeadFacts, SizeFacts
  <2> QED BY <2>1
<1>2. Cover(D, m) \in SUBSET (0 .. End)
  BY <1>1 DEF Cover
<1>3. IsFiniteSet(0 .. End)
  <2>1. 0 \in Int /\ End \in Int
    BY SizeFacts
  <2> QED BY <2>1, FS_Interval
<1> QED BY <1>2, <1>3, FS_Subset, FS_CardinalityType

(* Blocks do not overlap, so one more adds its size.                       *)
LEMMA CoverOneMore ==
  ASSUME HeapAssumption, NEW m, Typed(m), Tiled(m), NEW D \in SUBSET Blocks(m),
         NEW a \in Blocks(m), a \notin D
  PROVE  Cardinality(Cover(D \cup {a}, m)) = Cardinality(Cover(D, m)) + (m[a].next - a)
<1> DEFINE z == m[a].next  B == a .. z - 1
<1>1. a \in Nat /\ z \in Nat /\ a < z
  BY HeadFacts
<1>2. Cover(D \cup {a}, m) = Cover(D, m) \cup B
  BY DEF Cover
<1>3. Cover(D, m) \cap B = {}
  <2> SUFFICES ASSUME NEW x \in D, NEW y \in x .. m[x].next - 1, y \in B PROVE FALSE
    BY DEF Cover
  <2>1. x \in Blocks(m) /\ x \in DOMAIN m /\ a \in DOMAIN m /\ x \in Nat /\ m[x].next \in Nat
    BY HeadFacts
  <2>2. (a <= x \/ m[x].next <= a) /\ (x <= a \/ z <= x) /\ x # a
    BY <2>1, Apart
  <2> QED BY <1>1, <2>1, <2>2
<1>4. IsFiniteSet(B) /\ Cardinality(B) = z - a
  <2>1. a \in Int /\ z - 1 \in Int /\ a <= z - 1 /\ (z - 1) - a + 1 = z - a
    BY <1>1
  <2> QED BY <2>1, FS_Interval
<1>5. IsFiniteSet(Cover(D, m)) /\ Cardinality(Cover(D, m)) \in Nat
  BY CoverIsFinite
<1> HIDE DEF B, z
<1>6. Cardinality(Cover(D, m) \cup B) =
        Cardinality(Cover(D, m)) + Cardinality(B) - Cardinality({})
  BY <1>3, <1>4, <1>5, FS_Union
<1>7. Cardinality({}) = 0
  BY FS_EmptySet
<1>8. Cardinality(Cover(D, m) \cup B) = Cardinality(Cover(D, m)) + (z - a)
  BY <1>1, <1>4, <1>5, <1>6, <1>7
<1> QED BY <1>2, <1>8 DEF z

LEMMA SameCover ==
  ASSUME NEW m, NEW j, NEW D, \A x \in D : j[x].next = m[x].next
  PROVE  Cover(D, j) = Cover(D, m)
BY DEF Cover

LEMMA AllocateCounts ==
  ASSUME HeapAssumption, Sound(mem, lfree, live), UsedExact, NEW n \in Nat, Allocate(n)
  PROVE  UsedExact'
<1> DEFINE a == Lowest(Found(mem, lfree, Larger(n, MinSize)))  D == DOMAIN live
<1>1. /\ Sound(mem', lfree', live') /\ DOMAIN live' = D \cup {a} /\ a \notin D
      /\ \A x \in D : mem'[x].next = mem[x].next
  BY AllocateIs
<1>2. usedMem' = usedMem + (mem'[a].next - a)
  BY DEF Allocate
<1> HIDE DEF a
<1>3. Typed(mem') /\ Tiled(mem') /\ D \in SUBSET Blocks(mem') /\ a \in Blocks(mem')
  BY <1>1 DEF Sound
<1>4. Cardinality(Cover(D \cup {a}, mem')) = Cardinality(Cover(D, mem')) + (mem'[a].next - a)
  BY <1>1, <1>3, CoverOneMore
<1>5. Cover(D, mem') = Cover(D, mem)
  BY <1>1, SameCover
<1>6. usedMem = Cardinality(Cover(D, mem))
  BY DEF UsedExact, UsedUnits, Cover
<1>7. usedMem' = Cardinality(Cover(DOMAIN live', mem'))
  BY <1>1, <1>2, <1>4, <1>5, <1>6
<1> QED BY <1>7 DEF UsedExact, UsedUnits, Cover

LEMMA FreeCounts ==
  ASSUME HeapAssumption, Sound(mem, lfree, live), UsedExact, NEW a \in DOMAIN live, FreeBlock(a)
  PROVE  UsedExact'
<1> DEFINE D == DOMAIN live \ {a}
<1>1. DOMAIN live' = D /\ \A x \in D : mem'[x].next = mem[x].next
  BY ReleaseIs
<1>2. usedMem' = usedMem - (mem[a].next - a)
  BY DEF FreeBlock
<1>3. /\ Typed(mem) /\ Tiled(mem) /\ D \in SUBSET Blocks(mem) /\ a \in Blocks(mem)
      /\ a \notin D /\ D \cup {a} = DOMAIN live
  BY DEF Sound
<1> HIDE DEF D
<1>4. Cardinality(Cover(D \cup {a}, mem)) = Cardinality(Cover(D, mem)) + (mem[a].next - a)
  BY <1>3, CoverOneMore
<1>5. Cover(D, mem') = Cover(D, mem)
  BY <1>1, SameCover
<1>6. usedMem = Cardinality(Cover(D \cup {a}, mem))
  BY <1>3 DEF UsedExact, UsedUnits, Cover
<1>7. Cardinality(Cover(D, mem)) \in Nat /\ a \in Nat /\ mem[a].next \in Nat
  BY <1>3, CoverIsFinite, HeadFacts
<1>8. usedMem' = Cardinality(Cover(DOMAIN live', mem'))
  BY <1>1, <1>2, <1>4, <1>5, <1>6, <1>7
<1> QED BY <1>8 DEF UsedExact, UsedUnits, Cover

LEMMA ShrinkCounts ==
  ASSUME HeapAssumption, Sound(mem, lfree, live), UsedExact, NEW c \in Caller,
         NEW a \in DOMAIN live, NEW n \in Nat, Shrink(c, a, n)
  PROVE  UsedExact'
<1> DEFINE D == DOMAIN live \ {a}
<1>1. /\ Sound(mem', lfree', live') /\ DOMAIN live' = D \cup {a}
      /\ mem'[a].next = a + Header + n /\ \A x \in D : mem'[x].next = mem[x].next
  BY ShrinkIs
<1>2. usedMem' = usedMem - (Room(mem, a) - n)
  BY DEF Shrink
<1>3. /\ Typed(mem) /\ Tiled(mem) /\ D \in SUBSET Blocks(mem) /\ a \in Blocks(mem)
      /\ a \notin D /\ D \cup {a} = DOMAIN live
  BY DEF Sound
<1>4. Typed(mem') /\ Tiled(mem') /\ D \in SUBSET Blocks(mem') /\ a \in Blocks(mem')
  BY <1>1 DEF Sound
<1> HIDE DEF D
<1>5. Cardinality(Cover(D \cup {a}, mem)) = Cardinality(Cover(D, mem)) + (mem[a].next - a)
  BY <1>3, CoverOneMore
<1>6. Cardinality(Cover(D \cup {a}, mem')) = Cardinality(Cover(D, mem')) + (mem'[a].next - a)
  BY <1>3, <1>4, CoverOneMore
<1>7. Cover(D, mem') = Cover(D, mem)
  BY <1>1, SameCover
<1>8. usedMem = Cardinality(Cover(D \cup {a}, mem))
  BY <1>3 DEF UsedExact, UsedUnits, Cover
<1>9. /\ Cardinality(Cover(D, mem)) \in Nat /\ a \in Nat /\ Header \in Nat
      /\ Room(mem, a) \in Nat /\ mem[a].next = a + Header + Room(mem, a)
  BY <1>3, CoverIsFinite, HeadFacts, RoomIsNat, SizeFacts
<1>10. usedMem' = Cardinality(Cover(DOMAIN live', mem'))
  BY <1>1, <1>2, <1>5, <1>6, <1>7, <1>8, <1>9
<1> QED BY <1>10 DEF UsedExact, UsedUnits, Cover

-----------------------------------------------------------------------------
(* A block that is being reallocated is held, and by one caller.           *)
Growth ==
  /\ doing \in [Caller -> {"app", "grow_alloc", "grow_free"}]
  /\ growing \in [Caller -> [old : Address, size : 0 .. MemSize, new : Address]]
  /\ \A c \in Caller : doing[c] # "app" => growing[c].old \in DOMAIN live
  /\ \A c, d \in Caller :
       c # d /\ doing[c] # "app" /\ doing[d] # "app" => growing[c].old # growing[d].old

HeapInv == Sound(mem, lfree, live) /\ Growth

LEMMA HeapSuffices == HeapInv => HeapTiled
BY DEF HeapInv, Sound, HeapTiled, Owned, FreeAt

LEMMA HeapInitInv ==
  ASSUME HeapAssumption, HeapInit
  PROVE  HeapInv
<1>1. /\ DOMAIN mem = {0, End} /\ 0 # End
      /\ mem[0] = Link(End, 0, FALSE) /\ mem[End] = Link(End, End, TRUE)
  <2>1. 0 # End
    BY SizeFacts
  <2> HIDE DEF End
  <2> QED BY <2>1, Zenon DEF HeapInit
<1>2. Link(End, 0, FALSE) \in LinkType /\ Link(End, End, TRUE) \in LinkType
  BY SizeFacts DEF Link, LinkType
<1>3. Typed(mem)
  <2>1. mem \in [{0, End} -> LinkType]
    BY <1>1, <1>2 DEF HeapInit
  <2> QED BY <1>1, <2>1, SizeFacts DEF Typed
<1>4. /\ mem[0].next = End /\ mem[0].prev = 0 /\ mem[0].used = FALSE
      /\ Blocks(mem) = {0}
  BY <1>1 DEF Link, Blocks
<1>5. Tiled(mem)
  <2>1. 0 + Header <= End /\ \A b \in {0, End} : b <= 0 \/ End <= b
    BY SizeFacts
  <2> QED BY <1>1, <1>4, <2>1 DEF Tiled
<1>6. Merged(mem) /\ FreeAt(mem, lfree)
  BY <1>1, <1>4 DEF Merged, FreeAt, HeapInit
<1>7. DOMAIN live = {} /\ live \in [DOMAIN live -> Nat]
  BY DEF HeapInit
<1>8. Sound(mem, lfree, live)
  BY <1>3, <1>4, <1>5, <1>6, <1>7 DEF Sound
<1>9. Growth
  <2>1. 0 \in 0 .. MemSize /\ NoBlock \in Address
    BY SizeFacts
  <2> QED BY <2>1 DEF HeapInit, Growth, NotGrowing
<1> QED BY <1>8, <1>9 DEF HeapInv

LEMMA HeapNextInv ==
  ASSUME HeapAssumption, HeapInv, [HeapNext]_heapVars
  PROVE  HeapInv'
<1>1. /\ Sound(mem, lfree, live) /\ Growth
      /\ Request \subseteq 0 .. MemSize /\ MemSize \in Nat /\ Request \subseteq Nat
  BY DEF HeapInv, HeapAssumption
<1>2. ASSUME NEW c \in Caller, NEW n \in Request, Malloc(c, n) PROVE HeapInv'
  <2>1. n \in Nat /\ Allocate(n) /\ UNCHANGED <<doing, growing>>
    BY <1>1, <1>2 DEF Malloc
  <2>2. Sound(mem', lfree', live') /\ DOMAIN live \subseteq DOMAIN live'
    BY <1>1, <2>1, AllocateIs
  <2> QED BY <1>1, <2>1, <2>2 DEF HeapInv, Growth
<1>3. ASSUME NEW c \in Caller, NEW a \in DOMAIN live, Free(c, a) PROVE HeapInv'
  <2>1. FreeBlock(a) /\ UNCHANGED <<doing, growing>> /\ \A d \in Caller : a # growing[d].old
    BY <1>3 DEF Free, Usable
  <2>2. Sound(mem', lfree', live') /\ DOMAIN live' = DOMAIN live \ {a}
    BY <1>1, <2>1, ReleaseIs
  <2> QED BY <1>1, <2>1, <2>2 DEF HeapInv, Growth
<1>4. ASSUME NEW c \in Caller, NEW a \in DOMAIN live, Same(c, a) PROVE HeapInv'
  <2>1. /\ live' = [live EXCEPT ![a] = Room(mem, a)]
        /\ UNCHANGED <<mem, lfree, usedMem, doing, growing>>
    BY <1>4 DEF Same
  <2>2. a \in Blocks(mem) /\ Typed(mem) /\ Tiled(mem)
    BY <1>1, HeldBlocks DEF Sound
  <2>3. Room(mem, a) \in Nat
    BY <2>2, RoomIsNat
  <2>4. /\ DOMAIN live' = DOMAIN live /\ live'[a] = Room(mem, a)
        /\ \A x \in DOMAIN live : x # a => live'[x] = live[x]
    BY <2>1
  <2>5. live' \in [DOMAIN live' -> Nat]
    BY <1>1, <2>1, <2>3, <2>4 DEF Sound
  <2>6. \A x \in DOMAIN live' : Room(mem, x) >= live'[x]
    BY <1>1, <2>3, <2>4 DEF Sound
  <2>7. Sound(mem', lfree', live')
    BY <1>1, <2>1, <2>4, <2>5, <2>6 DEF Sound
  <2> QED BY <1>1, <2>1, <2>4, <2>7 DEF HeapInv, Growth
<1>5. ASSUME NEW c \in Caller, NEW a \in DOMAIN live, NEW n \in Request, Shrink(c, a, n)
      PROVE  HeapInv'
  <2>1. Sound(mem', lfree', live') /\ DOMAIN live' = DOMAIN live
    BY <1>1, <1>5, ShrinkIs
  <2>2. UNCHANGED <<doing, growing>>
    BY <1>5 DEF Shrink
  <2> QED BY <1>1, <2>1, <2>2 DEF HeapInv, Growth
<1>6. ASSUME NEW c \in Caller, NEW a \in DOMAIN live, NEW n \in Request, Grow(c, a, n)
      PROVE  HeapInv'
  <2>1. /\ doing' = [doing EXCEPT ![c] = "grow_alloc"]
        /\ growing' = [growing EXCEPT ![c] = [old |-> a, size |-> n, new |-> NoBlock]]
        /\ UNCHANGED <<mem, lfree, usedMem, live>>
        /\ \A d \in Caller : a # growing[d].old
    BY <1>6 DEF Grow, Usable
  <2>2. a \in Address /\ NoBlock \in Address /\ n \in 0 .. MemSize
    BY <1>1, HeldBlocks, SizeFacts
  <2>3. Growth'
    BY <1>1, <2>1, <2>2 DEF Growth
  <2> QED BY <1>1, <2>1, <2>3 DEF HeapInv
<1>7. ASSUME NEW c \in Caller, GrowAlloc(c) PROVE HeapInv'
  <2> DEFINE n == growing[c].size  a == Lowest(Found(mem, lfree, Larger(n, MinSize)))
  <2>1. /\ doing[c] = "grow_alloc" /\ Allocate(n) /\ doing' = [doing EXCEPT ![c] = "grow_free"]
        /\ growing' = [growing EXCEPT ![c].new = a]
    BY <1>7 DEF GrowAlloc
  <2>2. n \in Nat
    BY <1>1 DEF Growth
  <2>3. /\ Sound(mem', lfree', live') /\ a \in Address /\ DOMAIN live \subseteq DOMAIN live'
    BY <1>1, <2>1, <2>2, AllocateIs
  <2> HIDE DEF n, a
  <2>4. \A d \in Caller : growing'[d].old = growing[d].old
    BY <1>1, <2>1 DEF Growth
  <2>5. growing' \in [Caller -> [old : Address, size : 0 .. MemSize, new : Address]]
    BY <1>1, <2>1, <2>3 DEF Growth
  <2>6. /\ doing' \in [Caller -> {"app", "grow_alloc", "grow_free"}]
        /\ \A d \in Caller : doing'[d] # "app" => doing[d] # "app"
    BY <1>1, <2>1 DEF Growth
  <2>7. Growth'
    BY <1>1, <2>3, <2>4, <2>5, <2>6 DEF Growth
  <2> QED BY <2>3, <2>7 DEF HeapInv
<1>8. ASSUME NEW c \in Caller, GrowFails(c) PROVE HeapInv'
  <2>1. /\ doing' = [doing EXCEPT ![c] = "app"] /\ growing' = [growing EXCEPT ![c] = NotGrowing]
        /\ UNCHANGED <<mem, lfree, usedMem, live>>
    BY <1>8 DEF GrowFails
  <2>2. NotGrowing \in [old : Address, size : 0 .. MemSize, new : Address]
    BY <1>1, SizeFacts DEF NotGrowing
  <2>3. Growth'
    BY <1>1, <2>1, <2>2 DEF Growth
  <2> QED BY <1>1, <2>1, <2>3 DEF HeapInv
<1>9. ASSUME NEW c \in Caller, GrowFree(c) PROVE HeapInv'
  <2> DEFINE a == growing[c].old
  <2>1. /\ doing[c] = "grow_free" /\ FreeBlock(a) /\ doing' = [doing EXCEPT ![c] = "app"]
        /\ growing' = [growing EXCEPT ![c] = NotGrowing]
    BY <1>9 DEF GrowFree
  <2>2. a \in DOMAIN live
    BY <1>1, <2>1 DEF Growth
  <2>3. Sound(mem', lfree', live') /\ DOMAIN live' = DOMAIN live \ {a}
    BY <1>1, <2>1, <2>2, ReleaseIs
  <2>4. NotGrowing \in [old : Address, size : 0 .. MemSize, new : Address]
    BY <1>1, SizeFacts DEF NotGrowing
  <2>5. \A d \in Caller : d # c /\ doing[d] # "app" => growing[d].old # a
    BY <1>1, <2>1 DEF Growth
  <2> HIDE DEF a
  <2>6. Growth'
    BY <1>1, <2>1, <2>3, <2>4, <2>5 DEF Growth
  <2> QED BY <2>3, <2>6 DEF HeapInv
<1>10. CASE UNCHANGED heapVars
  BY <1>1, <1>10 DEF HeapInv, Growth, heapVars
<1> QED BY <1>2, <1>3, <1>4, <1>5, <1>6, <1>7, <1>8, <1>9, <1>10 DEF HeapNext

(* Every byte of the heap belongs to one block, free blocks are merged,    *)
(* and the used ones are those the callers hold, whatever they allocate,   *)
(* free and reallocate and however the steps of a realloc are interleaved  *)
(* with other calls.                                                       *)
THEOREM HeapTiles ==
  ASSUME HeapAssumption
  PROVE  HeapSpec => []HeapTiled
<1>1. HeapInit => HeapInv
  BY HeapInitInv
<1>2. HeapInv /\ [HeapNext]_heapVars => HeapInv'
  BY HeapNextInv
<1>3. HeapInv => HeapTiled
  BY HeapSuffices
<1> QED BY <1>1, <1>2, <1>3, PTL DEF HeapSpec

(* used_mem is the size of the blocks the callers hold (mem.c:300-341,     *)
(* 446-450, 548).                                                          *)
THEOREM UsedCounted ==
  ASSUME HeapAssumption
  PROVE  HeapSpec => []UsedExact
<1>1. HeapInit => HeapInv /\ UsedExact
  <2> SUFFICES ASSUME HeapInit PROVE HeapInv /\ UsedExact
    OBVIOUS
  <2>1. usedMem = 0 /\ DOMAIN live = {}
    BY DEF HeapInit
  <2>2. UsedUnits = Cardinality({})
    BY <2>1 DEF UsedUnits
  <2> QED BY <2>1, <2>2, HeapInitInv, FS_EmptySet DEF UsedExact
<1>2. HeapInv /\ UsedExact /\ [HeapNext]_heapVars => HeapInv' /\ UsedExact'
  <2> SUFFICES ASSUME HeapInv, UsedExact, [HeapNext]_heapVars PROVE UsedExact'
    BY HeapNextInv
  <2>1. Sound(mem, lfree, live) /\ Growth /\ Request \subseteq Nat
    BY DEF HeapInv, HeapAssumption
  <2>2. ASSUME NEW n \in Nat, Allocate(n) PROVE UsedExact'
    BY <2>1, <2>2, AllocateCounts
  <2>3. ASSUME NEW a \in DOMAIN live, FreeBlock(a) PROVE UsedExact'
    BY <2>1, <2>3, FreeCounts
  <2>4. ASSUME DOMAIN live' = DOMAIN live, UNCHANGED <<mem, usedMem>> PROVE UsedExact'
    BY <2>4 DEF UsedExact, UsedUnits
  <2>5. ASSUME NEW c \in Caller, NEW n \in Request, Malloc(c, n) PROVE UsedExact'
    BY <2>1, <2>2, <2>5 DEF Malloc
  <2>6. ASSUME NEW c \in Caller, NEW a \in DOMAIN live, Free(c, a) PROVE UsedExact'
    BY <2>3, <2>6 DEF Free
  <2>7. ASSUME NEW c \in Caller, NEW a \in DOMAIN live, Same(c, a) PROVE UsedExact'
    BY <2>4, <2>7 DEF Same
  <2>8. ASSUME NEW c \in Caller, NEW a \in DOMAIN live, NEW n \in Request, Shrink(c, a, n)
        PROVE  UsedExact'
    BY <2>1, <2>8, ShrinkCounts
  <2>9. ASSUME NEW c \in Caller, NEW a \in DOMAIN live, NEW n \in Request, Grow(c, a, n)
        PROVE  UsedExact'
    BY <2>4, <2>9 DEF Grow
  <2>10. ASSUME NEW c \in Caller, GrowAlloc(c) PROVE UsedExact'
    <3>1. growing[c].size \in Nat
      BY <2>1 DEF Growth
    <3> QED BY <2>2, <2>10, <3>1 DEF GrowAlloc
  <2>11. ASSUME NEW c \in Caller, GrowFails(c) PROVE UsedExact'
    BY <2>4, <2>11 DEF GrowFails
  <2>12. ASSUME NEW c \in Caller, GrowFree(c) PROVE UsedExact'
    <3>1. growing[c].old \in DOMAIN live
      BY <2>1, <2>12 DEF GrowFree, Growth
    <3> QED BY <2>3, <2>12, <3>1 DEF GrowFree
  <2>13. CASE UNCHANGED heapVars
    BY <2>4, <2>13 DEF heapVars
  <2> QED BY <2>5, <2>6, <2>7, <2>8, <2>9, <2>10, <2>11, <2>12, <2>13 DEF HeapNext
<1> QED BY <1>1, <1>2, PTL DEF HeapSpec


-----------------------------------------------------------------------------
(* Ticks.  Seen from the present tick, a timer expires in Dist ticks, or   *)
(* expired -Dist ticks ago.                                                *)

Dist(now, x) == LET d == Ahead(now, x) IN IF d < Half THEN d ELSE d - TickMod

LEMMA TickSizes ==
  ASSUME TimersAssumption
  PROVE  /\ TickMod \in Nat \ {0} /\ TickMax \in Nat /\ TickMod = TickMax + 1
         /\ Half \in Nat /\ 2 * Half <= TickMax /\ TickMax <= 2 * Half + 1
BY DEF TimersAssumption, TickMax, Half

LEMMA AheadIs ==
  ASSUME TimersAssumption, NEW a \in 0 .. TickMax, NEW b \in 0 .. TickMax
  PROVE  /\ Ahead(a, b) \in 0 .. TickMax
         /\ Ahead(a, b) = IF b >= a THEN b - a ELSE b - a + TickMod
<1>1. CASE b >= a
  <2>1. b - a \in 0 .. TickMod - 1
    BY <1>1, TickSizes
  <2> QED BY <1>1, <2>1, NoLap, TickSizes DEF Ahead
<1>2. CASE b < a
  <2>1. b - a + TickMod \in 0 .. TickMod - 1 /\ b - a = (-1) * TickMod + (b - a + TickMod)
    BY <1>2, TickSizes
  <2> DEFINE r == b - a + TickMod
  <2>2. TickMod \in Nat /\ TickMod > 0 /\ -1 \in Int /\ r \in 0 .. TickMod - 1
    BY <2>1, TickSizes
  <2> HIDE DEF r
  <2>3. ((-1) * TickMod + r) % TickMod = r
    BY <2>2, Remainder
  <2>4. (b - a) % TickMod = b - a + TickMod
    BY <2>1, <2>3 DEF r
  <2> QED BY <1>2, <2>1, <2>4, TickSizes DEF Ahead
<1> QED BY <1>1, <1>2

(* Half a turn, no more, separates the ticks that are compared.            *)
Window(lo, hi) ==
  lo \in Int /\ hi \in Int /\ lo <= 1 /\ hi - lo < Half /\ -Half < lo /\ hi < Half

LEMMA DistRange ==
  ASSUME TimersAssumption, NEW now \in 0 .. TickMax, NEW x \in 0 .. TickMax
  PROVE  Dist(now, x) \in Int
BY AheadIs, TickSizes DEF Dist

LEMMA CompareTicks ==
  ASSUME TimersAssumption, NEW now \in 0 .. TickMax, NEW lo, NEW hi, Window(lo, hi),
         NEW a \in 0 .. TickMax, NEW b \in 0 .. TickMax,
         Dist(now, a) \in lo .. hi, Dist(now, b) \in lo .. hi
  PROVE  /\ Ahead(a, b) < Half <=> Dist(now, a) <= Dist(now, b)
         /\ Ahead(a, b) \in 1 .. Half - 1 <=> Dist(now, a) < Dist(now, b)
<1>1. /\ Ahead(a, b) = IF b >= a THEN b - a ELSE b - a + TickMod
      /\ Ahead(now, a) = IF a >= now THEN a - now ELSE a - now + TickMod
      /\ Ahead(now, b) = IF b >= now THEN b - now ELSE b - now + TickMod
  BY AheadIs
<1> QED BY <1>1, TickSizes DEF Dist, Window

LEMMA DueIs ==
  ASSUME TimersAssumption, NEW now \in 0 .. TickMax, NEW lo, NEW hi, Window(lo, hi),
         NEW a \in 0 .. TickMax, Dist(now, a) \in lo .. hi
  PROVE  Ahead(a, now) < Half <=> Dist(now, a) <= 0
<1>1. /\ Ahead(a, now) = IF now >= a THEN now - a ELSE now - a + TickMod
      /\ Ahead(now, a) = IF a >= now THEN a - now ELSE a - now + TickMod
  BY AheadIs
<1> QED BY <1>1, TickSizes DEF Dist, Window

LEMMA NextTick ==
  ASSUME TimersAssumption, NEW now \in 0 .. TickMax
  PROVE  /\ (now + 1) % TickMod \in 0 .. TickMax
         /\ (now + 1) % TickMod = IF now = TickMax THEN 0 ELSE now + 1
<1>1. CASE now = TickMax
  BY <1>1, OneLap, TickSizes
<1>2. CASE now # TickMax
  BY <1>2, NoLap, TickSizes
<1> QED BY <1>1, <1>2, TickSizes

LEMMA DistTick ==
  ASSUME TimersAssumption, NEW now \in 0 .. TickMax, NEW a \in 0 .. TickMax,
         -Half < Dist(now, a)
  PROVE  Dist((now + 1) % TickMod, a) = Dist(now, a) - 1
<1> DEFINE n == (now + 1) % TickMod
<1>1. n \in 0 .. TickMax /\ n = IF now = TickMax THEN 0 ELSE now + 1
  BY NextTick
<1> HIDE DEF n
<1>2. /\ Ahead(n, a) = IF a >= n THEN a - n ELSE a - n + TickMod
      /\ Ahead(now, a) = IF a >= now THEN a - now ELSE a - now + TickMod
  BY <1>1, AheadIs
<1>3. Dist(n, a) = Dist(now, a) - 1
  BY <1>1, <1>2, TickSizes DEF Dist
<1> QED BY <1>3 DEF n

LEMMA DistStamp ==
  ASSUME TimersAssumption, NEW now \in 0 .. TickMax, NEW d \in 0 .. Half - 1
  PROVE  /\ (now + d) % TickMod \in 0 .. TickMax
         /\ Dist(now, (now + d) % TickMod) = d
<1> DEFINE n == (now + d) % TickMod
<1>1. n \in 0 .. TickMax /\ n = IF now + d >= TickMod THEN now + d - TickMod ELSE now + d
  <2>1. CASE now + d >= TickMod
    <3> DEFINE e == now + d
    <3>1. e \in TickMod .. 2 * TickMod - 1 /\ TickMod \in Nat
      BY <2>1, TickSizes
    <3>2. n = e % TickMod
      OBVIOUS
    <3> HIDE DEF e
    <3>3. e % TickMod = e - TickMod
      BY <3>1, OneLap
    <3> QED BY <2>1, <3>1, <3>2, <3>3, TickSizes DEF e
  <2>2. CASE now + d < TickMod
    <3>1. now + d \in 0 .. TickMod - 1 /\ TickMod \in Nat
      BY <2>2, TickSizes
    <3>2. n = now + d
      BY <3>1, NoLap
    <3> QED BY <2>2, <3>1, <3>2, TickSizes
  <2> QED BY <2>1, <2>2, TickSizes
<1> HIDE DEF n
<1>2. Ahead(now, n) = IF n >= now THEN n - now ELSE n - now + TickMod
  BY <1>1, AheadIs
<1>3. Dist(now, n) = d
  BY <1>1, <1>2, TickSizes DEF Dist
<1> QED BY <1>1, <1>3 DEF n

-----------------------------------------------------------------------------
(* The lists                                                               *)

TimerLists == {"hard", "soft"}

Offs(u, now) == [x \in Timer |-> Dist(now, u.timeout[x])]

(* The lists of u are sorted, each timer is in its own, once, and expires  *)
(* in lo to hi ticks.                                                      *)
ListsIn(u, now, lo, hi) ==
  /\ u \in Memory
  /\ \A l \in TimerLists :
       /\ Injective(u.list[l]) /\ Sorted(u.list[l], Offs(u, now))
       /\ \A x \in Timer :
            IsIn(u.list[l], x) => ListOf(x) = l /\ Dist(now, u.timeout[x]) \in lo .. hi

LEMMA OwnList ==
  ASSUME NEW u \in Memory, NEW t \in Timer
  PROVE  /\ ListOf(t) \in TimerLists /\ u.list[ListOf(t)] \in Seq(Timer)
         /\ u.list \in [TimerLists -> Seq(Timer)]
BY DEF Memory, ListOf, TimerLists

LEMMA OffsAreInt ==
  ASSUME TimersAssumption, NEW u \in Memory, NEW now \in 0 .. TickMax
  PROVE  /\ Offs(u, now) \in [Timer -> Int]
         /\ \A x \in Timer : u.timeout[x] \in 0 .. TickMax
                              /\ Offs(u, now)[x] = Dist(now, u.timeout[x])
<1>1. ASSUME NEW x \in Timer PROVE u.timeout[x] \in 0 .. TickMax
  BY DEF Memory
<1> QED BY <1>1, DistRange DEF Offs

(* The other fields do not matter to the lists.                            *)
LEMMA SameLists ==
  ASSUME NEW u, NEW now, NEW lo, NEW hi, ListsIn(u, now, lo, hi),
         NEW v \in Memory, v.list = u.list, v.timeout = u.timeout
  PROVE  ListsIn(v, now, lo, hi) /\ \A x : Linked(v, x) <=> Linked(u, x)
BY DEF ListsIn, Offs, Linked

(* What is linked in v was linked in u or is in A; the timers out of A     *)
(* expire when they did.                                                   *)
Moves(u, v, A, now, lo, hi) ==
  /\ ListsIn(v, now, lo, hi)
  /\ \A x \in Timer : Linked(v, x) => Linked(u, x) \/ x \in A
  /\ \A x \in Timer \ A : v.timeout[x] = u.timeout[x]
  /\ v.init = u.init /\ v.periodic = u.periodic
  /\ u.ready => v.ready

(* The timer of the timer thread stays in its list unless the thread is woken. *)
Keeps(u, v) == v.ready \/ (Linked(u, ThreadTimer) => Linked(v, ThreadTimer))

LEMMA KeepsTwice ==
  ASSUME NEW u, NEW v, NEW w, Keeps(u, v), Keeps(v, w), v.ready => w.ready
  PROVE  Keeps(u, w)
BY DEF Keeps

LEMMA MovesTwice ==
  ASSUME NEW u, NEW v, NEW w, NEW A, NEW now, NEW lo, NEW hi,
         Moves(u, v, A, now, lo, hi), Moves(v, w, A, now, lo, hi)
  PROVE  Moves(u, w, A, now, lo, hi)
BY DEF Moves

LEMMA MovesMore ==
  ASSUME NEW u, NEW v, NEW A, NEW B, A \subseteq B, NEW now, NEW lo, NEW hi,
         Moves(u, v, A, now, lo, hi)
  PROVE  Moves(u, v, B, now, lo, hi)
BY DEF Moves

LEMMA RemoveMoves ==
  ASSUME TimersAssumption, NEW u, NEW now, NEW lo, NEW hi, ListsIn(u, now, lo, hi), NEW t \in Timer
  PROVE  /\ Moves(u, TimerRemove(u, t), {}, now, lo, hi)
         /\ ~Linked(TimerRemove(u, t), t)
         /\ \A x \in Timer : Linked(u, x) /\ x # t => Linked(TimerRemove(u, t), x)
         /\ t # ThreadTimer => Keeps(u, TimerRemove(u, t))
<1> DEFINE L == ListOf(t)
           s == u.list[L]
           d == Drop(s, t)
           v == TimerRemove(u, t)
<1>1. u \in Memory /\ L \in TimerLists /\ s \in Seq(Timer) /\ Injective(s)
      /\ Sorted(s, Offs(u, now)) /\ u.list \in [TimerLists -> Seq(Timer)]
  BY OwnList DEF ListsIn
<1>2. /\ d \in Seq(Timer) /\ Injective(d)
      /\ \A x : IsIn(d, x) <=> IsIn(s, x) /\ x # t
  BY <1>1, DropProperties
<1>3. Sorted(d, Offs(u, now))
  BY <1>1, SortedDrop
<1>4. /\ v.list = [u.list EXCEPT ![L] = d] /\ v.timeout = u.timeout
      /\ v.init = u.init /\ v.ready = u.ready /\ v.active = u.active
      /\ v.periodic = u.periodic
      /\ v = [list |-> v.list, active |-> v.active, periodic |-> v.periodic,
              timeout |-> v.timeout, init |-> v.init, ready |-> v.ready]
  <2>1. v = [u EXCEPT !.list[L] = d]
    BY DEF TimerRemove
  <2> HIDE DEF v, d
  <2> QED BY <1>1, <2>1 DEF Memory
<1> HIDE DEF v, d
<1>5. v.list \in [TimerLists -> Seq(Timer)] /\ v.list[L] = d
      /\ \A l \in TimerLists : l # L => v.list[l] = u.list[l]
  BY <1>1, <1>2, <1>4
<1>6. v \in Memory
  BY <1>1, <1>4, <1>5 DEF Memory, TimerLists
<1>7. Offs(v, now) = Offs(u, now)
  BY <1>4 DEF Offs
<1>8. ASSUME NEW l \in TimerLists
      PROVE  /\ Injective(v.list[l]) /\ Sorted(v.list[l], Offs(v, now))
             /\ \A x : IsIn(v.list[l], x) => IsIn(u.list[l], x)
  <2>1. CASE l = L
    BY <2>1, <1>2, <1>3, <1>5, <1>7
  <2>2. CASE l # L
    BY <2>2, <1>5, <1>7 DEF ListsIn
  <2> QED BY <2>1, <2>2
<1>9. ListsIn(v, now, lo, hi)
  BY <1>4, <1>6, <1>8 DEF ListsIn
<1>10. \A x \in Timer : Linked(v, x) => Linked(u, x)
  BY <1>6, <1>8, OwnList DEF Linked
<1>11. ~Linked(v, t)
  BY <1>2, <1>5 DEF Linked
<1>12. ASSUME NEW x \in Timer, Linked(u, x), x # t PROVE Linked(v, x)
  <2>1. CASE ListOf(x) = L
    BY <2>1, <1>2, <1>5, <1>12 DEF Linked
  <2>2. CASE ListOf(x) # L
    BY <2>2, <1>1, <1>5, <1>12, OwnList DEF Linked
  <2> QED BY <2>1, <2>2
<1>13. t # ThreadTimer => Keeps(u, v)
  BY <1>12 DEF Keeps, TimersAssumption
<1> QED BY <1>4, <1>9, <1>10, <1>11, <1>12, <1>13 DEF Moves, v

LEMMA ClearMoves ==
  ASSUME NEW u, NEW now, NEW lo, NEW hi, ListsIn(u, now, lo, hi), NEW t
  PROVE  /\ Moves(u, Clear(u, t), {}, now, lo, hi)
         /\ \A x : Linked(Clear(u, t), x) <=> Linked(u, x)
         /\ Keeps(u, Clear(u, t))
<1> DEFINE v == Clear(u, t)
<1>1. u \in Memory
  BY DEF ListsIn
<1>2. /\ v \in Memory /\ v.list = u.list /\ v.timeout = u.timeout
      /\ v.init = u.init /\ v.ready = u.ready /\ v.periodic = u.periodic
  BY <1>1 DEF Clear, Memory
<1> HIDE DEF v
<1>3. ListsIn(v, now, lo, hi) /\ \A x : Linked(v, x) <=> Linked(u, x)
  BY <1>2, SameLists
<1> QED BY <1>2, <1>3 DEF Moves, Keeps, v

(* A timer may be stamped while it is in no list.                          *)
LEMMA StampMoves ==
  ASSUME TimersAssumption, tick \in 0 .. TickMax,
         NEW u, NEW lo, NEW hi, ListsIn(u, tick, lo, hi),
         NEW t \in Timer, ~Linked(u, t), u.init[t] \in 0 .. Half - 1
  PROVE  /\ Moves(u, Stamp(u, t), {t}, tick, lo, hi)
         /\ ~Linked(Stamp(u, t), t)
         /\ Dist(tick, Stamp(u, t).timeout[t]) = u.init[t]
         /\ Stamp(u, t).timeout[t] = (tick + u.init[t]) % TickMod
         /\ Keeps(u, Stamp(u, t))
<1> DEFINE v == Stamp(u, t)
           e == (tick + u.init[t]) % TickMod
<1>1. u \in Memory
  BY DEF ListsIn
<1>2. e \in 0 .. TickMax /\ Dist(tick, e) = u.init[t]
  BY DistStamp
<1>3. /\ v \in Memory /\ v.list = u.list /\ v.timeout = [u.timeout EXCEPT ![t] = e]
      /\ v.init = u.init /\ v.ready = u.ready /\ v.periodic = u.periodic
  <2> HIDE DEF e
  <2>1. v = [u EXCEPT !.timeout[t] = e]
    BY DEF Stamp, e
  <2> HIDE DEF v
  <2> QED BY <1>1, <1>2, <2>1 DEF Memory
<1>0. e = (tick + u.init[t]) % TickMod
  OBVIOUS
<1> HIDE DEF v, e
<1>4. \A x \in Timer : v.timeout[x] = IF x = t THEN e ELSE u.timeout[x]
  BY <1>1, <1>3 DEF Memory
<1>5. \A x : Linked(v, x) <=> Linked(u, x)
  BY <1>3 DEF Linked
<1>6. ASSUME NEW l \in TimerLists, NEW x \in Timer, IsIn(u.list[l], x)
      PROVE  x # t
  BY <1>6 DEF ListsIn, Linked
<1>7. ASSUME NEW l \in TimerLists
      PROVE  /\ Injective(v.list[l]) /\ Sorted(v.list[l], Offs(v, tick))
             /\ \A x \in Timer : IsIn(v.list[l], x) =>
                  ListOf(x) = l /\ Dist(tick, v.timeout[x]) \in lo .. hi
  <2>1. u.list[l] \in Seq(Timer) /\ Injective(u.list[l]) /\ Sorted(u.list[l], Offs(u, tick))
    BY <1>1 DEF ListsIn, Memory, TimerLists
  <2> DEFINE s == u.list[l]
  <2>2. \A i \in DOMAIN s : s[i] \in Timer /\ s[i] # t
    BY <1>6, <2>1 DEF IsIn
  <2>3. \A i \in DOMAIN s : Offs(v, tick)[s[i]] = Offs(u, tick)[s[i]]
    BY <1>4, <2>2 DEF Offs
  <2>4. Sorted(s, Offs(v, tick))
    BY <2>1, <2>3 DEF Sorted
  <2> QED BY <1>3, <1>4, <1>6, <2>1, <2>4 DEF ListsIn
<1>8. ListsIn(v, tick, lo, hi)
  BY <1>3, <1>7 DEF ListsIn
<1>9. v.timeout[t] = e
  BY <1>4
<1> QED BY <1>0, <1>2, <1>3, <1>4, <1>5, <1>8, <1>9 DEF Moves, Keeps, v

(* rt_timer_start links a timer before those that expire later.            *)
LEMMA PlaceIs ==
  ASSUME TimersAssumption, NEW now \in 0 .. TickMax, NEW lo, NEW hi, Window(lo, hi),
         NEW u, ListsIn(u, now, lo, hi), NEW t \in Timer,
         Dist(now, u.timeout[t]) \in lo .. hi
  PROVE  LET s == u.list[ListOf(t)]
             n == Place(u, s, t)
         IN  /\ n \in 1 .. Len(s) + 1
             /\ \A i \in 1 .. Len(s) : i < n => Offs(u, now)[s[i]] <= Offs(u, now)[t]
             /\ n = Len(s) + 1 \/ Offs(u, now)[t] <= Offs(u, now)[s[n]]
<1> DEFINE s == u.list[ListOf(t)]
           S == {i \in 1 .. Len(s) + 1 : i = Len(s) + 1 \/ Later(u, t, s[i])}
           n == Place(u, s, t)
           key == Offs(u, now)
<1>1. u \in Memory /\ s \in Seq(Timer) /\ Len(s) \in Nat /\ ListOf(t) \in TimerLists
  BY OwnList DEF ListsIn
<1>2. n = LeastOf(S) /\ S \in SUBSET Nat /\ Len(s) + 1 \in S
  BY <1>1 DEF Place
<1>3. n \in S /\ \A i \in S : n <= i
  <2> HIDE DEF S, n
  <2> QED BY <1>2, LeastExists
<1>4. ASSUME NEW i \in 1 .. Len(s)
      PROVE  /\ s[i] \in Timer /\ key[s[i]] \in Int /\ key[t] \in Int
             /\ Later(u, t, s[i]) <=> key[t] < key[s[i]]
  <2>1. s[i] \in Timer /\ IsIn(s, s[i])
    BY <1>1 DEF IsIn
  <2>2. Dist(now, u.timeout[s[i]]) \in lo .. hi
    BY <1>1, <2>1 DEF ListsIn
  <2>3. /\ u.timeout[t] \in 0 .. TickMax /\ u.timeout[s[i]] \in 0 .. TickMax
        /\ key[t] = Dist(now, u.timeout[t]) /\ key[s[i]] = Dist(now, u.timeout[s[i]])
        /\ key[t] \in Int /\ key[s[i]] \in Int
    BY <1>1, <2>1, OffsAreInt
  <2> HIDE DEF key, s
  <2>4. Ahead(u.timeout[t], u.timeout[s[i]]) \in 1 .. Half - 1 <=> key[t] < key[s[i]]
    BY <2>2, <2>3, CompareTicks
  <2> QED BY <2>1, <2>3, <2>4 DEF Later
<1> HIDE DEF key, n
<1>5. n \in 1 .. Len(s) + 1 /\ (n = Len(s) + 1 \/ Later(u, t, s[n]))
  BY <1>3
<1>6. ASSUME NEW i \in 1 .. Len(s), i < n PROVE key[s[i]] <= key[t]
  <2>1. ~Later(u, t, s[i])
    <3>1. i \in 1 .. Len(s) + 1 /\ n \in Int /\ i \in Int
      BY <1>1, <1>5
    <3>2. i \notin S
      BY <1>3, <1>6, <3>1
    <3> QED BY <3>1, <3>2
  <2> QED BY <1>4, <2>1
<1>7. n = Len(s) + 1 \/ key[t] <= key[s[n]]
  <2> SUFFICES ASSUME n # Len(s) + 1 PROVE key[t] <= key[s[n]]
    OBVIOUS
  <2>1. n \in 1 .. Len(s)
    BY <1>1, <1>5
  <2> QED BY <1>4, <1>5, <2>1
<1> QED BY <1>5, <1>6, <1>7 DEF n, key

LEMMA InsertMoves ==
  ASSUME TimersAssumption, NEW now \in 0 .. TickMax, NEW lo, NEW hi, Window(lo, hi),
         NEW u, ListsIn(u, now, lo, hi), NEW t \in Timer, ~Linked(u, t),
         Dist(now, u.timeout[t]) \in lo .. hi
  PROVE  /\ Moves(u, Insert(u, t), {t}, now, lo, hi)
         /\ Insert(u, t).timeout = u.timeout
         /\ \A x \in Timer : Linked(u, x) \/ x = t => Linked(Insert(u, t), x)
         /\ Keeps(u, Insert(u, t))
<1> DEFINE L == ListOf(t)
           s == u.list[L]
           n == Place(u, s, t)
           d == LinkIn(s, n, t)
           v == Insert(u, t)
<1>1. u \in Memory /\ L \in TimerLists /\ s \in Seq(Timer) /\ Injective(s)
      /\ Sorted(s, Offs(u, now)) /\ u.list \in [TimerLists -> Seq(Timer)]
      /\ ~IsIn(s, t)
  BY OwnList DEF ListsIn, Linked
<1>2. /\ n \in 1 .. Len(s) + 1
      /\ \A i \in 1 .. Len(s) : i < n => Offs(u, now)[s[i]] <= Offs(u, now)[t]
      /\ n = Len(s) + 1 \/ Offs(u, now)[t] <= Offs(u, now)[s[n]]
  BY PlaceIs
<1>3. v = [u EXCEPT !.list[L] = d, !.active = @ \cup {t}]
  BY DEF Insert
<1> HIDE DEF n, v
<1>4. /\ d \in Seq(Timer) /\ Injective(d)
      /\ \A x : IsIn(d, x) <=> IsIn(s, x) \/ x = t
  BY <1>1, <1>2, LinkInList
<1>5. Offs(u, now) \in [Timer -> Int]
  BY <1>1, OffsAreInt
<1>6. Sorted(d, Offs(u, now))
  BY <1>1, <1>2, <1>5, SortedLinkIn
<1> HIDE DEF d
<1>7. /\ v.list = [u.list EXCEPT ![L] = d] /\ v.timeout = u.timeout
      /\ v.init = u.init /\ v.ready = u.ready /\ v.active = u.active \cup {t}
      /\ v.periodic = u.periodic
      /\ v = [list |-> v.list, active |-> v.active, periodic |-> v.periodic,
              timeout |-> v.timeout, init |-> v.init, ready |-> v.ready]
  BY <1>1, <1>3 DEF Memory
<1>8. v.list \in [TimerLists -> Seq(Timer)] /\ v.list[L] = d
      /\ \A l \in TimerLists : l # L => v.list[l] = u.list[l]
  BY <1>1, <1>4, <1>7
<1>9. v \in Memory
  BY <1>1, <1>7, <1>8 DEF Memory, TimerLists
<1>10. Offs(v, now) = Offs(u, now)
  BY <1>7 DEF Offs
<1>11. ASSUME NEW l \in TimerLists
       PROVE  /\ Injective(v.list[l]) /\ Sorted(v.list[l], Offs(v, now))
              /\ \A x : IsIn(v.list[l], x) => IsIn(u.list[l], x) \/ (l = L /\ x = t)
  <2>1. CASE l = L
    BY <2>1, <1>4, <1>6, <1>8, <1>10
  <2>2. CASE l # L
    BY <2>2, <1>8, <1>10 DEF ListsIn
  <2> QED BY <2>1, <2>2
<1>12. ListsIn(v, now, lo, hi)
  BY <1>7, <1>9, <1>11 DEF ListsIn
<1>13. \A x \in Timer : Linked(v, x) => Linked(u, x) \/ x = t
  BY <1>9, <1>11, OwnList DEF Linked
<1>14. ASSUME NEW x \in Timer, Linked(u, x) \/ x = t PROVE Linked(v, x)
  <2>1. CASE ListOf(x) = L
    BY <2>1, <1>4, <1>8, <1>14 DEF Linked
  <2>2. CASE ListOf(x) # L
    BY <2>2, <1>1, <1>8, <1>14, OwnList DEF Linked
  <2> QED BY <2>1, <2>2
<1>15. Keeps(u, v)
  BY <1>14 DEF Keeps, TimersAssumption
<1> QED BY <1>7, <1>12, <1>13, <1>14, <1>15 DEF Moves, v

LEMMA StopMoves ==
  ASSUME TimersAssumption, NEW u, NEW now, NEW lo, NEW hi, ListsIn(u, now, lo, hi), NEW t \in Timer
  PROVE  /\ Moves(u, Stop(u, t), {}, now, lo, hi)
         /\ t # ThreadTimer => Keeps(u, Stop(u, t))
<1>1. CASE t \in u.active
  <2> DEFINE a == TimerRemove(u, t)
  <2>1. Moves(u, a, {}, now, lo, hi) /\ (t # ThreadTimer => Keeps(u, a))
    BY RemoveMoves
  <2> HIDE DEF a
  <2>2. Moves(a, Clear(a, t), {}, now, lo, hi) /\ Keeps(a, Clear(a, t))
    BY <2>1, ClearMoves DEF Moves
  <2>3. Clear(a, t) = Stop(u, t)
    BY <1>1 DEF Stop, a
  <2>4. Moves(u, Stop(u, t), {}, now, lo, hi)
    BY <2>1, <2>2, <2>3, MovesTwice
  <2>5. a.ready => Clear(a, t).ready
    BY <2>2 DEF Moves
  <2> QED BY <2>1, <2>2, <2>3, <2>4, <2>5, KeepsTwice
<1>2. CASE t \notin u.active
  BY <1>2 DEF Stop, Moves, Keeps
<1> QED BY <1>1, <1>2

LEMMA WakeMoves ==
  ASSUME TimersAssumption,
         NEW u, NEW now, NEW lo, NEW hi, ListsIn(u, now, lo, hi), NEW t
  PROVE  /\ Moves(u, WakeIfWaiting(u, t), {}, now, lo, hi)
         /\ t \in SoftTimer => WakeIfWaiting(u, t).ready
         /\ Keeps(u, WakeIfWaiting(u, t))
<1>1. CASE t \in SoftTimer /\ ~u.ready
  <2> DEFINE a == Stop(u, ThreadTimer)
             v == [a EXCEPT !.ready = TRUE]
  <2>1. Moves(u, a, {}, now, lo, hi)
    BY StopMoves DEF TimersAssumption
  <2>2. WakeIfWaiting(u, t) = v
    BY <1>1 DEF WakeIfWaiting, WakeThread
  <2>3. a \in Memory /\ ListsIn(a, now, lo, hi)
    BY <2>1 DEF Moves, ListsIn
  <2> HIDE DEF a
  <2>4. /\ v \in Memory /\ v.list = a.list /\ v.timeout = a.timeout
        /\ v.init = a.init /\ v.periodic = a.periodic /\ v.ready
    BY <2>3 DEF Memory
  <2> HIDE DEF v
  <2>5. Moves(a, v, {}, now, lo, hi)
    BY <2>3, <2>4, SameLists DEF Moves
  <2> QED BY <2>1, <2>2, <2>4, <2>5, MovesTwice DEF Keeps
<1>2. CASE ~(t \in SoftTimer /\ ~u.ready)
  <2>1. WakeIfWaiting(u, t) = u
    BY <1>2 DEF WakeIfWaiting
  <2>2. u.ready \in BOOLEAN
    BY DEF ListsIn, Memory
  <2> QED BY <1>2, <2>1, <2>2 DEF Moves, Keeps
<1> QED BY <1>1, <1>2

LEMMA StartMoves ==
  ASSUME TimersAssumption, tick \in 0 .. TickMax, NEW lo, NEW hi, Window(lo, hi),
         NEW u, ListsIn(u, tick, lo, hi), NEW t \in Timer,
         u.init[t] \in lo .. hi, u.init[t] \in 0 .. Half - 1
  PROVE  /\ Moves(u, Start(u, t), {t}, tick, lo, hi)
         /\ t # ThreadTimer => Keeps(u, Start(u, t))
         /\ t \notin SoftTimer =>
              /\ Linked(Start(u, t), t)
              /\ Start(u, t).timeout[t] = (tick + u.init[t]) % TickMod
<1> DEFINE a == TimerRemove(u, t)
           b == Clear(a, t)
           c == Stamp(b, t)
           e == Insert(c, t)
           v == WakeIfWaiting(e, t)
<1>1. /\ Moves(u, a, {t}, tick, lo, hi) /\ ~Linked(a, t)
      /\ t # ThreadTimer => Keeps(u, a)
  BY RemoveMoves, MovesMore
<1> HIDE DEF a
<1>2. Moves(a, b, {t}, tick, lo, hi) /\ ~Linked(b, t) /\ Keeps(a, b)
  <2>1. ListsIn(a, tick, lo, hi)
    BY <1>1 DEF Moves
  <2> QED BY <1>1, <2>1, ClearMoves, MovesMore
<1> HIDE DEF b
<1>3. /\ Moves(b, c, {t}, tick, lo, hi) /\ ~Linked(c, t) /\ Keeps(b, c)
      /\ Dist(tick, c.timeout[t]) = u.init[t]
      /\ c.timeout[t] = (tick + u.init[t]) % TickMod
  <2>1. ListsIn(b, tick, lo, hi) /\ b.init = u.init
    BY <1>1, <1>2 DEF Moves
  <2> QED BY <1>2, <2>1, StampMoves
<1> HIDE DEF c
<1>4. /\ Moves(c, e, {t}, tick, lo, hi) /\ Keeps(c, e)
      /\ Linked(e, t) /\ e.timeout = c.timeout
  <2>1. ListsIn(c, tick, lo, hi)
    BY <1>3 DEF Moves
  <2>2. Dist(tick, c.timeout[t]) \in lo .. hi
    BY <1>3
  <2>3. Moves(c, Insert(c, t), {t}, tick, lo, hi)
    BY <1>3, <2>1, <2>2, InsertMoves
  <2>4. /\ Insert(c, t).timeout = c.timeout /\ Keeps(c, Insert(c, t))
        /\ Linked(Insert(c, t), t)
    BY <1>3, <2>1, <2>2, <2>3, InsertMoves
  <2> QED BY <2>3, <2>4
<1> HIDE DEF e
<1>5. Moves(e, v, {t}, tick, lo, hi) /\ Keeps(e, v)
  <2>1. ListsIn(e, tick, lo, hi)
    BY <1>4 DEF Moves
  <2> QED BY <2>1, WakeMoves, MovesMore
<1>6. Start(u, t) = v
  BY DEF Start, a, b, c, e
<1>9. t \notin SoftTimer => v = e
  BY DEF WakeIfWaiting
<1> HIDE DEF v
<1>7. Moves(u, c, {t}, tick, lo, hi)
  BY <1>1, <1>2, <1>3, MovesTwice
<1>8. t # ThreadTimer => Keeps(u, v)
  <2>1. (a.ready => b.ready) /\ (b.ready => c.ready) /\ (c.ready => e.ready)
        /\ (e.ready => v.ready)
    BY <1>2, <1>3, <1>4, <1>5 DEF Moves
  <2> QED BY <1>1, <1>2, <1>3, <1>4, <1>5, <2>1, KeepsTwice
<1> QED BY <1>3, <1>4, <1>5, <1>6, <1>7, <1>8, <1>9, MovesTwice

(* The times a timer is started with are those InitTicks allows, and all   *)
(* of them fit in the window.                                              *)
InitsKnown(u) == \A x \in Used : u.init[x] \in InitTicks[x]

Fits(lo, hi) == Window(lo, hi) /\ \A x \in Timer : InitTicks[x] \subseteq 1 .. hi

LEMMA StartKnown ==
  ASSUME TimersAssumption, tick \in 0 .. TickMax, NEW lo, NEW hi, Fits(lo, hi),
         NEW u, ListsIn(u, tick, lo, hi), InitsKnown(u), NEW t \in Used
  PROVE  /\ Moves(u, Start(u, t), {t}, tick, lo, hi) /\ Keeps(u, Start(u, t))
         /\ u.init[t] \in lo .. hi /\ u.init[t] \in 0 .. Half - 1
<1>1. t \in Timer /\ u.init[t] \in 1 .. hi
  BY DEF Fits, InitsKnown, Used
<1>2. u.init[t] \in lo .. hi /\ u.init[t] \in 0 .. Half - 1 /\ Window(lo, hi)
  BY <1>1, TickSizes DEF Fits, Window
<1>3. t # ThreadTimer
  BY DEF Used
<1> QED BY <1>1, <1>2, <1>3, StartMoves

(* A call made by an interrupt handler                                     *)
LEMMA CalledMoves ==
  ASSUME TimersAssumption, tick \in 0 .. TickMax, NEW lo, NEW hi, Fits(lo, hi),
         NEW u, ListsIn(u, tick, lo, hi), InitsKnown(u), NEW o \in Op, NEW t \in Used
  PROVE  /\ Moves(u, Called(u, o, t), IF o = "start" THEN {t} ELSE {}, tick, lo, hi)
         /\ Keeps(u, Called(u, o, t))
<1>0. t \in Timer /\ t # ThreadTimer
  BY DEF Used
<1>1. CASE o = "start"
  BY <1>1, StartKnown DEF Called
<1>2. CASE o = "stop"
  BY <1>0, <1>2, StopMoves DEF Called
<1>3. CASE o = "detach"
  BY <1>0, <1>3, RemoveMoves DEF Called
<1> QED BY <1>1, <1>2, <1>3 DEF Op

LEMMA RearmMoves ==
  ASSUME TimersAssumption, tick \in 0 .. TickMax, NEW lo, NEW hi, Fits(lo, hi),
         NEW u, ListsIn(u, tick, lo, hi), InitsKnown(u), NEW t \in Used
  PROVE  Moves(u, Rearm(u, t), {t}, tick, lo, hi) /\ Keeps(u, Rearm(u, t))
<1> DEFINE a == Clear(u, t)
<1>1. Moves(u, a, {t}, tick, lo, hi) /\ Keeps(u, a)
  BY ClearMoves, MovesMore
<1>2. Rearm(u, t) = Start(a, t) \/ Rearm(u, t) = a
  BY DEF Rearm
<1> HIDE DEF a
<1>3. ListsIn(a, tick, lo, hi) /\ InitsKnown(a)
  BY <1>1 DEF Moves, InitsKnown
<1>4. Moves(a, Start(a, t), {t}, tick, lo, hi) /\ Keeps(a, Start(a, t))
  BY <1>3, StartKnown
<1>5. Keeps(u, Start(a, t))
  BY <1>1, <1>4, KeepsTwice DEF Moves
<1> QED BY <1>1, <1>2, <1>4, <1>5, MovesTwice

-----------------------------------------------------------------------------
(* The invariant: the lists are sorted, the timers in them and the one a   *)
(* call is about to link expire at ticks that can be compared, and no one  *)
(* links a timer that a call has taken out to stamp it.                    *)

Low  == IF NoWrap THEN -tick ELSE IF isr = "none" THEN 1 - lag ELSE -MaxLag
Late == IF NoWrap THEN -tick ELSE 1 - lag      \* a time-out stamped lag ticks ago
High == Half - 1 - (IF NoWrap THEN LastTick ELSE MaxLag)     \* for every tick

StartPC  == {"start", "start_stamp", "start_insert"}
WindowPC == {"start_stamp", "start_insert"}

StartsOf(c) ==
  IF c = "app" THEN AppStarts ELSE CallbackStarts(SoftTimer) \cup Restarted

Starting(c, t) == op[c].pc \in WindowPC /\ op[c].tmr = t

CallOK(c) ==
  /\ op[c].pc # "none" => op[c].tmr \in Used
  /\ op[c].pc = "none" => op[c].tmr = NoTimer
  /\ op[c].pc \in StartPC => op[c].tmr \in StartsOf(c)
  /\ op[c].pc \in WindowPC => ~Linked(tm, op[c].tmr)
  /\ op[c].pc = "start_insert" => Dist(tick, tm.timeout[op[c].tmr]) \in Late .. High

ThreadRecord == [pc : ThreadPC, next : 0 .. TickMax, now : 0 .. TickMax,
                 n : SoftTimer \cup {NoTimer}, t : SoftTimer \cup {NoTimer},
                 late : 0 .. MaxLag]

ThreadOK ==
  /\ op["timer"].pc # "none" => tm.ready
  /\ op["timer"].pc \in StartPC => ~Starting("app", op["timer"].tmr)
  /\ tt.pc \in {"loop", "call", "return"} => tm.ready /\ ~Starting("app", tt.n)
  /\ tt.pc \in {"call", "return"} => tt.t # NoTimer /\ ~Starting("app", tt.t)
  /\ tt.pc = "decide" /\ tt.next # TickMax =>
       NoWrap /\ tt.next < Half /\ tt.next <= tick + High
  /\ tt.pc = "sleep" =>
       tm.ready /\ NoWrap /\ tt.next \in 0 .. High /\ tt.late <= lag /\ tt.late <= tick

TimersInv ==
  /\ TimersTypeOK
  /\ NoWrap => tick <= LastTick
  /\ InitsKnown(tm) /\ tm.periodic \subseteq Periodic
  /\ ListsIn(tm, tick, Low, High)
  /\ \A c \in Context : CallOK(c)
  /\ ThreadOK

LEMMA WindowFits ==
  ASSUME TimersAssumption, InReach, TimersInv
  PROVE  /\ Fits(Low, High) /\ Window(Low, High)
         /\ tick \in 0 .. TickMax /\ lag \in 0 .. MaxLag /\ MaxLag \in Nat
         /\ Late \in Int /\ Late <= 1 /\ 1 <= High + 1
         /\ Low <= Late /\ (isr = "none" => Low = Late)
         /\ NoWrap => /\ tick < Half /\ tick <= LastTick /\ LastTick \in Nat
                      /\ Low = -tick /\ Late = -tick /\ High = Half - 1 - LastTick
<1>1. /\ tick \in 0 .. TickMax /\ lag \in 0 .. MaxLag /\ MaxLag \in Nat
      /\ isr \in {"none", "check"}
  BY DEF TimersInv, TimersTypeOK, TimersAssumption
<1>2. \A x \in Timer : \A d \in InitTicks[x] : d \in Nat /\ 1 <= d
  BY DEF TimersAssumption
<1>3. CASE NoWrap
  <2>1. tick <= LastTick /\ LastTick < Half /\ LastTick \in Nat
    BY <1>3 DEF TimersInv, NoWrap, TimersAssumption
  <2>2. Low = -tick /\ Late = -tick /\ High = Half - 1 - LastTick
    BY <1>3 DEF Low, Late, High
  <2>3. \A x \in Timer : \A d \in InitTicks[x] : LastTick + d < Half
    BY <1>3 DEF NoWrap
  <2>4. \A x \in Timer : InitTicks[x] \subseteq 1 .. High
    BY <1>1, <1>2, <2>1, <2>2, <2>3, TickSizes
  <2>5. Window(Low, High)
    BY <1>1, <2>1, <2>2, TickSizes DEF Window
  <2> QED BY <1>1, <2>1, <2>2, <2>4, <2>5, TickSizes DEF Fits
<1>4. CASE ~NoWrap
  <2>1. MaxLag < Half /\ \A x \in Timer : \A d \in InitTicks[x] : d + MaxLag < Half
    BY <1>4 DEF InReach, HardOnly
  <2>2. /\ Low = IF isr = "none" THEN 1 - lag ELSE -MaxLag
        /\ Late = 1 - lag /\ High = Half - 1 - MaxLag
    BY <1>4 DEF Low, Late, High
  <2>3. \A x \in Timer : InitTicks[x] \subseteq 1 .. High
    BY <1>1, <1>2, <2>1, <2>2, TickSizes
  <2>4. Window(Low, High)
    BY <1>1, <2>1, <2>2, TickSizes DEF Window
  <2> QED BY <1>1, <1>4, <2>1, <2>2, <2>3, <2>4, TickSizes DEF Fits
<1> QED BY <1>3, <1>4

-----------------------------------------------------------------------------
(* What a step leaves alone                                                *)

(* A call of c is not disturbed by a step that links only timers of A.     *)
LEMMA CallKept ==
  ASSUME TimersTypeOK, NEW c \in Context, CallOK(c), op'[c] = op[c], NEW A,
         UNCHANGED <<tick, lag>>,
         \A x \in Timer : Linked(tm', x) => Linked(tm, x) \/ x \in A,
         \A x \in Timer \ A : tm'.timeout[x] = tm.timeout[x],
         op[c].pc \in WindowPC => op[c].tmr \notin A
  PROVE  CallOK(c)'
<1>1. Late' = Late /\ High' = High
  BY DEF Late, High
<1>2. op[c].pc \in WindowPC => op[c].tmr \in Timer \ A
  BY DEF CallOK, WindowPC, Used
<1>3. op'[c].pc \in WindowPC => ~Linked(tm', op'[c].tmr)
  BY <1>2 DEF CallOK
<1>4. op'[c].pc = "start_insert" =>
        Dist(tick', tm'.timeout[op'[c].tmr]) \in Late' .. High'
  BY <1>1, <1>2 DEF CallOK, WindowPC
<1> QED BY <1>3, <1>4 DEF CallOK

LEMMA CallStill ==
  ASSUME TimersTypeOK, NEW c \in Context, CallOK(c), op'[c] = op[c],
         UNCHANGED <<tick, lag>>,
         \A x \in Timer : Linked(tm', x) => Linked(tm, x),
         \A x \in Timer : tm'.timeout[x] = tm.timeout[x]
  PROVE  CallOK(c)'
<1> DEFINE A == {}
<1>1. /\ \A x \in Timer : Linked(tm', x) => Linked(tm, x) \/ x \in A
      /\ \A x \in Timer \ A : tm'.timeout[x] = tm.timeout[x]
      /\ op[c].pc \in WindowPC => op[c].tmr \notin A
  OBVIOUS
<1> HIDE DEF A
<1> QED BY <1>1, CallKept

LEMMA ThreadKept ==
  ASSUME ThreadOK, op' = op, tt' = tt, tm.ready => tm'.ready, UNCHANGED <<tick, lag>>
  PROVE  ThreadOK'
BY DEF ThreadOK, Starting

(* A step of a thread's call moves its place, and nothing else of op.      *)
LEMMA OpGoIs ==
  ASSUME TimersTypeOK, NEW c \in Context, NEW p \in OpPC, OpGo(c, p)
  PROVE  /\ op' \in [Context -> [pc : OpPC, tmr : Timer \cup {NoTimer}]]
         /\ op'[c].pc = p /\ op'[c].tmr = IF p = "none" THEN NoTimer ELSE op[c].tmr
         /\ \A b \in Context : b # c => op'[b] = op[b]
BY DEF TimersTypeOK, OpGo, NoOp, OpPC

(* One thread runs: the timer thread while it is ready, else the other.    *)
LEMMA OneThreadRuns ==
  ASSUME ThreadOK, NEW c \in Context, May(c), NEW b \in Context, b # c
  PROVE  /\ op[c].pc \in StartPC => ~Starting(b, op[c].tmr)
         /\ c = "app" => op["timer"].pc = "none" /\ tt.pc \notin {"loop", "call", "return"}
BY DEF ThreadOK, May, Starting, Context, WindowPC

LEMMA OpThread ==
  ASSUME ThreadOK, NEW c \in Context, May(c), tm.ready => tm'.ready,
         UNCHANGED <<tick, tt, lag>>,
         \A b \in Context : b # c => op'[b] = op[b],
         op'[c].pc \in StartPC => op[c].pc \in StartPC /\ op'[c].tmr = op[c].tmr
  PROVE  ThreadOK'
<1>1. CASE c = "app"
  <2>1. op'["timer"] = op["timer"] /\ op["timer"].pc = "none"
        /\ tt.pc \notin {"loop", "call", "return"}
    BY <1>1, OneThreadRuns DEF Context
  <2> QED BY <2>1 DEF ThreadOK, StartPC
<1>2. CASE c = "timer"
  <2>1. op'["app"] = op["app"] /\ tm.ready
    BY <1>2 DEF Context, May
  <2> QED BY <1>2, <2>1 DEF ThreadOK, Starting
<1> QED BY <1>1, <1>2 DEF Context

(* The invariant after a step that keeps the tick and moves only timers    *)
(* of A, but for what it says of the calls and of the timer thread.        *)
LEMMA ListsStep ==
  ASSUME TimersInv, NEW A, Moves(tm, tm', A, tick, Low, High),
         UNCHANGED <<tick, isr, lag>>,
         op' \in [Context -> [pc : OpPC, tmr : Timer \cup {NoTimer}]],
         tt' \in [pc : ThreadPC, next : 0 .. TickMax, now : 0 .. TickMax,
                 n : SoftTimer \cup {NoTimer}, t : SoftTimer \cup {NoTimer},
                 late : 0 .. MaxLag],
         detached' \subseteq Timer,
         \A c \in Context : CallOK(c)', ThreadOK'
  PROVE  TimersInv'
<1>1. Low' = Low /\ High' = High
  BY DEF Low, High
<1>2. ListsIn(tm', tick', Low', High')
  BY <1>1 DEF Moves
<1>3. tm' \in Memory
  BY <1>2 DEF ListsIn
<1>4. TimersTypeOK'
  BY <1>3 DEF TimersInv, TimersTypeOK
<1>5. InitsKnown(tm') /\ tm'.periodic \subseteq Periodic
  BY DEF TimersInv, InitsKnown, Moves
<1> QED BY <1>2, <1>4, <1>5 DEF TimersInv

(* A step of an interrupt handler                                          *)
LEMMA InterruptStep ==
  ASSUME TimersInv, NEW A, Moves(tm, tm', A, tick, Low, High),
         UNCHANGED <<tick, op, isr, tt, lag>>, detached' \subseteq Timer,
         \A c \in Context : op[c].pc \in WindowPC => op[c].tmr \notin A
  PROVE  TimersInv'
<1>1. TimersTypeOK /\ ThreadOK /\ \A c \in Context : CallOK(c)
  BY DEF TimersInv
<1>2. ASSUME NEW c \in Context PROVE CallOK(c)'
  BY <1>1, CallKept DEF Moves
<1>3. ThreadOK'
  BY <1>1, ThreadKept DEF Moves
<1>4. /\ op' \in [Context -> [pc : OpPC, tmr : Timer \cup {NoTimer}]]
      /\ tt' \in [pc : ThreadPC, next : 0 .. TickMax, now : 0 .. TickMax,
                  n : SoftTimer \cup {NoTimer}, t : SoftTimer \cup {NoTimer},
                  late : 0 .. MaxLag]
  BY <1>1 DEF TimersTypeOK
<1> QED BY <1>2, <1>3, <1>4, ListsStep

LEMMA InterruptStill ==
  ASSUME TimersInv, Moves(tm, tm', {}, tick, Low, High),
         UNCHANGED <<tick, op, isr, tt, lag>>, detached' \subseteq Timer
  PROVE  TimersInv'
<1> DEFINE A == {}
<1>1. Moves(tm, tm', A, tick, Low, High)
      /\ \A c \in Context : op[c].pc \in WindowPC => op[c].tmr \notin A
  OBVIOUS
<1> HIDE DEF A
<1> QED BY <1>1, InterruptStep

(* A step of a call of c, from any place to p                              *)
LEMMA CallStep ==
  ASSUME TimersInv, NEW c \in Context, May(c), NEW p \in OpPC, OpGo(c, p),
         op[c].pc # "none", NEW A, Moves(tm, tm', A, tick, Low, High),
         A = {} \/ (A = {op[c].tmr} /\ op[c].pc \in StartPC),
         UNCHANGED <<tick, isr, tt, lag>>, detached' \subseteq Timer,
         p \in StartPC => op[c].pc \in StartPC,
         p \in WindowPC => ~Linked(tm', op[c].tmr),
         p = "start_insert" => Dist(tick, tm'.timeout[op[c].tmr]) \in Late .. High
  PROVE  TimersInv'
<1>1. TimersTypeOK /\ ThreadOK /\ \A b \in Context : CallOK(b)
  BY DEF TimersInv
<1>2. /\ op' \in [Context -> [pc : OpPC, tmr : Timer \cup {NoTimer}]]
      /\ op'[c].pc = p /\ op'[c].tmr = IF p = "none" THEN NoTimer ELSE op[c].tmr
      /\ \A b \in Context : b # c => op'[b] = op[b]
  BY <1>1, OpGoIs
<1>3. ASSUME NEW b \in Context, b # c PROVE CallOK(b)'
  <2>1. op[b].pc \in WindowPC => op[b].tmr \notin A
    BY <1>1, <1>3, OneThreadRuns DEF Starting
  <2> QED BY <1>1, <1>2, <1>3, <2>1, CallKept DEF Moves
<1>4. CallOK(c)'
  <2>1. Late' = Late /\ High' = High
    BY DEF Late, High
  <2>2. p \in StartPC \cup WindowPC => p # "none"
    BY DEF StartPC, WindowPC
  <2>3. CallOK(c)
    BY <1>1
  <2>4. op'[c].pc # "none" => op'[c].tmr \in Used
    BY <1>2, <2>3 DEF CallOK
  <2>5. op'[c].pc \in StartPC => op'[c].tmr \in StartsOf(c)
    BY <1>2, <2>2, <2>3 DEF CallOK
  <2>6. op'[c].pc \in WindowPC => ~Linked(tm', op'[c].tmr)
    BY <1>2, <2>2
  <2>7. op'[c].pc = "start_insert" =>
          Dist(tick', tm'.timeout[op'[c].tmr]) \in Late' .. High'
    BY <1>2, <2>1
  <2>8. op'[c].pc = "none" => op'[c].tmr = NoTimer
    BY <1>2
  <2> QED BY <2>4, <2>5, <2>6, <2>7, <2>8 DEF CallOK
<1>5. ThreadOK'
  <2>1. op'[c].pc \in StartPC => op[c].pc \in StartPC /\ op'[c].tmr = op[c].tmr
    BY <1>2 DEF StartPC
  <2> QED BY <1>1, <1>2, <2>1, OpThread DEF Moves
<1>6. tt' \in [pc : ThreadPC, next : 0 .. TickMax, now : 0 .. TickMax,
              n : SoftTimer \cup {NoTimer}, t : SoftTimer \cup {NoTimer},
              late : 0 .. MaxLag]
  BY <1>1 DEF TimersTypeOK
<1>7. ASSUME NEW b \in Context PROVE CallOK(b)'
  BY <1>3, <1>4
<1> QED BY <1>2, <1>5, <1>6, <1>7, ListsStep

(* The memory as it is: no timer moves.                                    *)
LEMMA NoMove ==
  ASSUME TimersInv, NEW u, u = tm
  PROVE  Moves(tm, u, {}, tick, Low, High)
BY DEF TimersInv, Moves

-----------------------------------------------------------------------------
(* rt_timer_start, rt_timer_stop and rt_timer_detach called by a thread    *)

LEMMA StartStepsInv ==
  ASSUME TimersAssumption, InReach, TimersInv, NEW c \in Context,
         StartRemove(c) \/ StartStamp(c) \/ StartInsert(c) \/ StartWake(c)
  PROVE  TimersInv'
<1> DEFINE t == op[c].tmr
<1>1. /\ ListsIn(tm, tick, Low, High) /\ InitsKnown(tm) /\ CallOK(c)
      /\ detached \subseteq Timer
  BY DEF TimersInv, TimersTypeOK
<1>2. /\ Fits(Low, High) /\ Window(Low, High) /\ tick \in 0 .. TickMax
      /\ Late \in Int /\ Late <= 1 /\ Low <= Late
      /\ isr = "none" => Low = Late
  BY WindowFits
<1>3. CASE StartRemove(c)
  <2> DEFINE a == TimerRemove(tm, t)
  <2>1. In(c, "start") /\ OpGo(c, "start_stamp") /\ tm' = Clear(a, t)
        /\ UNCHANGED <<tick, isr, tt, lag, detached>>
    BY <1>3 DEF StartRemove
  <2>2. t \in Timer
    BY <1>1, <2>1 DEF CallOK, In, Used
  <2>3. Moves(tm, a, {}, tick, Low, High) /\ ~Linked(a, t)
    BY <1>1, <2>2, RemoveMoves
  <2> HIDE DEF a
  <2>4. Moves(a, tm', {}, tick, Low, High) /\ ~Linked(tm', t)
    <3>1. ListsIn(a, tick, Low, High)
      BY <2>3 DEF Moves
    <3> QED BY <2>1, <2>3, <3>1, ClearMoves
  <2>5. Moves(tm, tm', {}, tick, Low, High)
    BY <2>3, <2>4, MovesTwice
  <2>6. May(c) /\ op[c].pc = "start"
    BY <2>1 DEF In
  <2> QED BY <1>1, <2>1, <2>4, <2>5, <2>6, CallStep DEF OpPC, StartPC
<1>4. CASE StartStamp(c)
  <2>1. In(c, "start_stamp") /\ OpGo(c, "start_insert") /\ tm' = Stamp(tm, t)
        /\ UNCHANGED <<tick, isr, tt, lag, detached>>
    BY <1>4 DEF StartStamp
  <2>2. May(c) /\ op[c].pc = "start_stamp"
    BY <2>1 DEF In
  <2>3. t \in Used /\ t \in Timer /\ ~Linked(tm, t)
    BY <1>1, <2>2 DEF CallOK, Used, WindowPC
  <2>4. tm.init[t] \in 1 .. High /\ tm.init[t] \in 0 .. Half - 1
    <3>1. tm.init[t] \in 1 .. High
      BY <1>1, <1>2, <2>3 DEF InitsKnown, Fits
    <3> QED BY <1>2, <3>1, TickSizes DEF Window
  <2>5. /\ Moves(tm, tm', {t}, tick, Low, High) /\ ~Linked(tm', t)
        /\ Dist(tick, tm'.timeout[t]) = tm.init[t]
    BY <1>1, <1>2, <2>1, <2>3, <2>4, StampMoves
  <2>6. Dist(tick, tm'.timeout[t]) \in Late .. High
    BY <1>2, <2>4, <2>5 DEF Window
  <2> QED BY <1>1, <2>1, <2>2, <2>5, <2>6, CallStep DEF OpPC, StartPC
<1>5. CASE StartInsert(c)
  <2> DEFINE p == IF t \in SoftTimer THEN "start_wake" ELSE "none"
  <2>1. In(c, "start_insert") /\ OpGo(c, p) /\ tm' = Insert(tm, t)
        /\ UNCHANGED <<tick, isr, tt, lag, detached>>
    BY <1>5 DEF StartInsert
  <2>2. May(c) /\ op[c].pc = "start_insert" /\ isr = "none"
    BY <2>1 DEF In, May
  <2>3. t \in Timer /\ ~Linked(tm, t) /\ Dist(tick, tm.timeout[t]) \in Low .. High
    BY <1>1, <1>2, <2>2 DEF CallOK, Used, WindowPC
  <2>4. Moves(tm, tm', {t}, tick, Low, High)
    BY <1>1, <1>2, <2>1, <2>3, InsertMoves
  <2>5. p \in OpPC /\ p \notin StartPC /\ p \notin WindowPC
    BY DEF OpPC, StartPC, WindowPC
  <2> HIDE DEF p
  <2> QED BY <1>1, <2>1, <2>2, <2>4, <2>5, CallStep DEF StartPC, WindowPC
<1>6. CASE StartWake(c)
  <2>1. In(c, "start_wake") /\ OpGo(c, "none") /\ tm' = WakeIfWaiting(tm, t)
        /\ UNCHANGED <<tick, isr, tt, lag, detached>>
    BY <1>6 DEF StartWake
  <2>2. May(c) /\ op[c].pc = "start_wake"
    BY <2>1 DEF In
  <2>3. Moves(tm, tm', {}, tick, Low, High)
    BY <1>1, <2>1, WakeMoves
  <2> QED BY <1>1, <2>1, <2>2, <2>3, CallStep DEF OpPC, StartPC, WindowPC
<1> QED BY <1>3, <1>4, <1>5, <1>6

LEMMA StopStepsInv ==
  ASSUME TimersAssumption, TimersInv, NEW c \in Context,
         StopTest(c) \/ StopUnlink(c) \/ StopClear(c) \/ Detach(c)
  PROVE  TimersInv'
<1> DEFINE t == op[c].tmr
<1>1. /\ ListsIn(tm, tick, Low, High) /\ CallOK(c) /\ detached \subseteq Timer
  BY DEF TimersInv, TimersTypeOK
<1>2. op[c].pc # "none" => t \in Timer
  BY <1>1 DEF CallOK, Used
<1>3. CASE StopTest(c)
  <2> DEFINE p == IF t \in tm.active THEN "stop_unlink" ELSE "none"
  <2>1. In(c, "stop") /\ OpGo(c, p) /\ UNCHANGED <<tick, tm, isr, tt, lag, detached>>
    BY <1>3 DEF StopTest
  <2>2. May(c) /\ op[c].pc = "stop"
    BY <2>1 DEF In
  <2>3. Moves(tm, tm', {}, tick, Low, High)
    BY <2>1, NoMove
  <2>4. p \in OpPC /\ p \notin StartPC /\ p \notin WindowPC
    BY DEF OpPC, StartPC, WindowPC
  <2> HIDE DEF p
  <2> QED BY <1>1, <2>1, <2>2, <2>3, <2>4, CallStep DEF StartPC, WindowPC
<1>4. CASE StopUnlink(c)
  <2>1. In(c, "stop_unlink") /\ OpGo(c, "stop_clear") /\ tm' = TimerRemove(tm, t)
        /\ UNCHANGED <<tick, isr, tt, lag, detached>>
    BY <1>4 DEF StopUnlink
  <2>2. May(c) /\ op[c].pc = "stop_unlink"
    BY <2>1 DEF In
  <2>3. Moves(tm, tm', {}, tick, Low, High)
    BY <1>1, <1>2, <2>1, <2>2, RemoveMoves
  <2> QED BY <1>1, <2>1, <2>2, <2>3, CallStep DEF OpPC, StartPC, WindowPC
<1>5. CASE StopClear(c)
  <2>1. In(c, "stop_clear") /\ OpGo(c, "none") /\ tm' = Clear(tm, t)
        /\ UNCHANGED <<tick, isr, tt, lag, detached>>
    BY <1>5 DEF StopClear
  <2>2. May(c) /\ op[c].pc = "stop_clear"
    BY <2>1 DEF In
  <2>3. Moves(tm, tm', {}, tick, Low, High)
    BY <1>1, <2>1, ClearMoves
  <2> QED BY <1>1, <2>1, <2>2, <2>3, CallStep DEF OpPC, StartPC, WindowPC
<1>6. CASE Detach(c)
  <2>1. In(c, "detach") /\ OpGo(c, "none") /\ tm' = TimerRemove(tm, t)
        /\ detached' = detached \cup {t} /\ UNCHANGED <<tick, isr, tt, lag>>
    BY <1>6 DEF Detach
  <2>2. May(c) /\ op[c].pc = "detach"
    BY <2>1 DEF In
  <2>3. Moves(tm, tm', {}, tick, Low, High) /\ detached' \subseteq Timer
    BY <1>1, <1>2, <2>1, <2>2, RemoveMoves
  <2> QED BY <2>1, <2>2, <2>3, CallStep DEF OpPC, StartPC, WindowPC
<1> QED BY <1>3, <1>4, <1>5, <1>6

LEMMA AppCallInv ==
  ASSUME TimersAssumption, TimersInv, AppCall
  PROVE  TimersInv'
<1>1. PICK o \in AppOp : op' = [op EXCEPT !["app"] = [pc |-> o[1], tmr |-> o[2]]]
  BY DEF AppCall
<1>2. In("app", "none") /\ UNCHANGED <<tick, tm, isr, tt, lag, detached>>
  BY DEF AppCall
<1>3. TimersTypeOK /\ ThreadOK /\ \A c \in Context : CallOK(c)
  BY DEF TimersInv
<1>4. o[1] \in Op /\ o[2] \in Used /\ (o[1] = "start" => o[2] \in AppStarts)
  BY DEF TimersAssumption, AppStarts
<1>5. /\ op' \in [Context -> [pc : OpPC, tmr : Timer \cup {NoTimer}]]
      /\ op'["app"] = [pc |-> o[1], tmr |-> o[2]] /\ op'["timer"] = op["timer"]
  BY <1>1, <1>3, <1>4 DEF TimersTypeOK, Context, Op, OpPC, Used
<1>6. Moves(tm, tm', {}, tick, Low, High)
  BY <1>2, NoMove
<1>7. CallOK("timer")'
  <2>1. "timer" \in Context /\ CallOK("timer")
    BY <1>3 DEF Context
  <2> QED BY <1>2, <1>3, <1>5, <1>6, <2>1, CallStill DEF Moves
<1>8. CallOK("app")'
  BY <1>4, <1>5 DEF CallOK, Op, StartPC, WindowPC, StartsOf
<1>9. ThreadOK'
  <2>1. op["timer"].pc = "none" /\ tt.pc \notin {"loop", "call", "return"}
    BY <1>2, <1>3 DEF ThreadOK, In, May
  <2> QED BY <1>2, <1>3, <1>5, <2>1 DEF ThreadOK, StartPC
<1>10. ASSUME NEW c \in Context PROVE CallOK(c)'
  BY <1>7, <1>8 DEF Context
<1>11. /\ detached' \subseteq Timer
       /\ tt' \in [pc : ThreadPC, next : 0 .. TickMax, now : 0 .. TickMax,
                   n : SoftTimer \cup {NoTimer}, t : SoftTimer \cup {NoTimer},
                   late : 0 .. MaxLag]
  BY <1>2, <1>3 DEF TimersTypeOK
<1> QED BY <1>2, <1>5, <1>6, <1>9, <1>10, <1>11, ListsStep

LEMMA SetTimeInv ==
  ASSUME TimersAssumption, TimersInv, SetTime
  PROVE  TimersInv'
<1>1. PICK o \in AppOp, d \in 0 .. TickMax :
        d \in InitTicks[o[2]] /\ tm' = [tm EXCEPT !.init[o[2]] = d]
  BY DEF SetTime
<1>2. UNCHANGED <<tick, op, isr, tt, lag, detached>>
  BY DEF SetTime
<1>3. /\ TimersTypeOK /\ ThreadOK /\ ListsIn(tm, tick, Low, High) /\ tm \in Memory
      /\ InitsKnown(tm) /\ tm.periodic \subseteq Periodic
      /\ NoWrap => tick <= LastTick
  BY DEF TimersInv, TimersTypeOK
<1>4. o[2] \in Used /\ o[2] \in Timer
  BY DEF TimersAssumption, Used
<1>5. /\ tm' \in Memory /\ tm'.list = tm.list /\ tm'.timeout = tm.timeout
      /\ tm'.init = [tm.init EXCEPT ![o[2]] = d] /\ tm'.periodic = tm.periodic
      /\ tm'.ready = tm.ready
  BY <1>1, <1>3, <1>4 DEF Memory
<1>6. Low' = Low /\ High' = High
  BY <1>2 DEF Low, High
<1>7. ListsIn(tm', tick', Low', High') /\ \A x : Linked(tm', x) <=> Linked(tm, x)
  BY <1>2, <1>3, <1>5, <1>6, SameLists
<1>8. InitsKnown(tm')
  BY <1>1, <1>3, <1>4, <1>5 DEF InitsKnown, Memory, Used
<1>9. TimersTypeOK'
  BY <1>2, <1>3, <1>5 DEF TimersTypeOK
<1>10. ThreadOK'
  BY <1>2, <1>3, <1>5, ThreadKept
<1>11. ASSUME NEW c \in Context PROVE CallOK(c)'
  <2>1. CallOK(c)
    BY DEF TimersInv
  <2> QED BY <1>2, <1>3, <1>5, <1>7, <2>1, CallStill
<1> QED BY <1>2, <1>3, <1>5, <1>7, <1>8, <1>9, <1>10, <1>11 DEF TimersInv

-----------------------------------------------------------------------------
(* The tick interrupt and other interrupt handlers                         *)

LEMMA InWindowIs ==
  ASSUME TimersInv, NEW c \in Context, op[c].pc \in WindowPC
  PROVE  /\ op[c].tmr \in Used /\ ~Linked(tm, op[c].tmr)
         /\ op[c].tmr \in AppStarts \cup CallbackStarts(SoftTimer) \cup Restarted
BY DEF TimersInv, CallOK, WindowPC, StartPC, StartsOf

LEMMA HardHead ==
  ASSUME TimersAssumption, TimersInv, HardDue
  PROVE  LET t == tm.list["hard"][1]
         IN  t \in Timer /\ t \notin SoftTimer /\ Linked(tm, t)
<1> DEFINE s == tm.list["hard"]
<1>1. tm \in Memory /\ s \in Seq(Timer) /\ s # <<>>
  BY DEF TimersInv, TimersTypeOK, Memory, HardDue
<1>2. s[1] \in Timer /\ IsIn(s, s[1])
  BY <1>1 DEF IsIn
<1>3. ListOf(s[1]) = "hard"
  BY <1>2 DEF TimersInv, ListsIn, TimerLists
<1> QED BY <1>2, <1>3 DEF Linked, ListOf

LEMMA ExpireSleepMoves ==
  ASSUME TimersAssumption, TimersInv, ExpireSleep
  PROVE  Moves(tm, tm', {}, tick, Low, High) /\ tm'.ready
<1> DEFINE a == TimerRemove(tm, ThreadTimer)
           b == Clear(a, ThreadTimer)
<1>1. /\ ListsIn(tm, tick, Low, High) /\ detached \subseteq Timer
      /\ ThreadTimer \in Timer
  BY DEF TimersInv, TimersTypeOK, TimersAssumption
<1>2. Moves(tm, a, {}, tick, Low, High)
  BY <1>1, RemoveMoves
<1>3. tm' = [b EXCEPT !.ready = TRUE] /\ UNCHANGED <<tick, op, isr, tt, lag, detached>>
  BY DEF ExpireSleep
<1> HIDE DEF a
<1>4. Moves(a, b, {}, tick, Low, High)
  BY <1>2, ClearMoves DEF Moves
<1> HIDE DEF b
<1>5. ListsIn(b, tick, Low, High) /\ b \in Memory
  BY <1>4 DEF Moves, ListsIn
<1>6. /\ tm' \in Memory /\ tm'.list = b.list /\ tm'.timeout = b.timeout
      /\ tm'.init = b.init /\ tm'.periodic = b.periodic /\ tm'.ready
  BY <1>3, <1>5 DEF Memory
<1>7. Moves(b, tm', {}, tick, Low, High)
  BY <1>5, <1>6, SameLists DEF Moves
<1> QED BY <1>2, <1>4, <1>6, <1>7, MovesTwice

LEMMA ExpireSleepInv ==
  ASSUME TimersAssumption, TimersInv, ExpireSleep
  PROVE  TimersInv'
<1>1. detached \subseteq Timer
  BY DEF TimersInv, TimersTypeOK
<1>2. UNCHANGED <<tick, op, isr, tt, lag, detached>>
  BY DEF ExpireSleep
<1> QED BY <1>1, <1>2, ExpireSleepMoves, InterruptStill

(* The timer that expired and the one its timeout function starts          *)
LEMMA ExpireHardMoves ==
  ASSUME TimersAssumption, InReach, OneStarter, TimersInv, ExpireHard
  PROVE  \E B \in SUBSET Used :
           /\ Moves(tm, tm', B, tick, Low, High) /\ Keeps(tm, tm')
           /\ \A c \in Context : op[c].pc \in WindowPC => op[c].tmr \notin B
           /\ SoftInThreads => B \cap SoftTimer = {}
           /\ detached' \subseteq Timer
<1> DEFINE t == tm.list["hard"][1]
           u == TimerRemove(tm, t)
<1>1. /\ ListsIn(tm, tick, Low, High) /\ InitsKnown(tm) /\ detached \subseteq Timer
      /\ Fits(Low, High) /\ tick \in 0 .. TickMax
  BY WindowFits DEF TimersInv, TimersTypeOK
<1>2. HardDue /\ t # ThreadTimer
  BY DEF ExpireHard
<1>3. t \in Used /\ t \in Timer /\ t \notin SoftTimer /\ Linked(tm, t)
  BY <1>2, HardHead DEF Used
<1>4. \/ tm' = Rearm(u, t) /\ UNCHANGED detached
      \/ \E co \in Calls(t) :
           /\ tm' = Rearm(Called(u, co[2], co[3]), t)
           /\ detached' = IF co[2] = "detach" THEN detached \cup {co[3]} ELSE detached
  BY DEF ExpireHard
<1> HIDE DEF t
<1>5. Moves(tm, u, {}, tick, Low, High) /\ Keeps(tm, u)
  BY <1>1, <1>2, <1>3, RemoveMoves
<1> HIDE DEF u
<1>6. ListsIn(u, tick, Low, High) /\ InitsKnown(u)
  BY <1>1, <1>5 DEF Moves, InitsKnown
<1>7. \A c \in Context : op[c].pc \in WindowPC => op[c].tmr # t
  BY <1>3, InWindowIs
<1>8. CASE tm' = Rearm(u, t) /\ UNCHANGED detached
  <2>1. Moves(u, tm', {t}, tick, Low, High) /\ Keeps(u, tm')
    BY <1>1, <1>3, <1>6, <1>8, RearmMoves
  <2>2. Moves(tm, tm', {t}, tick, Low, High)
    BY <1>5, <2>1, MovesMore, MovesTwice
  <2>3. Keeps(tm, tm')
    BY <1>5, <2>1, KeepsTwice DEF Moves
  <2>4. {t} \in SUBSET Used /\ {t} \cap SoftTimer = {}
    BY <1>3
  <2> QED BY <1>1, <1>7, <1>8, <2>2, <2>3, <2>4
<1>9. ASSUME NEW co \in Calls(t),
             tm' = Rearm(Called(u, co[2], co[3]), t),
             detached' = IF co[2] = "detach" THEN detached \cup {co[3]} ELSE detached
      PROVE  \E B \in SUBSET Used :
               /\ Moves(tm, tm', B, tick, Low, High) /\ Keeps(tm, tm')
               /\ \A c \in Context : op[c].pc \in WindowPC => op[c].tmr \notin B
               /\ SoftInThreads => B \cap SoftTimer = {}
               /\ detached' \subseteq Timer
  <2> DEFINE v == Called(u, co[2], co[3])
             A == IF co[2] = "start" THEN {co[3]} ELSE {}
             B == {t} \cup A
  <2>1. co \in CallbackOp /\ co[1] = t /\ co[2] \in Op /\ co[3] \in Used /\ co[3] \in Timer
    BY DEF Calls, TimersAssumption, Used
  <2>2. Moves(u, v, A, tick, Low, High) /\ Keeps(u, v)
    BY <1>1, <1>6, <2>1, CalledMoves
  <2>3. A \subseteq InterruptStarts /\ A \subseteq Used
    BY <1>3, <2>1 DEF InterruptStarts, CallbackStarts
  <2>4. \A c \in Context : op[c].pc \in WindowPC => op[c].tmr \notin A
    BY <2>3, InWindowIs DEF OneStarter
  <2> HIDE DEF v, A
  <2>5. ListsIn(v, tick, Low, High) /\ InitsKnown(v)
    BY <1>6, <2>2 DEF Moves, InitsKnown
  <2>6. Moves(v, tm', {t}, tick, Low, High) /\ Keeps(v, tm')
    BY <1>1, <1>3, <1>9, <2>5, RearmMoves DEF v
  <2>7. Moves(tm, tm', B, tick, Low, High)
    <3>1. Moves(tm, u, B, tick, Low, High)
      BY <1>5, MovesMore
    <3>2. Moves(u, v, B, tick, Low, High)
      BY <2>2, MovesMore
    <3>3. Moves(v, tm', B, tick, Low, High)
      BY <2>6, MovesMore
    <3> HIDE DEF B
    <3> QED BY <3>1, <3>2, <3>3, MovesTwice
  <2>8. Keeps(tm, tm')
    <3>1. (u.ready => v.ready) /\ (v.ready => tm'.ready)
      BY <2>2, <2>6 DEF Moves
    <3> QED BY <1>5, <2>2, <2>6, <3>1, KeepsTwice
  <2>9. detached' \subseteq Timer
    BY <1>1, <1>9, <2>1
  <2>10. /\ \A c \in Context : op[c].pc \in WindowPC => op[c].tmr \notin B
         /\ B \in SUBSET Used
         /\ SoftInThreads => B \cap SoftTimer = {}
    BY <1>3, <1>7, <2>3, <2>4 DEF SoftInThreads
  <2> HIDE DEF B
  <2> QED BY <2>7, <2>8, <2>9, <2>10
<1> QED BY <1>4, <1>8, <1>9

LEMMA ExpireHardInv ==
  ASSUME TimersAssumption, InReach, OneStarter, TimersInv, ExpireHard
  PROVE  TimersInv'
<1>1. UNCHANGED <<tick, op, isr, tt, lag>>
  BY DEF ExpireHard
<1> QED BY <1>1, ExpireHardMoves, InterruptStep

LEMMA IsrStartsInv ==
  ASSUME TimersAssumption, InReach, OneStarter, TimersInv, IsrStarts
  PROVE  TimersInv'
<1>1. /\ ListsIn(tm, tick, Low, High) /\ InitsKnown(tm) /\ detached \subseteq Timer
      /\ Fits(Low, High) /\ tick \in 0 .. TickMax
  BY WindowFits DEF TimersInv, TimersTypeOK
<1>2. PICK t \in IsrStart : tm' = Start(tm, t)
  BY DEF IsrStarts
<1>3. UNCHANGED <<tick, op, isr, tt, lag, detached>>
  BY DEF IsrStarts
<1>4. t \in Used /\ t \in InterruptStarts
  BY DEF TimersAssumption, InterruptStarts
<1>5. Moves(tm, tm', {t}, tick, Low, High)
  BY <1>1, <1>2, <1>4, StartKnown
<1>6. \A c \in Context : op[c].pc \in WindowPC => op[c].tmr \notin {t}
  BY <1>4, InWindowIs DEF OneStarter
<1> QED BY <1>1, <1>3, <1>5, <1>6, InterruptStep

(* Once the first timer of the hard list is not due, none is.              *)
LEMMA NoneDue ==
  ASSUME TimersAssumption, InReach, TimersInv, ~HardDue,
         NEW i \in DOMAIN tm.list["hard"]
  PROVE  LET x == tm.list["hard"][i]
         IN  x \in Timer /\ ~Due(tm, x, tick) /\ 1 <= Dist(tick, tm.timeout[x])
<1> DEFINE s == tm.list["hard"]
           key == Offs(tm, tick)
<1>1. /\ tm \in Memory /\ s \in Seq(Timer) /\ Sorted(s, key)
      /\ \A x \in Timer : IsIn(s, x) => Dist(tick, tm.timeout[x]) \in Low .. High
  BY DEF TimersInv, TimersTypeOK, Memory, ListsIn, TimerLists
<1>2. Window(Low, High) /\ tick \in 0 .. TickMax
  BY WindowFits
<1>3. i \in 1 .. Len(s) /\ 1 \in DOMAIN s /\ s # <<>> /\ i \in DOMAIN s
  BY <1>1
<1>4. ASSUME NEW j \in DOMAIN s
      PROVE  /\ s[j] \in Timer /\ key[s[j]] = Dist(tick, tm.timeout[s[j]])
             /\ key[s[j]] \in Int
             /\ Due(tm, s[j], tick) <=> key[s[j]] <= 0
  <2>1. s[j] \in Timer /\ IsIn(s, s[j])
    BY <1>1 DEF IsIn
  <2>2. Dist(tick, tm.timeout[s[j]]) \in Low .. High
    BY <1>1, <2>1
  <2>3. /\ tm.timeout[s[j]] \in 0 .. TickMax /\ key[s[j]] \in Int
        /\ key[s[j]] = Dist(tick, tm.timeout[s[j]])
    BY <1>1, <1>2, <2>1, OffsAreInt
  <2> QED BY <1>2, <2>1, <2>2, <2>3, DueIs DEF Due
<1>5. ~Due(tm, s[1], tick)
  BY <1>3 DEF HardDue
<1>6. key[s[1]] <= key[s[i]]
  <2>1. CASE i = 1
    BY <1>4, <2>1
  <2>2. CASE 1 < i
    BY <1>1, <1>3, <2>2 DEF Sorted
  <2> QED BY <1>3, <2>1, <2>2
<1> HIDE DEF key
<1>7. key[s[1]] >= 1
  BY <1>3, <1>4, <1>5
<1> QED BY <1>3, <1>4, <1>6, <1>7

LEMMA CheckEndInv ==
  ASSUME TimersAssumption, InReach, TimersInv, CheckEnd
  PROVE  TimersInv'
<1>1. /\ TimersTypeOK /\ ThreadOK /\ ListsIn(tm, tick, Low, High)
      /\ (NoWrap => tick <= LastTick) /\ InitsKnown(tm) /\ tm.periodic \subseteq Periodic
      /\ \A c \in Context : CallOK(c)
  BY DEF TimersInv
<1>2. ~HardDue /\ isr' = "none" /\ UNCHANGED <<tick, tm, op, tt, lag, detached>>
  BY DEF CheckEnd
<1>3. Window(Low, High) /\ lag \in 0 .. MaxLag /\ High \in Int
  BY WindowFits DEF Window
<1>4. ListsIn(tm', tick', Low', High')
  <2>1. CASE NoWrap
    <3>1. Low' = Low /\ High' = High
      BY <1>2, <2>1 DEF Low, High
    <3> QED BY <1>1, <1>2, <3>1
  <2>2. CASE ~NoWrap
    <3>1. SoftTimer = {} /\ High' = High /\ Low' = 1 - lag
      BY <1>2, <2>2 DEF InReach, HardOnly, Low, High
    <3>2. ASSUME NEW l \in TimerLists, NEW x \in Timer, IsIn(tm.list[l], x)
          PROVE  Dist(tick, tm.timeout[x]) \in Low' .. High'
      <4>1. ListOf(x) = l /\ Dist(tick, tm.timeout[x]) \in Low .. High
        BY <1>1, <3>2 DEF ListsIn
      <4>2. l = "hard"
        BY <3>1, <4>1 DEF ListOf
      <4>3. PICK i \in DOMAIN tm.list["hard"] : tm.list["hard"][i] = x
        BY <3>2, <4>2 DEF IsIn
      <4>4. 1 <= Dist(tick, tm.timeout[x])
        BY <1>2, <4>3, NoneDue
      <4> QED BY <1>3, <3>1, <4>1, <4>4 DEF Window
    <3> QED BY <1>1, <1>2, <3>2 DEF ListsIn
  <2> QED BY <2>1, <2>2
<1>5. ASSUME NEW c \in Context PROVE CallOK(c)'
  BY <1>1, <1>2, CallStill
<1>6. ThreadOK'
  BY <1>1, <1>2, ThreadKept
<1>7. TimersTypeOK'
  BY <1>1, <1>2 DEF TimersTypeOK
<1> QED BY <1>1, <1>2, <1>4, <1>5, <1>6, <1>7 DEF TimersInv

(* At a tick every timer comes one tick closer.                            *)
LEMMA TickInv ==
  ASSUME TimersAssumption, InReach, TimersInv, TickIncrease
  PROVE  TimersInv'
<1>1. /\ TimersTypeOK /\ ThreadOK /\ ListsIn(tm, tick, Low, High) /\ tm \in Memory
      /\ (NoWrap => tick <= LastTick) /\ InitsKnown(tm) /\ tm.periodic \subseteq Periodic
      /\ \A c \in Context : CallOK(c)
  BY DEF TimersInv, TimersTypeOK
<1>2. /\ isr = "none" /\ isr' = "check" /\ tick # LastTick /\ tick' = (tick + 1) % TickMod
      /\ lag' = (IF Quiet THEN 0 ELSE lag + 1) /\ lag' <= MaxLag
      /\ tt' = (IF tt.pc = "sleep" THEN [tt EXCEPT !.late = @ + 1] ELSE tt)
      /\ UNCHANGED <<tm, op, detached>>
  BY DEF TickIncrease
<1>3. /\ Window(Low, High) /\ tick \in 0 .. TickMax /\ lag \in 0 .. MaxLag
      /\ MaxLag \in Nat /\ Late \in Int /\ Low = Late
      /\ NoWrap => tick < Half /\ Low = -tick /\ Late = -tick
  BY <1>2, WindowFits
<1>4. /\ tick' \in 0 .. TickMax /\ lag' \in 0 .. MaxLag
      /\ tick' = IF tick = TickMax THEN 0 ELSE tick + 1
  BY <1>2, <1>3, NextTick
<1>5. NoWrap => tick' = tick + 1 /\ tick' <= LastTick
  <2>1. NoWrap => tick < TickMax
    BY <1>3, TickSizes
  <2> QED BY <1>1, <1>2, <1>3, <1>4, <2>1 DEF TimersAssumption
<1>6. /\ Low' \in Int /\ High \in Int /\ High' = High /\ Low' <= Low - 1
      /\ Late' = IF NoWrap THEN Late - 1 ELSE 1 - lag'
  <2>1. CASE NoWrap
    <3>1. Low' = -tick' /\ High' = High /\ Late' = -tick'
      BY <2>1 DEF Low, High, Late
    <3> QED BY <1>3, <1>5, <2>1, <3>1, TickSizes DEF Window
  <2>2. CASE ~NoWrap
    <3>1. /\ Low' = -MaxLag /\ High' = High /\ Late' = 1 - lag'
          /\ Low = 1 - lag
      BY <1>2, <2>2 DEF Low, High, Late
    <3> QED BY <1>3, <2>2, <3>1, TickSizes DEF Window
  <2> QED BY <2>1, <2>2
<1>7. ASSUME NEW x \in Timer, Dist(tick, tm.timeout[x]) \in Low .. High
      PROVE  Dist(tick', tm.timeout[x]) = Dist(tick, tm.timeout[x]) - 1
  <2>1. tm.timeout[x] \in 0 .. TickMax
    BY <1>1 DEF Memory
  <2>2. -Half < Dist(tick, tm.timeout[x])
    BY <1>3, <1>7, TickSizes DEF Window
  <2> QED BY <1>2, <1>3, <2>1, <2>2, DistTick
<1>8. ListsIn(tm, tick', Low', High')
  <2>1. ASSUME NEW l \in TimerLists, NEW x \in Timer, IsIn(tm.list[l], x)
        PROVE  /\ ListOf(x) = l
               /\ Dist(tick, tm.timeout[x]) \in Low .. High
               /\ Dist(tick', tm.timeout[x]) = Dist(tick, tm.timeout[x]) - 1
               /\ Dist(tick', tm.timeout[x]) \in Low' .. High'
    <3>1. ListOf(x) = l /\ Dist(tick, tm.timeout[x]) \in Low .. High
      BY <1>1, <2>1 DEF ListsIn
    <3> QED BY <1>3, <1>6, <1>7, <3>1 DEF Window
  <2>2. ASSUME NEW l \in TimerLists PROVE Sorted(tm.list[l], Offs(tm, tick'))
    <3> DEFINE s == tm.list[l]
    <3>1. s \in Seq(Timer) /\ Sorted(s, Offs(tm, tick))
      BY <1>1 DEF ListsIn, Memory, TimerLists
    <3>2. \A i \in DOMAIN s : s[i] \in Timer /\ IsIn(s, s[i])
      BY <3>1 DEF IsIn
    <3>3. \A i \in DOMAIN s : /\ Offs(tm, tick')[s[i]] = Offs(tm, tick)[s[i]] - 1
                              /\ Offs(tm, tick)[s[i]] \in Int
      BY <1>3, <2>1, <3>2 DEF Offs, Window
    <3> QED BY <3>1, <3>3 DEF Sorted
  <2> QED BY <1>1, <2>1, <2>2 DEF ListsIn
<1>9. ASSUME NEW c \in Context PROVE CallOK(c)'
  <2>1. CallOK(c) /\ op'[c] = op[c]
    BY <1>1, <1>2
  <2>2. ASSUME op[c].pc = "start_insert"
        PROVE  Dist(tick', tm.timeout[op[c].tmr]) \in Late' .. High'
    <3>1. /\ op[c].tmr \in Timer
          /\ Dist(tick, tm.timeout[op[c].tmr]) \in Late .. High
      BY <2>1, <2>2 DEF CallOK, Used
    <3>2. ~Quiet
      BY <1>1, <2>2 DEF Quiet, Context, ThreadOK
    <3>3. Dist(tick', tm.timeout[op[c].tmr]) = Dist(tick, tm.timeout[op[c].tmr]) - 1
      BY <1>3, <1>7, <3>1
    <3>4. Late' = Late - 1
      <4>1. CASE NoWrap
        BY <1>6, <4>1
      <4>2. CASE ~NoWrap
        BY <1>2, <1>3, <1>6, <3>2, <4>2 DEF Late
      <4> QED BY <4>1, <4>2
    <3> QED BY <1>3, <1>6, <3>1, <3>3, <3>4 DEF Window
  <2> QED BY <1>2, <2>1, <2>2 DEF CallOK
<1>10. /\ ThreadOK' /\ tt' \in ThreadRecord
  <2>1. tt \in ThreadRecord
    BY <1>1 DEF TimersTypeOK, ThreadRecord
  <2>2. CASE tt.pc = "sleep"
    <3>1. /\ tm.ready /\ NoWrap /\ tt.next \in 0 .. High
          /\ tt.late <= lag /\ tt.late <= tick /\ tt.late \in Nat
      BY <1>1, <2>1, <2>2 DEF ThreadOK, ThreadRecord
    <3>2. lag' = lag + 1
      BY <1>2, <3>1 DEF Quiet
    <3>3. /\ tt'.pc = "sleep" /\ tt'.next = tt.next /\ tt'.late = tt.late + 1
          /\ tt' \in ThreadRecord
      BY <1>2, <1>3, <1>4, <2>1, <2>2, <3>1, <3>2 DEF ThreadRecord
    <3>4. tt'.late <= lag' /\ tt'.late <= tick'
      BY <1>3, <1>5, <3>1, <3>2, <3>3
    <3> QED BY <1>1, <1>2, <1>6, <3>1, <3>3, <3>4 DEF ThreadOK, Starting
  <2>3. CASE tt.pc # "sleep"
    <3>1. tt' = tt
      BY <1>2, <2>3
    <3>2. tt.pc = "decide" /\ tt.next # TickMax => tt.next <= tick' + High
      BY <1>1, <1>3, <1>5, <1>6, <2>1 DEF ThreadOK, ThreadRecord
    <3> QED BY <1>1, <1>2, <1>6, <2>1, <2>3, <3>1, <3>2 DEF ThreadOK, Starting
  <2> QED BY <2>2, <2>3
<1>11. TimersTypeOK'
  BY <1>1, <1>2, <1>4, <1>10 DEF TimersTypeOK, ThreadRecord
<1> QED BY <1>1, <1>2, <1>5, <1>8, <1>9, <1>10, <1>11 DEF TimersInv

-----------------------------------------------------------------------------
(* The timer thread                                                        *)

LEMMA ThreadAtIs ==
  ASSUME TimersInv, NEW p, ThreadAt(p)
  PROVE  /\ tt.pc = p /\ tt \in ThreadRecord /\ isr = "none" /\ tm.ready
         /\ op["timer"] = NoOp /\ op["timer"].pc = "none" /\ op["timer"].tmr = NoTimer
         /\ op \in [Context -> [pc : OpPC, tmr : Timer \cup {NoTimer}]]
         /\ ThreadOK /\ CallOK("app") /\ tick \in 0 .. TickMax
<1>1. /\ "timer" \in Context /\ "app" \in Context
      /\ op \in [Context -> [pc : OpPC, tmr : Timer \cup {NoTimer}]]
      /\ tt \in ThreadRecord /\ ThreadOK /\ CallOK("app") /\ CallOK("timer")
      /\ tick \in 0 .. TickMax
  BY DEF TimersInv, TimersTypeOK, Context, ThreadRecord
<1>2. tt.pc = p /\ isr = "none" /\ tm.ready /\ op["timer"].pc = "none"
  BY DEF ThreadAt, NotChecking, In, May
<1>3. op["timer"].tmr = NoTimer
  BY <1>1, <1>2 DEF CallOK
<1>4. op["timer"] \in [pc : OpPC, tmr : Timer \cup {NoTimer}]
  BY <1>1
<1>5. op["timer"] = NoOp
  BY <1>2, <1>3, <1>4 DEF NoOp
<1> QED BY <1>1, <1>2, <1>3, <1>5

(* A step of the thread between calls: what it must keep                   *)
LEMMA ThreadStep ==
  ASSUME TimersInv, NEW A, ListsIn(tm', tick, Low, High), InitsKnown(tm'),
         tm'.periodic = tm.periodic,
         \A x \in Timer : Linked(tm', x) => Linked(tm, x) \/ x \in A,
         \A x \in Timer \ A : tm'.timeout[x] = tm.timeout[x],
         op["app"].pc \in WindowPC => op["app"].tmr \notin A,
         UNCHANGED <<tick, isr, lag, detached>>,
         op' \in [Context -> [pc : OpPC, tmr : Timer \cup {NoTimer}]],
         op'["app"] = op["app"], tt' \in ThreadRecord, CallOK("timer")', ThreadOK'
  PROVE  TimersInv'
<1>1. /\ "app" \in Context /\ CallOK("app") /\ TimersTypeOK
      /\ (NoWrap => tick <= LastTick) /\ tm.periodic \subseteq Periodic
  BY DEF TimersInv, Context
<1>2. CallOK("app")'
  BY <1>1, CallKept
<1>3. ASSUME NEW c \in Context PROVE CallOK(c)'
  BY <1>2 DEF Context
<1>4. ListsIn(tm', tick', Low', High') /\ tm' \in Memory
  <2>1. Low' = Low /\ High' = High
    BY DEF Low, High
  <2> QED BY <2>1 DEF ListsIn
<1>5. TimersTypeOK'
  BY <1>1, <1>4 DEF TimersTypeOK, ThreadRecord
<1> QED BY <1>1, <1>3, <1>4, <1>5 DEF TimersInv

LEMMA ThreadStill ==
  ASSUME TimersInv, Moves(tm, tm', {}, tick, Low, High),
         UNCHANGED <<tick, isr, lag, detached>>,
         op' \in [Context -> [pc : OpPC, tmr : Timer \cup {NoTimer}]],
         op'["app"] = op["app"], tt' \in ThreadRecord, CallOK("timer")', ThreadOK'
  PROVE  TimersInv'
<1> DEFINE A == {}
<1>1. /\ \A x \in Timer : Linked(tm', x) => Linked(tm, x) \/ x \in A
      /\ \A x \in Timer \ A : tm'.timeout[x] = tm.timeout[x]
      /\ op["app"].pc \in WindowPC => op["app"].tmr \notin A
  BY DEF Moves
<1>2. ListsIn(tm', tick, Low, High) /\ InitsKnown(tm') /\ tm'.periodic = tm.periodic
  BY DEF Moves, TimersInv, InitsKnown
<1> HIDE DEF A
<1> QED BY <1>1, <1>2, ThreadStep

LEMMA NotCalling ==
  ASSUME op'["timer"] = NoOp
  PROVE  CallOK("timer")'
BY DEF CallOK, NoOp, StartPC, WindowPC

(* The first soft timer                                                    *)
LEMMA FirstSoftIs ==
  ASSUME TimersAssumption, InReach, TimersInv, tm.list["soft"] # <<>>
  PROVE  LET t == tm.list["soft"][1]
         IN  /\ t \in SoftTimer /\ Linked(tm, t)
             /\ NoWrap /\ tm.timeout[t] \in 0 .. Half - 1 /\ tm.timeout[t] <= tick + High
<1> DEFINE s == tm.list["soft"]
           t == s[1]
<1>1. tm \in Memory /\ s \in Seq(Timer) /\ tick \in 0 .. TickMax
  BY DEF TimersInv, TimersTypeOK, Memory
<1>2. t \in Timer /\ IsIn(s, t)
  BY <1>1 DEF IsIn
<1>3. ListOf(t) = "soft" /\ Dist(tick, tm.timeout[t]) \in Low .. High
  BY <1>2 DEF TimersInv, ListsIn, TimerLists
<1>4. t \in SoftTimer
  BY <1>3 DEF ListOf
<1>5. NoWrap
  BY <1>4 DEF InReach, HardOnly
<1>6. /\ tick < Half /\ tick <= LastTick /\ LastTick \in Nat
      /\ Low = -tick /\ High = Half - 1 - LastTick
  BY <1>5, WindowFits
<1>7. tm.timeout[t] \in 0 .. TickMax
  BY <1>1, <1>2 DEF Memory
<1> DEFINE b == tm.timeout[t]
<1>8. b \in 0 .. TickMax /\ Dist(tick, b) \in -tick .. High
  BY <1>3, <1>6, <1>7
<1> HIDE DEF b
<1>9. Ahead(tick, b) = IF b >= tick THEN b - tick ELSE b - tick + TickMod
  BY <1>1, <1>8, AheadIs
<1>10. Dist(tick, b) = IF Ahead(tick, b) < Half THEN Ahead(tick, b) ELSE Ahead(tick, b) - TickMod
  BY DEF Dist
<1>11. b \in 0 .. Half - 1 /\ b <= tick + High
  <2>1. /\ Dist(tick, b) \in Int /\ -tick <= Dist(tick, b) /\ Dist(tick, b) <= High
        /\ High \in Int /\ tick \in Nat /\ b \in Nat /\ b < TickMod
    BY <1>1, <1>6, <1>8, TickSizes
  <2> DEFINE e == Dist(tick, b)  a == Ahead(tick, b)
  <2>2. e = b - tick
    <3>1. TickMod \in Nat /\ Half \in Nat /\ 2 * Half < TickMod /\ tick < Half
      BY <1>6, TickSizes
    <3>2. CASE b >= tick
      <4>1. a = b - tick
        BY <1>9, <3>2
      <4>2. e = IF a < Half THEN a ELSE a - TickMod
        BY <1>10
      <4> HIDE DEF a, e
      <4>3. -tick <= e /\ e \in Int
        BY <2>1 DEF e
      <4>4. a < Half
        BY <2>1, <3>1, <4>1, <4>2, <4>3
      <4> QED BY <4>1, <4>2, <4>4
    <3>3. CASE b < tick
      <4>1. a = b - tick + TickMod
        BY <1>9, <2>1, <3>3
      <4>2. a >= Half
        BY <2>1, <3>1, <4>1
      <4>3. e = a - TickMod
        BY <1>10, <2>1, <3>1, <4>1, <4>2
      <4> QED BY <2>1, <3>1, <4>1, <4>3
    <3> QED BY <2>1, <3>2, <3>3
  <2> QED BY <1>6, <2>1, <2>2, TickSizes
<1> QED BY <1>2, <1>3, <1>4, <1>5, <1>11 DEF Linked, b

LEMMA NextTimeoutInv ==
  ASSUME TimersAssumption, InReach, TimersInv, NextTimeout
  PROVE  TimersInv'
<1> DEFINE x == IF tm.list["soft"] = <<>> THEN TickMax ELSE tm.timeout[tm.list["soft"][1]]
<1>1. /\ ThreadAt("next") /\ tt' = [tt EXCEPT !.pc = "decide", !.next = x]
      /\ UNCHANGED <<tick, tm, op, isr, lag, detached>>
  BY DEF NextTimeout
<1>2. x = TickMax \/ (NoWrap /\ x \in 0 .. Half - 1 /\ x <= tick + High)
  BY FirstSoftIs
<1>3. x \in 0 .. TickMax
  BY <1>2, TickSizes
<1> HIDE DEF x
<1>4. tt' \in ThreadRecord /\ tt'.pc = "decide" /\ tt'.next = x
  BY <1>1, <1>3, ThreadAtIs DEF ThreadRecord, ThreadPC
<1>5. ThreadOK'
  BY <1>1, <1>2, <1>4, ThreadAtIs, TickSizes DEF ThreadOK, StartPC
<1> QED BY <1>1, <1>4, <1>5, ThreadAtIs, NoMove, NotCalling, ThreadStill

LEMMA SuspendSelfInv ==
  ASSUME TimersAssumption, TimersInv, SuspendSelf
  PROVE  TimersInv'
<1> DEFINE a == Stop(tm, ThreadTimer)
           A == {}
<1>1. /\ ThreadAt("decide") /\ tm' = [a EXCEPT !.ready = FALSE]
      /\ tt' = [tt EXCEPT !.pc = "check"]
      /\ UNCHANGED <<tick, op, isr, lag, detached>>
  BY DEF SuspendSelf, Round
<1>2. Moves(tm, a, {}, tick, Low, High)
  BY StopMoves DEF TimersInv, TimersAssumption
<1> HIDE DEF a
<1>3. ListsIn(a, tick, Low, High) /\ a \in Memory
  BY <1>2 DEF Moves, ListsIn
<1>4. /\ tm' \in Memory /\ tm'.list = a.list /\ tm'.timeout = a.timeout
      /\ tm'.init = a.init /\ tm'.periodic = a.periodic
  BY <1>1, <1>3 DEF Memory
<1>5. ListsIn(tm', tick, Low, High) /\ \A x : Linked(tm', x) <=> Linked(a, x)
  BY <1>3, <1>4, SameLists
<1>6. /\ \A x \in Timer : Linked(tm', x) => Linked(tm, x) \/ x \in A
      /\ \A x \in Timer \ A : tm'.timeout[x] = tm.timeout[x]
      /\ op["app"].pc \in WindowPC => op["app"].tmr \notin A
  BY <1>2, <1>4, <1>5 DEF Moves
<1>7. InitsKnown(tm') /\ tm'.periodic = tm.periodic
  BY <1>2, <1>4 DEF Moves, InitsKnown, TimersInv
<1> HIDE DEF A
<1>8. tt' \in ThreadRecord /\ tt'.pc = "check"
  BY <1>1, ThreadAtIs DEF ThreadRecord, ThreadPC
<1>9. ThreadOK'
  BY <1>1, <1>8, ThreadAtIs DEF ThreadOK, StartPC
<1> QED BY <1>1, <1>5, <1>6, <1>7, <1>8, <1>9, ThreadAtIs, NotCalling, ThreadStep

LEMMA ReadTickInv ==
  ASSUME TimersAssumption, InReach, TimersInv, ReadTick
  PROVE  TimersInv'
<1> DEFINE d == Ahead(tick, tt.next)
<1>1. /\ ThreadAt("decide") /\ tt.next # TickMax
      /\ tt' = IF d < Half THEN [tt EXCEPT !.pc = "sleep", !.next = d, !.late = 0]
                           ELSE [tt EXCEPT !.pc = "check"]
      /\ UNCHANGED <<tick, tm, op, isr, lag, detached>>
  BY DEF ReadTick
<1>2. /\ tick \in 0 .. TickMax /\ tt.next \in 0 .. TickMax
      /\ NoWrap /\ tt.next < Half /\ tt.next <= tick + High
  BY <1>1, ThreadAtIs DEF ThreadOK, ThreadRecord
<1>3. /\ tick < Half /\ tick <= LastTick /\ LastTick \in Nat /\ High = Half - 1 - LastTick
      /\ lag \in 0 .. MaxLag /\ MaxLag \in Nat
  BY <1>2, WindowFits
<1>4. /\ d \in 0 .. TickMax
      /\ d = IF tt.next >= tick THEN tt.next - tick ELSE tt.next - tick + TickMod
  BY <1>2, AheadIs
<1> HIDE DEF d
<1>5. d < Half => d \in 0 .. High
  BY <1>2, <1>3, <1>4, TickSizes
<1>6. tt' \in ThreadRecord /\ tt'.pc \in {"sleep", "check"}
  <2>1. tt \in ThreadRecord /\ d \in 0 .. TickMax /\ 0 \in 0 .. MaxLag
    BY <1>1, <1>3, <1>4, ThreadAtIs
  <2>2. CASE d < Half
    <3>1. tt' = [tt EXCEPT !.pc = "sleep", !.next = d, !.late = 0]
      BY <1>1, <2>2
    <3> QED BY <2>1, <3>1 DEF ThreadRecord, ThreadPC
  <2>3. CASE ~(d < Half)
    <3>1. tt' = [tt EXCEPT !.pc = "check"]
      BY <1>1, <2>3
    <3> QED BY <2>1, <3>1 DEF ThreadRecord, ThreadPC
  <2> QED BY <2>2, <2>3
<1>7. tt'.pc = "sleep" => tt'.next \in 0 .. High /\ tt'.late = 0
  BY <1>1, <1>5, ThreadAtIs DEF ThreadRecord
<1>8. High' = High
  BY DEF High
<1>9. ThreadOK'
  BY <1>1, <1>2, <1>3, <1>6, <1>7, <1>8, ThreadAtIs DEF ThreadOK, StartPC
<1> QED BY <1>1, <1>6, <1>9, ThreadAtIs, NoMove, NotCalling, ThreadStill

LEMMA DelaySelfInv ==
  ASSUME TimersAssumption, InReach, TimersInv, DelaySelf
  PROVE  TimersInv'
<1> DEFINE d == tt.next
           a == Stop(tm, ThreadTimer)
           u == [a EXCEPT !.ready = FALSE, !.init[ThreadTimer] = d]
           A == {ThreadTimer}
<1>1. /\ ThreadAt("sleep") /\ tm' = Start(u, ThreadTimer)
      /\ tt' = [tt EXCEPT !.pc = "check"]
      /\ UNCHANGED <<tick, op, isr, lag, detached>>
  BY DEF DelaySelf, Round
<1>2. /\ ThreadTimer \in Timer /\ ThreadTimer \notin Used
      /\ ListsIn(tm, tick, Low, High) /\ InitsKnown(tm)
  BY DEF TimersInv, TimersAssumption, Used
<1>3. tt' \in ThreadRecord /\ tt'.pc = "check"
  BY <1>1, ThreadAtIs DEF ThreadRecord, ThreadPC
<1>4. ThreadOK'
  BY <1>1, <1>3, ThreadAtIs DEF ThreadOK, StartPC
<1>5. /\ tick \in 0 .. TickMax /\ d \in 0 .. TickMax /\ d \in 0 .. High /\ NoWrap
  BY <1>1, ThreadAtIs DEF ThreadOK, ThreadRecord
<1>6. /\ tick < Half /\ tick <= LastTick /\ LastTick \in Nat
      /\ Low = -tick /\ High = Half - 1 - LastTick /\ Window(Low, High)
  BY <1>5, WindowFits
<1> HIDE DEF d
<1>7. d \in Low .. High /\ d \in 0 .. Half - 1
  BY <1>5, <1>6, TickSizes
<1>8. Moves(tm, a, {}, tick, Low, High)
  BY <1>2, StopMoves
<1> HIDE DEF a
<1>9. ListsIn(a, tick, Low, High) /\ a \in Memory
  BY <1>8 DEF Moves, ListsIn
<1>10. /\ u \in Memory /\ u.list = a.list /\ u.timeout = a.timeout
       /\ u.init = [a.init EXCEPT ![ThreadTimer] = d] /\ u.init[ThreadTimer] = d
       /\ u.periodic = a.periodic
  BY <1>2, <1>5, <1>9 DEF Memory
<1> HIDE DEF u
<1>11. ListsIn(u, tick, Low, High) /\ \A x : Linked(u, x) <=> Linked(a, x)
  BY <1>9, <1>10, SameLists
<1>12. Moves(u, tm', {ThreadTimer}, tick, Low, High)
  BY <1>1, <1>2, <1>5, <1>6, <1>7, <1>10, <1>11, StartMoves
<1>13. /\ \A x \in Timer : Linked(tm', x) => Linked(tm, x) \/ x \in A
       /\ \A x \in Timer \ A : tm'.timeout[x] = tm.timeout[x]
  BY <1>8, <1>10, <1>11, <1>12 DEF Moves
<1>14. op["app"].pc \in WindowPC => op["app"].tmr \notin A
  BY <1>1, <1>2, ThreadAtIs DEF CallOK, WindowPC
<1>15. InitsKnown(tm')
  <2>1. ASSUME NEW x \in Used PROVE tm'.init[x] = tm.init[x]
    <3>1. x # ThreadTimer /\ x \in Timer
      BY DEF Used
    <3>2. u.init[x] = a.init[x]
      BY <1>9, <1>10, <3>1 DEF Memory
    <3> QED BY <1>8, <1>12, <3>2 DEF Moves
  <2> QED BY <1>2, <2>1 DEF InitsKnown
<1>16. ListsIn(tm', tick, Low, High) /\ tm'.periodic = tm.periodic
  BY <1>8, <1>10, <1>12 DEF Moves
<1> HIDE DEF A
<1> QED BY <1>1, <1>3, <1>4, <1>13, <1>14, <1>15, <1>16, ThreadAtIs, NotCalling, ThreadStep

(* A timer that is linked is not one the application thread is starting.   *)
LEMMA LinkedNotStarting ==
  ASSUME TimersInv, NEW t, t = NoTimer \/ Linked(tm, t)
  PROVE  TimersAssumption => ~Starting("app", t)
BY DEF TimersInv, CallOK, Starting, Context, TimersAssumption, Used, WindowPC

LEMMA CheckBeginInv ==
  ASSUME TimersAssumption, InReach, TimersInv, CheckBegin
  PROVE  TimersInv'
<1>1. /\ ThreadAt("check") /\ tt' = [tt EXCEPT !.pc = "loop", !.now = tick, !.n = FirstSoft]
      /\ UNCHANGED <<tick, tm, op, isr, lag, detached>>
  BY DEF CheckBegin
<1>2. FirstSoft = NoTimer \/ (FirstSoft \in SoftTimer /\ Linked(tm, FirstSoft))
  BY FirstSoftIs DEF FirstSoft
<1>3. ~Starting("app", FirstSoft)
  BY <1>2, LinkedNotStarting
<1>4. tt' \in ThreadRecord /\ tt'.pc = "loop" /\ tt'.n = FirstSoft
  BY <1>1, <1>2, ThreadAtIs DEF ThreadRecord, ThreadPC
<1>5. ThreadOK'
  <2>1. ~Starting("app", FirstSoft)'
    BY <1>1, <1>3 DEF Starting, FirstSoft
  <2> QED BY <1>1, <1>4, <1>3, ThreadAtIs DEF ThreadOK, StartPC, Starting
<1> QED BY <1>1, <1>4, <1>5, ThreadAtIs, NoMove, NotCalling, ThreadStill

LEMMA NextOfIs ==
  ASSUME TimersInv, NEW t
  PROVE  \/ NextOf(t) = t \/ NextOf(t) = NoTimer
         \/ NextOf(t) \in SoftTimer /\ Linked(tm, NextOf(t))
<1> DEFINE s == tm.list["soft"]
           p == {i \in DOMAIN s : s[i] = t}
           i == CHOOSE j \in p : TRUE
<1>1. s \in Seq(Timer)
  BY DEF TimersInv, TimersTypeOK, Memory
<1>2. NextOf(t) = IF p = {} THEN t ELSE IF i < Len(s) THEN s[i + 1] ELSE NoTimer
  BY DEF NextOf
<1>3. p # {} => i \in 1 .. Len(s)
  BY <1>1
<1> HIDE DEF i
<1>4. CASE p # {} /\ i < Len(s)
  <2>1. s[i + 1] \in Timer /\ IsIn(s, s[i + 1])
    <3>1. i + 1 \in DOMAIN s
      BY <1>1, <1>3, <1>4
    <3> QED BY <1>1, <3>1 DEF IsIn
  <2>2. ListOf(s[i + 1]) = "soft"
    BY <2>1 DEF TimersInv, ListsIn, TimerLists
  <2> QED BY <1>2, <1>4, <2>1, <2>2 DEF Linked, ListOf
<1> QED BY <1>2, <1>4

LEMMA CallSoftInv ==
  ASSUME TimersAssumption, InReach, TimersInv, CallSoft
  PROVE  TimersInv'
<1>1. /\ ThreadAt("loop") /\ tt.n # NoTimer
      /\ tt' = [tt EXCEPT !.pc = "call", !.n = NextOf(tt.n), !.t = tt.n]
      /\ tm' = TimerRemove(tm, tt.n)
      /\ UNCHANGED <<tick, op, isr, lag, detached>>
  BY DEF CallSoft, Looking
<1>2. tt.n \in SoftTimer /\ tt.n \in Timer
  BY <1>1, ThreadAtIs DEF ThreadRecord, TimersAssumption
<1>3. Moves(tm, tm', {}, tick, Low, High)
  BY <1>1, <1>2, RemoveMoves DEF TimersInv
<1>4. ~Starting("app", tt.n)
  BY <1>1, ThreadAtIs DEF ThreadOK
<1> DEFINE z == NextOf(tt.n)
<1>5. z \in SoftTimer \cup {NoTimer} /\ ~Starting("app", z)
  BY <1>2, <1>4, NextOfIs, LinkedNotStarting
<1>6. tt' = [tt EXCEPT !.pc = "call", !.n = z, !.t = tt.n]
  BY <1>1
<1> HIDE DEF z
<1>7. tt' \in ThreadRecord /\ tt'.pc = "call" /\ tt'.n = z /\ tt'.t = tt.n
  BY <1>1, <1>2, <1>5, <1>6, ThreadAtIs DEF ThreadRecord, ThreadPC
<1>8. ThreadOK'
  BY <1>1, <1>3, <1>4, <1>5, <1>7, ThreadAtIs DEF ThreadOK, StartPC, Starting, Moves
<1> QED BY <1>1, <1>3, <1>7, <1>8, ThreadAtIs, NotCalling, ThreadStill

LEMMA CheckDoneInv ==
  ASSUME TimersInv, CheckDone
  PROVE  TimersInv'
<1>1. /\ ThreadAt("loop") /\ tt' = [tt EXCEPT !.pc = "next"]
      /\ UNCHANGED <<tick, tm, op, isr, lag, detached>>
  BY DEF CheckDone, Round
<1>2. tt' \in ThreadRecord /\ tt'.pc = "next"
  BY <1>1, ThreadAtIs DEF ThreadRecord, ThreadPC
<1>3. ThreadOK'
  BY <1>1, <1>2, ThreadAtIs DEF ThreadOK, StartPC
<1> QED BY <1>1, <1>2, <1>3, ThreadAtIs, NoMove, NotCalling, ThreadStill

(* The thread begins a call of a timeout function, or starts a periodic    *)
(* timer again.                                                            *)
LEMMA ThreadCalls ==
  ASSUME TimersInv, Moves(tm, tm', {}, tick, Low, High),
         UNCHANGED <<tick, isr, lag, detached>>, NEW o \in Op, NEW t \in Used,
         op' = [op EXCEPT !["timer"] = [pc |-> o, tmr |-> t]],
         o = "start" => t \in StartsOf("timer") /\ ~Starting("app", t),
         tm.ready, tt' \in ThreadRecord, tt'.pc \in {"loop", "return"},
         ~Starting("app", tt'.n),
         tt'.pc = "return" => tt'.t # NoTimer /\ ~Starting("app", tt'.t)
  PROVE  TimersInv'
<1>1. /\ op \in [Context -> [pc : OpPC, tmr : Timer \cup {NoTimer}]]
      /\ "timer" \in Context /\ "app" \in Context
  BY DEF TimersInv, TimersTypeOK, Context
<1>2. /\ op' \in [Context -> [pc : OpPC, tmr : Timer \cup {NoTimer}]]
      /\ op'["app"] = op["app"] /\ op'["timer"] = [pc |-> o, tmr |-> t]
      /\ op'["timer"].pc = o /\ op'["timer"].tmr = t
  BY <1>1 DEF Op, OpPC, Used
<1>3. CallOK("timer")'
  BY <1>2 DEF CallOK, Op, StartPC, WindowPC, StartsOf
<1>4. ThreadOK'
  BY <1>2 DEF ThreadOK, Op, StartPC, Starting, Moves
<1> QED BY <1>2, <1>3, <1>4, ThreadStill

LEMMA CallbackInv ==
  ASSUME TimersAssumption, OneStarter, TimersInv, Callback
  PROVE  TimersInv'
<1>1. /\ ThreadAt("call") /\ tt' = [tt EXCEPT !.pc = "return"]
      /\ UNCHANGED <<tick, tm, isr, lag, detached>>
      /\ \/ UNCHANGED op
         \/ \E co \in Calls(tt.t) :
              op' = [op EXCEPT !["timer"] = [pc |-> co[2], tmr |-> co[3]]]
  BY DEF Callback, Round
<1>2. /\ tt' \in ThreadRecord /\ tt'.pc = "return" /\ tt'.n = tt.n /\ tt'.t = tt.t
  BY <1>1, ThreadAtIs DEF ThreadRecord, ThreadPC
<1>3. /\ tt.t \in SoftTimer /\ tt.t # NoTimer /\ ~Starting("app", tt.t)
      /\ ~Starting("app", tt.n)
  BY <1>1, ThreadAtIs DEF ThreadOK, ThreadRecord
<1>4. Moves(tm, tm', {}, tick, Low, High)
  BY <1>1, NoMove
<1>5. CASE UNCHANGED op
  <2>1. ThreadOK'
    BY <1>1, <1>2, <1>3, <1>5, ThreadAtIs DEF ThreadOK, StartPC, Starting
  <2> QED BY <1>1, <1>2, <1>4, <1>5, <2>1, ThreadAtIs, NotCalling, ThreadStill
<1>6. ASSUME NEW co \in Calls(tt.t),
             op' = [op EXCEPT !["timer"] = [pc |-> co[2], tmr |-> co[3]]]
      PROVE  TimersInv'
  <2>1. co \in CallbackOp /\ co[1] = tt.t /\ co[2] \in Op /\ co[3] \in Used
    BY DEF Calls, TimersAssumption
  <2>2. co[2] = "start" => co[3] \in CallbackStarts(SoftTimer)
    BY <1>3, <2>1 DEF CallbackStarts
  <2>3. op["app"].pc \in WindowPC => op["app"].tmr \in AppStarts
    BY <1>1, ThreadAtIs DEF CallOK, StartsOf, WindowPC, StartPC
  <2>4. co[2] = "start" => co[3] \in StartsOf("timer") /\ ~Starting("app", co[3])
    BY <2>2, <2>3 DEF StartsOf, Starting, OneStarter
  <2> QED BY <1>1, <1>2, <1>3, <1>4, <1>6, <2>1, <2>4, ThreadAtIs, ThreadCalls
<1> QED BY <1>1, <1>5, <1>6

LEMMA CallbackReturnInv ==
  ASSUME TimersAssumption, TimersInv, CallbackReturn
  PROVE  TimersInv'
<1>1. /\ ThreadAt("return") /\ tt' = [tt EXCEPT !.pc = "loop", !.now = tick]
      /\ tm' = Clear(tm, tt.t)
      /\ op' = IF tt.t \in tm.periodic \cap tm.active
               THEN [op EXCEPT !["timer"] = [pc |-> "start", tmr |-> tt.t]] ELSE op
      /\ UNCHANGED <<tick, isr, lag, detached>>
  BY DEF CallbackReturn
<1>2. tt' \in ThreadRecord /\ tt'.pc = "loop" /\ tt'.n = tt.n
  BY <1>1, ThreadAtIs DEF ThreadRecord, ThreadPC
<1>3. /\ tt.t \in SoftTimer /\ ~Starting("app", tt.t) /\ ~Starting("app", tt.n)
  BY <1>1, ThreadAtIs DEF ThreadOK, ThreadRecord
<1>4. Moves(tm, tm', {}, tick, Low, High)
  BY <1>1, ClearMoves DEF TimersInv
<1>5. CASE op' = op
  <2>1. ThreadOK'
    BY <1>2, <1>3, <1>4, <1>5, <1>1, ThreadAtIs DEF ThreadOK, StartPC, Starting, Moves
  <2> QED BY <1>1, <1>2, <1>4, <1>5, <2>1, ThreadAtIs, NotCalling, ThreadStill
<1>6. CASE tt.t \in tm.periodic \cap tm.active
  <2>1. tt.t \in Used /\ tt.t \in StartsOf("timer")
    BY <1>3, <1>6 DEF TimersInv, TimersAssumption, Used, StartsOf, Restarted
  <2>2. "start" \in Op
    BY DEF Op
  <2> QED BY <1>1, <1>2, <1>3, <1>4, <1>6, <2>1, <2>2, ThreadAtIs, ThreadCalls
<1> QED BY <1>1, <1>5, <1>6

-----------------------------------------------------------------------------
LEMMA TimersInitInv ==
  ASSUME TimersAssumption, InReach, TimersInit
  PROVE  TimersInv
<1>1. PICK d \in [Timer -> 0 .. TickMax] :
        /\ \A t \in Timer : d[t] \in InitTicks[t]
        /\ tm = [ list |-> [l \in {"hard", "soft"} |-> <<>>],
                  active |-> {}, periodic |-> Periodic,
                  timeout |-> [t \in Timer |-> 0], init |-> d, ready |-> TRUE ]
  BY DEF TimersInit
<1>2. /\ tick = FirstTick /\ op = [c \in Context |-> NoOp] /\ isr = "none"
      /\ tt = [pc |-> "next", next |-> 0, now |-> 0, n |-> NoTimer, t |-> NoTimer,
               late |-> 0]
      /\ lag = 0 /\ detached = {}
  BY DEF TimersInit
<1>3. tm \in Memory
  BY <1>1, TickSizes DEF Memory, TimersAssumption, Used
<1>4. TimersTypeOK
  BY <1>2, <1>3, TickSizes
     DEF TimersTypeOK, TimersAssumption, OpPC, ThreadPC, NoOp, TickMax
<1>5. \A l \in TimerLists : tm.list[l] = <<>>
  BY <1>1 DEF TimerLists
<1>6. ListsIn(tm, tick, Low, High)
  BY <1>3, <1>5 DEF ListsIn, Injective, Sorted, IsIn
<1>7. InitsKnown(tm) /\ tm.periodic \subseteq Periodic
  BY <1>1 DEF InitsKnown, Used
<1>8. NoWrap => tick <= LastTick
  BY <1>2 DEF NoWrap
<1>9. ASSUME NEW c \in Context PROVE CallOK(c)
  BY <1>2 DEF CallOK, NoOp, StartPC, WindowPC
<1>10. ThreadOK
  BY <1>2 DEF ThreadOK, NoOp, StartPC, Context
<1> QED BY <1>4, <1>6, <1>7, <1>8, <1>9, <1>10 DEF TimersInv

LEMMA TimersStutter ==
  ASSUME TimersInv, UNCHANGED timersVars
  PROVE  TimersInv'
<1>1. UNCHANGED <<tick, tm, op, isr, tt, lag, detached>>
  BY DEF timersVars
<1>2. Moves(tm, tm', {}, tick, Low, High) /\ detached' \subseteq Timer
  BY <1>1, NoMove DEF TimersInv, TimersTypeOK
<1> QED BY <1>1, <1>2, InterruptStill

LEMMA TimersNextInv ==
  ASSUME TimersAssumption, InReach, OneStarter, TimersInv, [TimersNext]_timersVars
  PROVE  TimersInv'
<1>1. CASE AppCall
  BY <1>1, AppCallInv
<1>2. CASE SetTime
  BY <1>2, SetTimeInv
<1>3. ASSUME NEW c \in Context,
             \/ StartRemove(c) \/ StartStamp(c) \/ StartInsert(c) \/ StartWake(c)
             \/ StopTest(c) \/ StopUnlink(c) \/ StopClear(c) \/ Detach(c)
      PROVE  TimersInv'
  BY <1>3, StartStepsInv, StopStepsInv
<1>4. CASE TickIncrease \/ ExpireSleep \/ ExpireHard \/ CheckEnd \/ IsrStarts
  BY <1>4, TickInv, ExpireSleepInv, ExpireHardInv, CheckEndInv, IsrStartsInv
<1>5. CASE NextTimeout \/ SuspendSelf \/ ReadTick \/ DelaySelf
  BY <1>5, NextTimeoutInv, SuspendSelfInv, ReadTickInv, DelaySelfInv
<1>6. CASE CheckBegin \/ CallSoft \/ CheckDone \/ Callback \/ CallbackReturn
  BY <1>6, CheckBeginInv, CallSoftInv, CheckDoneInv, CallbackInv, CallbackReturnInv
<1>7. CASE UNCHANGED timersVars
  BY <1>7, TimersStutter
<1> QED BY <1>1, <1>2, <1>3, <1>4, <1>5, <1>6, <1>7 DEF TimersNext

THEOREM TimersInvariant ==
  ASSUME TimersAssumption, InReach, OneStarter
  PROVE  TimersSpec => []TimersInv
<1>1. TimersInit => TimersInv
  BY TimersInitInv
<1>2. TimersInv /\ [TimersNext]_timersVars => TimersInv'
  BY TimersNextInv
<1> QED BY <1>1, <1>2, PTL DEF TimersSpec

(* timer.c:339-366 links each timer at its place, across the wrap of the   *)
(* tick, whatever the calls, the ticks and the interrupts in between.      *)
THEOREM TimersSorted ==
  ASSUME TimersAssumption, InReach, OneStarter
  PROVE  TimersSpec => []SortedLists
<1>1. ASSUME TimersInv PROVE SortedLists
  <2> SUFFICES ASSUME NEW l \in TimerLists,
                      NEW i \in DOMAIN tm.list[l], NEW j \in DOMAIN tm.list[l], i < j
               PROVE  /\ tm.list[l][i] # tm.list[l][j]
                      /\ Ahead(tm.timeout[tm.list[l][i]], tm.timeout[tm.list[l][j]]) < Half
    BY DEF SortedLists, TimerLists
  <2> DEFINE s == tm.list[l]
             a == tm.timeout[s[i]]
             b == tm.timeout[s[j]]
  <2>1. /\ tm \in Memory /\ s \in Seq(Timer) /\ Injective(s) /\ Sorted(s, Offs(tm, tick))
        /\ ListsIn(tm, tick, Low, High)
    BY <1>1 DEF TimersInv, TimersTypeOK, Memory, ListsIn, TimerLists
  <2>2. tick \in 0 .. TickMax /\ Window(Low, High)
    BY <1>1, WindowFits
  <2>3. s[i] \in Timer /\ s[j] \in Timer /\ IsIn(s, s[i]) /\ IsIn(s, s[j])
    BY <2>1 DEF IsIn
  <2>4. i \in Int /\ j \in Int /\ s[i] # s[j]
    BY <2>1 DEF Injective
  <2>5. /\ a \in 0 .. TickMax /\ b \in 0 .. TickMax
        /\ Offs(tm, tick)[s[i]] = Dist(tick, a) /\ Offs(tm, tick)[s[j]] = Dist(tick, b)
    BY <2>1, <2>2, <2>3, OffsAreInt
  <2>6. Dist(tick, a) \in Low .. High /\ Dist(tick, b) \in Low .. High
    BY <2>1, <2>3 DEF ListsIn
  <2>7. Dist(tick, a) <= Dist(tick, b)
    BY <2>1, <2>5 DEF Sorted
  <2> HIDE DEF a, b
  <2>8. Ahead(a, b) < Half
    BY <2>2, <2>5, <2>6, <2>7, CompareTicks
  <2> QED BY <2>4, <2>8 DEF a, b
<1>2. TimersInv => SortedLists
  BY <1>1
<1> QED BY <1>2, TimersInvariant, PTL

(* The check of the tick interrupt looks at the first timer only, and yet  *)
(* leaves none behind that is due (timer.c:432-488).                       *)
THEOREM CheckIsComplete ==
  ASSUME TimersAssumption, InReach, OneStarter
  PROVE  TimersSpec => CheckLeavesNothingDue
<1>1. ASSUME TimersInv, [TimersNext]_timersVars PROVE [ChecksAll]_timersVars
  <2> SUFFICES ASSUME isr = "check", isr' = "none", NEW i \in DOMAIN tm.list["hard"]
               PROVE  ~Due(tm, tm.list["hard"][i], tick)
    BY DEF ChecksAll
  <2>1. ~HardDue
    BY <1>1 DEF TimersNext, timersVars, AppCall, SetTime, StartRemove, StartStamp,
      StartInsert, StartWake, StopTest, StopUnlink, StopClear, Detach, In, May,
      TickIncrease, ExpireSleep, ExpireHard, CheckEnd, IsrStarts, NextTimeout,
      SuspendSelf, ReadTick, DelaySelf, CheckBegin, CallSoft, CheckDone, Callback,
      CallbackReturn, ThreadAt, NotChecking, Looking
  <2> QED BY <1>1, <2>1, NoneDue
<1>2. TimersInv /\ [TimersNext]_timersVars => [ChecksAll]_timersVars
  BY <1>1
<1> QED BY <1>2, TimersInvariant, PTL DEF TimersSpec, CheckLeavesNothingDue

-----------------------------------------------------------------------------
(* The timer thread does not oversleep.  While it is between its look at   *)
(* the soft list and its sleep nothing that expires sooner comes in, and   *)
(* once it sleeps, what comes in is followed by a call that wakes it.      *)

WatchInv ==
  /\ op["timer"].pc # "none" => tt.pc \in {"loop", "return"}
  /\ op["app"].pc = "start_wake" => op["app"].tmr \in SoftTimer
  /\ ~tm.ready => tt.pc = "check"
  /\ tt.pc = "decide" =>
       \A x \in SoftTimer : Linked(tm, x) => tt.next # TickMax /\ tt.next <= tm.timeout[x]
  /\ tt.pc = "sleep" =>
       \A x \in SoftTimer : Linked(tm, x) => tick + tt.next <= tm.timeout[x] + tt.late
  /\ ~tm.ready =>
       \/ op["app"].pc = "start_wake"
       \/ \A x \in SoftTimer : Linked(tm, x) =>
            /\ Linked(tm, ThreadTimer)
            /\ tt.late <= tm.timeout[ThreadTimer]
            /\ tm.timeout[ThreadTimer] <= tm.timeout[x] + tt.late

LEMMA WatchStill ==
  ASSUME TimersAssumption, WatchInv, NEW A \in SUBSET Used,
         Moves(tm, tm', A, tick, Low, High), Keeps(tm, tm'),
         \A x \in A \cap SoftTimer : ~Linked(tm', x),
         tick' = tick, tt'.pc = tt.pc, tt'.next = tt.next, tt'.late = tt.late,
         op'["timer"].pc # "none" => op["timer"].pc # "none",
         op["app"].pc = "start_wake" => op'["app"].pc = "start_wake" \/ tm'.ready,
         op'["app"].pc = "start_wake" => op'["app"].tmr \in SoftTimer
  PROVE  WatchInv'
<1>1. ASSUME NEW x \in SoftTimer, Linked(tm', x)
      PROVE  Linked(tm, x) /\ tm'.timeout[x] = tm.timeout[x]
  BY <1>1 DEF Moves, TimersAssumption
<1>2. tm'.timeout[ThreadTimer] = tm.timeout[ThreadTimer]
  BY DEF Moves, TimersAssumption, Used
<1>3. tt'.pc = "decide" =>
        \A x \in SoftTimer : Linked(tm', x) => tt'.next # TickMax /\ tt'.next <= tm'.timeout[x]
  BY <1>1 DEF WatchInv
<1>5. tt'.pc = "sleep" =>
        \A x \in SoftTimer : Linked(tm', x) => tick' + tt'.next <= tm'.timeout[x] + tt'.late
  BY <1>1 DEF WatchInv
<1>4. ASSUME ~tm'.ready
      PROVE  /\ tt'.pc = "check"
             /\ \/ op'["app"].pc = "start_wake"
                \/ \A x \in SoftTimer : Linked(tm', x) =>
                     /\ Linked(tm', ThreadTimer)
                     /\ tt'.late <= tm'.timeout[ThreadTimer]
                     /\ tm'.timeout[ThreadTimer] <= tm'.timeout[x] + tt'.late
  <2>1. ~tm.ready
    BY <1>4 DEF Moves
  <2>2. Linked(tm, ThreadTimer) => Linked(tm', ThreadTimer)
    BY <1>4 DEF Keeps
  <2> QED BY <1>1, <1>2, <1>4, <2>1, <2>2 DEF WatchInv
<1> QED BY <1>3, <1>4, <1>5 DEF WatchInv, Linked

LEMMA WatchAwake ==
  ASSUME tm'.ready, tt'.pc \notin {"decide", "sleep"},
         op'["timer"].pc # "none" => tt'.pc \in {"loop", "return"},
         op'["app"].pc = "start_wake" => op'["app"].tmr \in SoftTimer
  PROVE  WatchInv'
BY DEF WatchInv

(* The memory as it is *)
LEMMA WatchSame ==
  ASSUME TimersAssumption, TimersInv, WatchInv, tm' = tm,
         tick' = tick, tt'.pc = tt.pc, tt'.next = tt.next, tt'.late = tt.late,
         op'["timer"].pc # "none" => op["timer"].pc # "none",
         op["app"].pc = "start_wake" => op'["app"].pc = "start_wake",
         op'["app"].pc = "start_wake" => op'["app"].tmr \in SoftTimer
  PROVE  WatchInv'
<1> DEFINE A == {}
<1>1. Moves(tm, tm', A, tick, Low, High)
  BY NoMove
<1>2. Keeps(tm, tm')
  BY DEF Keeps
<1>3. A \in SUBSET Used /\ \A x \in A \cap SoftTimer : ~Linked(tm', x)
  OBVIOUS
<1> HIDE DEF A
<1> QED BY <1>1, <1>2, <1>3, WatchStill

(* A call that goes on, other than to the wake-up or from it               *)
LEMMA WatchCall ==
  ASSUME TimersAssumption, TimersInv, WatchInv, NEW c \in Context, NEW p \in OpPC,
         OpGo(c, p), p # "start_wake", op[c].pc \notin {"none", "start_wake"},
         NEW A \in SUBSET Used, Moves(tm, tm', A, tick, Low, High), Keeps(tm, tm'),
         \A x \in A \cap SoftTimer : ~Linked(tm', x),
         UNCHANGED <<tick, tt>>
  PROVE  WatchInv'
<1>1. /\ op'[c].pc = p
      /\ \A b \in Context : b # c => op'[b] = op[b]
  BY OpGoIs DEF TimersInv
<1>2. /\ op'["timer"].pc # "none" => op["timer"].pc # "none"
      /\ op["app"].pc = "start_wake" => op'["app"].pc = "start_wake"
      /\ op'["app"].pc = "start_wake" => op'["app"].tmr \in SoftTimer
  BY <1>1 DEF Context, WatchInv
<1> QED BY <1>2, WatchStill

LEMMA WatchCallStill ==
  ASSUME TimersAssumption, TimersInv, WatchInv, NEW c \in Context, NEW p \in OpPC,
         OpGo(c, p), p # "start_wake", op[c].pc \notin {"none", "start_wake"},
         Moves(tm, tm', {}, tick, Low, High), Keeps(tm, tm'),
         UNCHANGED <<tick, tt>>
  PROVE  WatchInv'
<1> DEFINE A == {}
<1>1. /\ A \in SUBSET Used /\ \A x \in A \cap SoftTimer : ~Linked(tm', x)
      /\ Moves(tm, tm', A, tick, Low, High)
  OBVIOUS
<1> HIDE DEF A
<1> QED BY <1>1, WatchCall

LEMMA StartStepsWatch ==
  ASSUME TimersAssumption, InReach, TimersInv, WatchInv, NEW c \in Context,
         StartRemove(c) \/ StartStamp(c) \/ StartInsert(c) \/ StartWake(c)
  PROVE  WatchInv'
<1> DEFINE t == op[c].tmr
<1>1. /\ ListsIn(tm, tick, Low, High) /\ InitsKnown(tm) /\ CallOK(c)
      /\ TimersTypeOK /\ ThreadOK
  BY DEF TimersInv
<1>2. /\ Fits(Low, High) /\ Window(Low, High) /\ tick \in 0 .. TickMax
      /\ isr = "none" => Low = Late
  BY WindowFits
<1>3. CASE StartRemove(c)
  <2> DEFINE a == TimerRemove(tm, t)
  <2>1. In(c, "start") /\ OpGo(c, "start_stamp") /\ tm' = Clear(a, t) /\ UNCHANGED <<tick, tt>>
    BY <1>3 DEF StartRemove
  <2>2. t \in Timer /\ t # ThreadTimer
    BY <1>1, <2>1 DEF CallOK, In, Used
  <2>3. Moves(tm, a, {}, tick, Low, High) /\ Keeps(tm, a)
    BY <1>1, <2>2, RemoveMoves
  <2> HIDE DEF a
  <2>4. Moves(a, tm', {}, tick, Low, High) /\ Keeps(a, tm')
    <3>1. ListsIn(a, tick, Low, High)
      BY <2>3 DEF Moves
    <3> QED BY <2>1, <3>1, ClearMoves
  <2>5. Moves(tm, tm', {}, tick, Low, High)
    BY <2>3, <2>4, MovesTwice
  <2>6. Keeps(tm, tm')
    BY <2>3, <2>4, KeepsTwice DEF Moves
  <2> QED BY <2>1, <2>5, <2>6, WatchCallStill DEF OpPC, In
<1>4. CASE StartStamp(c)
  <2>1. In(c, "start_stamp") /\ OpGo(c, "start_insert") /\ tm' = Stamp(tm, t) /\ UNCHANGED <<tick, tt>>
    BY <1>4 DEF StartStamp
  <2>2. t \in Used /\ t \in Timer /\ ~Linked(tm, t)
    BY <1>1, <2>1 DEF CallOK, Used, WindowPC, In
  <2>3. tm.init[t] \in 0 .. Half - 1
    <3>1. tm.init[t] \in 1 .. High
      BY <1>1, <1>2, <2>2 DEF InitsKnown, Fits
    <3> QED BY <1>2, <3>1, TickSizes DEF Window
  <2>4. Moves(tm, tm', {t}, tick, Low, High) /\ ~Linked(tm', t) /\ Keeps(tm, tm')
    BY <1>1, <1>2, <2>1, <2>2, <2>3, StampMoves
  <2>5. {t} \in SUBSET Used /\ \A x \in {t} \cap SoftTimer : ~Linked(tm', x)
    BY <2>2, <2>4
  <2> QED BY <2>1, <2>4, <2>5, WatchCall DEF OpPC, In
<1>5. CASE StartInsert(c)
  <2> DEFINE p == IF t \in SoftTimer THEN "start_wake" ELSE "none"
  <2>1. In(c, "start_insert") /\ OpGo(c, p) /\ tm' = Insert(tm, t) /\ UNCHANGED <<tick, tt>>
    BY <1>5 DEF StartInsert
  <2>2. May(c) /\ op[c].pc = "start_insert" /\ isr = "none"
    BY <2>1 DEF In, May
  <2>3. /\ t \in Timer /\ t \in Used /\ ~Linked(tm, t)
        /\ Dist(tick, tm.timeout[t]) \in Low .. High
    BY <1>1, <1>2, <2>2 DEF CallOK, Used, WindowPC
  <2>4. Moves(tm, tm', {t}, tick, Low, High) /\ Keeps(tm, tm')
    BY <1>1, <1>2, <2>1, <2>3, InsertMoves
  <2>5. /\ p \in OpPC /\ op'[c].pc = p /\ op'[c].tmr = IF p = "none" THEN NoTimer ELSE t
        /\ \A b \in Context : b # c => op'[b] = op[b]
    <3>1. p \in OpPC
      BY DEF OpPC
    <3> HIDE DEF p
    <3> QED BY <1>1, <2>1, <3>1, OpGoIs
  <2>6. CASE c = "timer"
    <3>1. tm'.ready /\ tt'.pc \in {"loop", "return"} /\ op'["app"] = op["app"]
      BY <2>1, <2>2, <2>4, <2>5, <2>6 DEF May, Moves, WatchInv, Context
    <3>2. op["app"].pc = "start_wake" => op["app"].tmr \in SoftTimer
      BY DEF WatchInv
    <3> QED BY <3>1, <3>2, WatchAwake
  <2>7. CASE c = "app" /\ t \in SoftTimer
    <3>1. /\ ~tm.ready /\ tt'.pc = "check" /\ op'["timer"] = op["timer"]
          /\ op'["app"].pc = "start_wake" /\ op'["app"].tmr = t
      BY <2>1, <2>2, <2>5, <2>7 DEF May, WatchInv, Context
    <3>2. op["timer"].pc = "none"
      BY <1>1, <3>1 DEF ThreadOK
    <3> QED BY <2>7, <3>1, <3>2 DEF WatchInv
  <2>8. CASE c = "app" /\ t \notin SoftTimer
    <3>1. {t} \in SUBSET Used /\ \A x \in {t} \cap SoftTimer : ~Linked(tm', x)
      BY <2>3, <2>8
    <3>2. p = "none" /\ p \in OpPC
      BY <2>8 DEF OpPC
    <3> HIDE DEF p
    <3> QED BY <2>1, <2>2, <2>4, <3>1, <3>2, WatchCall
  <2> QED BY <2>6, <2>7, <2>8 DEF Context
<1>6. CASE StartWake(c)
  <2>1. In(c, "start_wake") /\ OpGo(c, "none") /\ tm' = WakeIfWaiting(tm, t) /\ UNCHANGED <<tick, tt>>
    BY <1>6 DEF StartWake
  <2>2. May(c) /\ op[c].pc = "start_wake"
    BY <2>1 DEF In
  <2>3. /\ op'[c].pc = "none" /\ \A b \in Context : b # c => op'[b] = op[b]
    BY <1>1, <2>1, OpGoIs DEF OpPC
  <2>4. CASE c = "timer"
    <3>1. tm' = tm /\ op'["app"] = op["app"] /\ op'["timer"].pc = "none"
      BY <2>1, <2>2, <2>3, <2>4 DEF WakeIfWaiting, May, Context
    <3>2. op["app"].pc = "start_wake" => op["app"].tmr \in SoftTimer
      BY DEF WatchInv
    <3> QED BY <2>1, <3>1, <3>2, WatchSame
  <2>5. CASE c = "app"
    <3>1. t \in SoftTimer
      BY <2>2, <2>5 DEF WatchInv
    <3>2. tm'.ready
      BY <1>1, <2>1, <3>1, WakeMoves
    <3>3. /\ ~tm.ready /\ tt'.pc = "check" /\ op'["timer"] = op["timer"]
          /\ op'["app"].pc = "none"
      BY <2>1, <2>2, <2>3, <2>5 DEF May, WatchInv, Context
    <3>4. op["timer"].pc = "none"
      BY <1>1, <3>3 DEF ThreadOK
    <3> QED BY <3>2, <3>3, <3>4, WatchAwake
  <2> QED BY <2>4, <2>5 DEF Context
<1> QED BY <1>3, <1>4, <1>5, <1>6

LEMMA StopStepsWatch ==
  ASSUME TimersAssumption, TimersInv, WatchInv, NEW c \in Context,
         StopTest(c) \/ StopUnlink(c) \/ StopClear(c) \/ Detach(c)
  PROVE  WatchInv'
<1> DEFINE t == op[c].tmr
<1>1. ListsIn(tm, tick, Low, High) /\ CallOK(c)
  BY DEF TimersInv
<1>2. op[c].pc # "none" => t \in Timer /\ t # ThreadTimer
  BY <1>1 DEF CallOK, Used
<1>3. CASE StopTest(c)
  <2> DEFINE p == IF t \in tm.active THEN "stop_unlink" ELSE "none"
  <2>1. In(c, "stop") /\ OpGo(c, p) /\ tm' = tm /\ UNCHANGED <<tick, tt>>
    BY <1>3 DEF StopTest
  <2>2. p \in OpPC /\ p # "start_wake"
    BY DEF OpPC
  <2> HIDE DEF p
  <2>3. Moves(tm, tm', {}, tick, Low, High) /\ Keeps(tm, tm')
    BY <2>1, NoMove DEF Keeps
  <2> QED BY <2>1, <2>2, <2>3, WatchCallStill DEF In
<1>4. CASE StopUnlink(c) \/ Detach(c)
  <2> DEFINE p == IF StopUnlink(c) THEN "stop_clear" ELSE "none"
  <2>1. /\ In(c, "stop_unlink") \/ In(c, "detach")
        /\ OpGo(c, p) /\ tm' = TimerRemove(tm, t) /\ UNCHANGED <<tick, tt>>
    BY <1>4 DEF StopUnlink, Detach
  <2>2. p \in OpPC /\ p # "start_wake"
    BY DEF OpPC
  <2> HIDE DEF p
  <2>3. Moves(tm, tm', {}, tick, Low, High) /\ Keeps(tm, tm')
    BY <1>1, <1>2, <2>1, RemoveMoves DEF In
  <2> QED BY <2>1, <2>2, <2>3, WatchCallStill DEF In
<1>5. CASE StopClear(c)
  <2>1. In(c, "stop_clear") /\ OpGo(c, "none") /\ tm' = Clear(tm, t) /\ UNCHANGED <<tick, tt>>
    BY <1>5 DEF StopClear
  <2>2. Moves(tm, tm', {}, tick, Low, High) /\ Keeps(tm, tm')
    BY <1>1, <2>1, ClearMoves
  <2> QED BY <2>1, <2>2, WatchCallStill DEF OpPC, In
<1> QED BY <1>3, <1>4, <1>5

LEMMA OthersWatch ==
  ASSUME TimersAssumption, InReach, TimersInv, WatchInv,
         AppCall \/ SetTime \/ TickIncrease \/ CheckEnd \/ UNCHANGED timersVars
  PROVE  WatchInv'
<1>1. CASE AppCall
  <2>1. PICK o \in AppOp : op' = [op EXCEPT !["app"] = [pc |-> o[1], tmr |-> o[2]]]
    BY <1>1 DEF AppCall
  <2>2. In("app", "none") /\ UNCHANGED <<tick, tm, tt>>
    BY <1>1 DEF AppCall
  <2>3. o[1] # "start_wake"
    BY DEF TimersAssumption, Op
  <2>4. op'["timer"] = op["timer"] /\ op'["app"].pc = o[1]
    BY <2>1 DEF TimersInv, TimersTypeOK, Context
  <2> QED BY <2>2, <2>3, <2>4, WatchSame DEF In
<1>2. CASE SetTime
  <2>1. PICK o \in AppOp, d \in 0 .. TickMax :
          d \in InitTicks[o[2]] /\ tm' = [tm EXCEPT !.init[o[2]] = d]
    BY <1>2 DEF SetTime
  <2>2. /\ tm'.list = tm.list /\ tm'.timeout = tm.timeout /\ tm'.ready = tm.ready
        /\ op' = op /\ UNCHANGED <<tick, tt>>
    BY <1>2, <2>1 DEF SetTime, TimersInv, TimersTypeOK, Memory
  <2> QED BY <2>2 DEF WatchInv, Linked
<1>3. CASE TickIncrease /\ tt.pc = "sleep"
  <2>1. /\ tt \in ThreadRecord /\ tm \in Memory /\ tm.ready /\ NoWrap
        /\ tick \in 0 .. TickMax /\ tt.late \in Int /\ tt.next \in Int
    BY <1>3 DEF TimersInv, TimersTypeOK, ThreadOK, ThreadRecord
  <2>2. tm' = tm /\ op' = op /\ tt' = [tt EXCEPT !.late = @ + 1]
    BY <1>3 DEF TickIncrease
  <2>3. /\ tt'.pc = "sleep" /\ tt'.next = tt.next /\ tt'.late = tt.late + 1
    BY <1>3, <2>1, <2>2 DEF ThreadRecord
  <2>4. tick' = tick + 1
    <3>1. tick < Half
      BY <2>1, WindowFits
    <3> QED BY <1>3, <2>1, <3>1, NextTick, TickSizes DEF TickIncrease
  <2>5. \A x \in SoftTimer : tm.timeout[x] \in Int
    BY <2>1, TickSizes DEF Memory, TimersAssumption
  <2>6. \A x \in SoftTimer : Linked(tm, x) => tick' + tt'.next <= tm.timeout[x] + tt'.late
    BY <1>3, <2>1, <2>3, <2>4, <2>5 DEF WatchInv
  <2> QED BY <1>3, <2>1, <2>2, <2>3, <2>6 DEF WatchInv, Linked
<1>4. CASE TickIncrease /\ tt.pc # "sleep"
  <2>1. tm' = tm /\ op' = op /\ tt' = tt
    BY <1>4 DEF TickIncrease
  <2> QED BY <1>4, <2>1 DEF WatchInv, Linked
<1>5. CASE CheckEnd \/ UNCHANGED timersVars
  <2>1. tm' = tm /\ op' = op /\ UNCHANGED <<tick, tt>>
    BY <1>5 DEF CheckEnd, timersVars
  <2> QED BY <2>1 DEF WatchInv, Linked
<1> QED BY <1>1, <1>2, <1>3, <1>4, <1>5

LEMMA InterruptsWatch ==
  ASSUME TimersAssumption, InReach, OneStarter, SoftInThreads, TimersInv, WatchInv,
         ExpireSleep \/ ExpireHard \/ IsrStarts
  PROVE  WatchInv'
<1>1. op' = op /\ UNCHANGED <<tick, tt>>
  BY DEF ExpireSleep, ExpireHard, IsrStarts
<1>2. \E B \in SUBSET Used :
        /\ Moves(tm, tm', B, tick, Low, High) /\ Keeps(tm, tm')
        /\ B \cap SoftTimer = {}
  <2>1. CASE ExpireSleep
    <3>1. {} \in SUBSET Used /\ {} \cap SoftTimer = {}
      OBVIOUS
    <3>2. Keeps(tm, tm') /\ Moves(tm, tm', {}, tick, Low, High)
      BY <2>1, ExpireSleepMoves DEF Keeps
    <3> QED BY <3>1, <3>2
  <2>2. CASE ExpireHard
    BY <2>2, ExpireHardMoves
  <2>3. CASE IsrStarts
    <3>1. PICK t \in IsrStart : tm' = Start(tm, t)
      BY <2>3 DEF IsrStarts
    <3>2. t \in Used /\ {t} \cap SoftTimer = {} /\ {t} \in SUBSET Used
      BY DEF TimersAssumption, InterruptStarts, SoftInThreads
    <3>3. /\ ListsIn(tm, tick, Low, High) /\ InitsKnown(tm)
          /\ Fits(Low, High) /\ tick \in 0 .. TickMax
      BY WindowFits DEF TimersInv
    <3>4. Moves(tm, tm', {t}, tick, Low, High) /\ Keeps(tm, tm')
      BY <3>1, <3>2, <3>3, StartKnown
    <3> QED BY <3>2, <3>4
  <2> QED BY <2>1, <2>2, <2>3
<1>3. op["app"].pc = "start_wake" => op["app"].tmr \in SoftTimer
  BY DEF WatchInv
<1> QED BY <1>1, <1>2, <1>3, WatchStill

(* The first soft timer expires first.                                     *)
LEMMA SoftOrder ==
  ASSUME TimersAssumption, InReach, TimersInv, NEW x \in SoftTimer, Linked(tm, x)
  PROVE  /\ tm.list["soft"] # <<>> /\ NoWrap
         /\ tm.timeout[tm.list["soft"][1]] \in 0 .. Half - 1
         /\ tm.timeout[tm.list["soft"][1]] <= tm.timeout[x]
<1> DEFINE s == tm.list["soft"]
           key == Offs(tm, tick)
           y == s[1]
<1>1. /\ tm \in Memory /\ s \in Seq(Timer) /\ Sorted(s, key) /\ tick \in 0 .. TickMax
      /\ \A z \in Timer : IsIn(s, z) => Dist(tick, tm.timeout[z]) \in Low .. High
  BY DEF TimersInv, TimersTypeOK, Memory, ListsIn, TimerLists
<1>2. PICK i \in DOMAIN s : s[i] = x
  BY DEF Linked, ListOf, IsIn
<1>3. s # <<>> /\ 1 \in DOMAIN s /\ i \in 1 .. Len(s)
  BY <1>1, <1>2
<1>4. /\ NoWrap /\ y \in SoftTimer /\ Linked(tm, y) /\ tm.timeout[y] \in 0 .. Half - 1
  BY <1>3, FirstSoftIs
<1>5. /\ tick < Half /\ tick <= LastTick /\ LastTick \in Nat
      /\ Low = -tick /\ High = Half - 1 - LastTick
  BY <1>4, WindowFits
<1>6. x \in Timer /\ y \in Timer /\ IsIn(s, x) /\ IsIn(s, y)
  BY <1>2, <1>3, <1>4 DEF TimersAssumption, IsIn
<1>7. /\ tm.timeout[x] \in 0 .. TickMax /\ tm.timeout[y] \in 0 .. TickMax
      /\ key[x] = Dist(tick, tm.timeout[x]) /\ key[y] = Dist(tick, tm.timeout[y])
      /\ key[x] \in Int /\ key[y] \in Int
  BY <1>1, <1>6, OffsAreInt
<1>8. key[y] <= key[x]
  <2>1. CASE i = 1
    BY <1>2, <1>7, <2>1
  <2>2. CASE 1 < i
    BY <1>1, <1>2, <1>3, <2>2 DEF Sorted
  <2> QED BY <1>3, <2>1, <2>2
<1> DEFINE a == tm.timeout[x]
           b == tm.timeout[y]
<1>9. /\ a \in 0 .. TickMax /\ b \in 0 .. Half - 1 /\ b \in 0 .. TickMax
      /\ tick \in 0 .. TickMax /\ Dist(tick, a) \in Low .. High /\ Dist(tick, b) \in Low .. High
      /\ Dist(tick, b) <= Dist(tick, a)
  BY <1>1, <1>4, <1>6, <1>7, <1>8
<1> HIDE DEF a, b, key
<1>10. /\ Ahead(tick, a) = IF a >= tick THEN a - tick ELSE a - tick + TickMod
       /\ Ahead(tick, b) = IF b >= tick THEN b - tick ELSE b - tick + TickMod
  BY <1>1, <1>9, AheadIs
<1>11. Dist(tick, a) = a - tick
  BY <1>5, <1>9, <1>10, TickSizes DEF Dist
<1>12. Dist(tick, b) = b - tick
  BY <1>5, <1>9, <1>10, TickSizes DEF Dist
<1>13. b <= a
  BY <1>9, <1>11, <1>12, TickSizes
<1> QED BY <1>3, <1>4, <1>13 DEF a, b

LEMMA SleepWatch ==
  ASSUME TimersAssumption, InReach, TimersInv, WatchInv,
         NextTimeout \/ SuspendSelf \/ ReadTick \/ DelaySelf
  PROVE  WatchInv'
<1>0. op["app"].pc = "start_wake" => op["app"].tmr \in SoftTimer
  BY DEF WatchInv
<1>1. CASE NextTimeout
  <2> DEFINE z == IF tm.list["soft"] = <<>> THEN TickMax ELSE tm.timeout[tm.list["soft"][1]]
  <2>1. /\ ThreadAt("next") /\ tt' = [tt EXCEPT !.pc = "decide", !.next = z]
        /\ tm' = tm /\ op' = op
    BY <1>1 DEF NextTimeout
  <2>2. \A x \in SoftTimer : Linked(tm, x) => z # TickMax /\ z <= tm.timeout[x]
    BY SoftOrder, TickSizes
  <2> HIDE DEF z
  <2>3. tt'.next = z /\ tm.ready /\ op["timer"].pc = "none"
    BY <2>1, ThreadAtIs DEF ThreadRecord
  <2>4. tm'.ready /\ op'["timer"].pc = "none"
        /\ \A x \in SoftTimer : Linked(tm', x) => tt'.next # TickMax /\ tt'.next <= tm'.timeout[x]
    BY <2>1, <2>2, <2>3
  <2> QED BY <1>0, <2>1, <2>4 DEF WatchInv
<1>2. CASE SuspendSelf
  <2> DEFINE a == Stop(tm, ThreadTimer)
  <2>1. /\ ThreadAt("decide") /\ tt.next = TickMax /\ op' = op
        /\ tt' = [tt EXCEPT !.pc = "check"] /\ tm' = [a EXCEPT !.ready = FALSE]
    BY <1>2 DEF SuspendSelf, Round
  <2>2. /\ tt'.pc = "check" /\ tt.pc = "decide" /\ op["timer"].pc = "none"
    BY <2>1, ThreadAtIs DEF ThreadRecord
  <2>3. Moves(tm, a, {}, tick, Low, High)
    BY StopMoves DEF TimersInv, TimersAssumption
  <2> HIDE DEF a
  <2>4. tm'.list = a.list
    BY <2>1, <2>3 DEF Moves, ListsIn, Memory
  <2>5. \A x \in SoftTimer : ~Linked(tm', x)
    <3>1. \A x \in SoftTimer : ~Linked(tm, x)
      BY <2>1, <2>2 DEF WatchInv
    <3> QED BY <2>3, <2>4, <3>1 DEF Moves, Linked, TimersAssumption
  <2> QED BY <1>0, <2>1, <2>2, <2>5 DEF WatchInv
<1>3. CASE ReadTick
  <2> DEFINE d == Ahead(tick, tt.next)
  <2>1. /\ ThreadAt("decide") /\ tt.next # TickMax /\ UNCHANGED <<tick, tm, op>>
        /\ tt' = IF d < Half THEN [tt EXCEPT !.pc = "sleep", !.next = d, !.late = 0]
                             ELSE [tt EXCEPT !.pc = "check"]
    BY <1>3 DEF ReadTick
  <2>2. tt \in ThreadRecord /\ tt.pc = "decide" /\ op["timer"].pc = "none" /\ tm.ready
    BY <2>1, ThreadAtIs
  <2>3. CASE ~(d < Half)
    <3>1. tt'.pc = "check"
      BY <2>1, <2>2, <2>3 DEF ThreadRecord
    <3> QED BY <1>0, <2>1, <2>2, <3>1, WatchAwake
  <2>4. CASE d < Half
    <3>1. /\ tick \in 0 .. TickMax /\ tt.next \in 0 .. TickMax /\ NoWrap /\ tt.next < Half
      BY <2>1, ThreadAtIs DEF ThreadOK, ThreadRecord
    <3>2. tick < Half
      BY <3>1, WindowFits
    <3>3. /\ d \in 0 .. TickMax
          /\ d = IF tt.next >= tick THEN tt.next - tick ELSE tt.next - tick + TickMod
      BY <3>1, AheadIs
    <3>4. tt'.pc = "sleep" /\ tt'.next = d /\ tt'.late = 0
      BY <2>1, <2>2, <2>4 DEF ThreadRecord
    <3> HIDE DEF d
    <3>5. tick + d = tt.next
      BY <2>4, <3>1, <3>2, <3>3, TickSizes
    <3>6. \A x \in SoftTimer : tm.timeout[x] \in Int
      BY TickSizes DEF TimersInv, TimersTypeOK, Memory, TimersAssumption
    <3>7. \A x \in SoftTimer :
            Linked(tm', x) => tick' + tt'.next <= tm'.timeout[x] + tt'.late
      BY <2>1, <2>2, <3>4, <3>5, <3>6 DEF WatchInv
    <3> QED BY <1>0, <2>1, <2>2, <3>4, <3>7 DEF WatchInv, Linked
  <2> QED BY <2>3, <2>4
<1>4. CASE DelaySelf
  <2> DEFINE d == tt.next
             a == Stop(tm, ThreadTimer)
             u == [a EXCEPT !.ready = FALSE, !.init[ThreadTimer] = d]
  <2>1. /\ ThreadAt("sleep") /\ UNCHANGED <<tick, op>>
        /\ tm' = Start(u, ThreadTimer) /\ tt' = [tt EXCEPT !.pc = "check"]
    BY <1>4 DEF DelaySelf, Round
  <2>2. /\ tt'.pc = "check" /\ tt'.late = tt.late /\ tt.pc = "sleep"
        /\ op["timer"].pc = "none"
    BY <2>1, ThreadAtIs DEF ThreadRecord
  <2>3. /\ tick \in 0 .. TickMax /\ d \in 0 .. TickMax /\ d \in 0 .. High /\ NoWrap
        /\ tt.late \in 0 .. MaxLag /\ tt.late <= tick
    BY <2>1, ThreadAtIs DEF ThreadOK, ThreadRecord
  <2>4. /\ tick < Half /\ tick <= LastTick /\ LastTick \in Nat /\ MaxLag \in Nat
        /\ Low = -tick /\ High = Half - 1 - LastTick /\ Window(Low, High)
    BY <2>3, WindowFits
  <2>5. /\ ThreadTimer \in Timer /\ ThreadTimer \notin SoftTimer
        /\ ListsIn(tm, tick, Low, High)
    BY DEF TimersInv, TimersAssumption
  <2>6. \A x \in SoftTimer : Linked(tm, x) => tick + d <= tm.timeout[x] + tt.late
    BY <2>2 DEF WatchInv
  <2> HIDE DEF d
  <2>7. /\ d \in Low .. High /\ d \in 0 .. Half - 1 /\ tick + d \in 0 .. TickMod - 1
        /\ TickMod \in Nat
    BY <2>3, <2>4, TickSizes
  <2>8. Moves(tm, a, {}, tick, Low, High)
    BY <2>5, StopMoves
  <2> HIDE DEF a
  <2>9. ListsIn(a, tick, Low, High) /\ a \in Memory
    BY <2>8 DEF Moves, ListsIn
  <2>10. /\ u \in Memory /\ u.list = a.list /\ u.timeout = a.timeout
         /\ u.init[ThreadTimer] = d
    BY <2>3, <2>5, <2>9 DEF Memory
  <2> HIDE DEF u
  <2>11. ListsIn(u, tick, Low, High) /\ \A x : Linked(u, x) <=> Linked(a, x)
    BY <2>9, <2>10, SameLists
  <2>12. /\ Moves(u, tm', {ThreadTimer}, tick, Low, High)
         /\ Linked(tm', ThreadTimer)
         /\ tm'.timeout[ThreadTimer] = (tick + d) % TickMod
    <3>1. u.init[ThreadTimer] \in Low .. High /\ u.init[ThreadTimer] \in 0 .. Half - 1
      BY <2>7, <2>10
    <3> QED BY <2>1, <2>3, <2>4, <2>5, <2>10, <2>11, <3>1, StartMoves
  <2>13. tm'.timeout[ThreadTimer] = tick + d
    BY <2>7, <2>12, NoLap
  <2>14. ASSUME NEW x \in SoftTimer, Linked(tm', x)
         PROVE  /\ Linked(tm', ThreadTimer)
                /\ tt'.late <= tm'.timeout[ThreadTimer]
                /\ tm'.timeout[ThreadTimer] <= tm'.timeout[x] + tt'.late
    <3>1. x \in Timer /\ x # ThreadTimer
      BY <2>5 DEF TimersAssumption
    <3>2. Linked(tm, x) /\ tm'.timeout[x] = tm.timeout[x]
      BY <2>8, <2>10, <2>11, <2>12, <2>14, <3>1 DEF Moves
    <3>3. tt.late <= tick + d
      BY <2>3
    <3> QED BY <2>2, <2>6, <2>12, <2>13, <3>2, <3>3
  <2> QED BY <1>0, <2>1, <2>2, <2>14 DEF WatchInv
<1> QED BY <1>1, <1>2, <1>3, <1>4

LEMMA RoundWatch ==
  ASSUME TimersAssumption, TimersInv, WatchInv,
         CheckBegin \/ CallSoft \/ CheckDone \/ Callback \/ CallbackReturn
  PROVE  WatchInv'
<1>1. PICK q \in {"check", "loop", "call", "return"} : ThreadAt(q)
  BY DEF CheckBegin, CallSoft, CheckDone, Callback, CallbackReturn, Looking
<1>2. /\ tt \in ThreadRecord /\ tt.pc = q /\ tm.ready /\ op["timer"].pc = "none"
      /\ op \in [Context -> [pc : OpPC, tmr : Timer \cup {NoTimer}]]
      /\ "app" \in Context /\ "timer" \in Context
  BY <1>1, ThreadAtIs DEF Context
<1>3. op'["app"] = op["app"]
  BY <1>2 DEF CheckBegin, CallSoft, CheckDone, Callback, CallbackReturn
<1>4. tm'.ready
  <2>1. tm \in Memory
    BY DEF TimersInv, TimersTypeOK
  <2> QED BY <1>2, <2>1
          DEF CheckBegin, CallSoft, CheckDone, Callback, CallbackReturn, TimerRemove, Clear, Memory
<1>5. CASE CheckBegin \/ CallSoft \/ CheckDone
  <2>1. op' = op /\ tt'.pc \notin {"decide", "sleep"}
    BY <1>2, <1>5 DEF CheckBegin, CallSoft, CheckDone, Round, ThreadRecord
  <2> QED BY <1>2, <1>3, <1>4, <2>1, WatchAwake DEF WatchInv
<1>6. CASE Callback \/ CallbackReturn
  <2>1. tt'.pc \in {"loop", "return"}
    BY <1>2, <1>6 DEF Callback, CallbackReturn, Round, ThreadRecord
  <2> QED BY <1>2, <1>3, <1>4, <2>1, WatchAwake DEF WatchInv
<1> QED BY <1>5, <1>6

LEMMA TimersNextWatch ==
  ASSUME TimersAssumption, InReach, OneStarter, SoftInThreads, TimersInv, WatchInv,
         [TimersNext]_timersVars
  PROVE  WatchInv'
<1>1. ASSUME NEW c \in Context,
             \/ StartRemove(c) \/ StartStamp(c) \/ StartInsert(c) \/ StartWake(c)
             \/ StopTest(c) \/ StopUnlink(c) \/ StopClear(c) \/ Detach(c)
      PROVE  WatchInv'
  BY <1>1, StartStepsWatch, StopStepsWatch
<1>2. CASE AppCall \/ SetTime \/ TickIncrease \/ CheckEnd \/ UNCHANGED timersVars
  BY <1>2, OthersWatch
<1>3. CASE ExpireSleep \/ ExpireHard \/ IsrStarts
  BY <1>3, InterruptsWatch
<1>4. CASE NextTimeout \/ SuspendSelf \/ ReadTick \/ DelaySelf
  BY <1>4, SleepWatch
<1>5. CASE CheckBegin \/ CallSoft \/ CheckDone \/ Callback \/ CallbackReturn
  BY <1>5, RoundWatch
<1> QED BY <1>1, <1>2, <1>3, <1>4, <1>5 DEF TimersNext

(* While the timer thread waits and a soft timer is started, its own timer *)
(* expires no later than the ticks it was late in going to sleep, or the   *)
(* call that started the soft timer is about to wake it (timer.c:395-406,  *)
(* 638-656): the test of the thread's state in rt_timer_start and the      *)
(* thread's way from its look at the list to its sleep leave no other gap, *)
(* if only threads start soft timers.                                      *)
THEOREM ThreadInTime ==
  ASSUME TimersAssumption, InReach, OneStarter, SoftInThreads
  PROVE  TimersSpec => []SoftWatched
<1>1. ASSUME TimersInit PROVE WatchInv
  BY <1>1 DEF TimersInit, WatchInv, NoOp, Context
<1>2. ASSUME TimersInv, WatchInv PROVE SoftWatched
  <2> SUFFICES ASSUME ~tm.ready, tm.list["soft"] # <<>>, op["app"].pc # "start_wake"
               PROVE  /\ Linked(tm, ThreadTimer)
                      /\ Ahead(tm.timeout[ThreadTimer], tm.timeout[FirstSoft] + tt.late) < Half
    BY DEF SoftWatched, Context
  <2> DEFINE a == tm.timeout[ThreadTimer]
             b == tm.timeout[FirstSoft]
             k == tt.late
  <2>1. FirstSoft \in SoftTimer /\ Linked(tm, FirstSoft) /\ b \in 0 .. Half - 1
    BY <1>2, FirstSoftIs DEF FirstSoft
  <2>2. Linked(tm, ThreadTimer) /\ k <= a /\ a <= b + k
    BY <1>2, <2>1 DEF WatchInv
  <2>3. a \in 0 .. TickMax /\ k \in Int
    BY <1>2 DEF TimersInv, TimersTypeOK, Memory, TimersAssumption
  <2> HIDE DEF a, b, k
  <2>4. (b + k) - a \in 0 .. Half - 1 /\ (b + k) - a \in 0 .. TickMod - 1 /\ TickMod \in Nat
    BY <2>1, <2>2, <2>3, TickSizes
  <2>5. Ahead(a, b + k) = (b + k) - a
    BY <2>4, NoLap DEF Ahead
  <2>6. Ahead(a, b + k) < Half
    BY <2>4, <2>5, TickSizes
  <2> QED BY <2>2, <2>6 DEF a, b, k
<1>3. TimersInit => TimersInv /\ WatchInv
  BY <1>1, TimersInitInv
<1>4. TimersInv /\ WatchInv /\ [TimersNext]_timersVars => TimersInv' /\ WatchInv'
  BY TimersNextInv, TimersNextWatch
<1>5. TimersInv /\ WatchInv => SoftWatched
  BY <1>2
<1> QED BY <1>3, <1>4, <1>5, PTL DEF TimersSpec

-----------------------------------------------------------------------------
(* rt_soft_timer_check goes on at the timer it saved as n.  It is still in *)
(* the list then, or a call of the timeout function is starting it again.  *)

(* The timers of S stay in their lists.                                    *)
Stay(u, v, S) == \A x \in S : Linked(u, x) => Linked(v, x)

LEMMA StayTwice ==
  ASSUME NEW u, NEW v, NEW w, NEW S, Stay(u, v, S), Stay(v, w, S)
  PROVE  Stay(u, w, S)
BY DEF Stay

LEMMA StopStays ==
  ASSUME TimersAssumption, NEW u, NEW now, NEW lo, NEW hi, ListsIn(u, now, lo, hi),
         NEW t \in Timer
  PROVE  Stay(u, TimerRemove(u, t), Timer \ {t}) /\ Stay(u, Stop(u, t), Timer \ {t})
<1> DEFINE a == TimerRemove(u, t)
<1>1. Moves(u, a, {}, now, lo, hi)
      /\ \A x \in Timer : Linked(u, x) /\ x # t => Linked(a, x)
  BY RemoveMoves
<1>2. Stop(u, t) = Clear(a, t) \/ Stop(u, t) = u
  BY DEF Stop
<1> HIDE DEF a
<1>3. \A x : Linked(Clear(a, t), x) <=> Linked(a, x)
  BY <1>1, ClearMoves DEF Moves
<1> QED BY <1>1, <1>2, <1>3 DEF Stay, a

LEMMA StartStays ==
  ASSUME TimersAssumption, tick \in 0 .. TickMax, NEW lo, NEW hi, Fits(lo, hi),
         NEW u, ListsIn(u, tick, lo, hi), InitsKnown(u), NEW t \in Used
  PROVE  Stay(u, Start(u, t), Used)
<1> DEFINE a == TimerRemove(u, t)
           b == Clear(a, t)
           c == Stamp(b, t)
           e == Insert(c, t)
           w == Stop(e, ThreadTimer)
<1>1. /\ t \in Timer /\ Used = Timer \ {ThreadTimer} /\ Window(lo, hi)
      /\ ThreadTimer \in Timer
  BY DEF Used, Fits, TimersAssumption
<1>2. u.init[t] \in lo .. hi /\ u.init[t] \in 0 .. Half - 1
  BY StartKnown
<1>3. /\ Moves(u, a, {}, tick, lo, hi) /\ ~Linked(a, t)
      /\ Stay(u, a, Timer \ {t})
  BY <1>1, RemoveMoves, StopStays
<1>4. Start(u, t) = WakeIfWaiting(e, t)
  BY DEF Start, a, b, c, e
<1> HIDE DEF a
<1>5. Moves(a, b, {}, tick, lo, hi) /\ \A x : Linked(b, x) <=> Linked(a, x)
  BY <1>3, ClearMoves DEF Moves
<1> HIDE DEF b
<1>6. ListsIn(b, tick, lo, hi) /\ b.init = u.init /\ ~Linked(b, t)
  BY <1>3, <1>5 DEF Moves
<1>7. /\ Moves(b, c, {t}, tick, lo, hi) /\ ~Linked(c, t) /\ Dist(tick, c.timeout[t]) = u.init[t]
  <2>1. t \in Timer /\ b.init[t] = u.init[t] /\ b.init[t] \in 0 .. Half - 1
    BY <1>1, <1>2, <1>6
  <2> QED BY <1>6, <2>1, StampMoves
<1>8. \A x : Linked(c, x) <=> Linked(b, x)
  BY <1>6 DEF Stamp, Linked, ListsIn, Memory
<1> HIDE DEF c
<1>9. ListsIn(c, tick, lo, hi) /\ Dist(tick, c.timeout[t]) \in lo .. hi
  BY <1>2, <1>7 DEF Moves
<1>10. /\ Moves(c, e, {t}, tick, lo, hi)
       /\ \A x \in Timer : Linked(c, x) \/ x = t => Linked(e, x)
  <2>1. Moves(c, Insert(c, t), {t}, tick, lo, hi)
    BY <1>1, <1>7, <1>9, InsertMoves
  <2>2. \A x \in Timer : Linked(c, x) \/ x = t => Linked(Insert(c, t), x)
    BY <1>1, <1>7, <1>9, <2>1, InsertMoves
  <2> QED BY <2>1, <2>2
<1>11. Stay(u, e, Timer)
  BY <1>3, <1>5, <1>8, <1>10 DEF Stay
<1> HIDE DEF e
<1>12. Stay(e, w, Used)
  BY <1>1, <1>10, StopStays DEF Moves
<1>13. e \in Memory /\ w \in Memory
  BY <1>1, <1>10, StopMoves DEF Moves, ListsIn
<1> HIDE DEF w
<1>14. [w EXCEPT !.ready = TRUE].list = w.list
  BY <1>13 DEF Memory
<1>15. WakeIfWaiting(e, t) = e \/ WakeIfWaiting(e, t) = [w EXCEPT !.ready = TRUE]
  BY DEF WakeIfWaiting, WakeThread, w
<1>16. Stay(e, WakeIfWaiting(e, t), Used)
  BY <1>12, <1>14, <1>15 DEF Stay, Linked
<1> QED BY <1>1, <1>4, <1>11, <1>16 DEF Stay

LEMMA RearmStays ==
  ASSUME TimersAssumption, tick \in 0 .. TickMax, NEW lo, NEW hi, Fits(lo, hi),
         NEW u, ListsIn(u, tick, lo, hi), InitsKnown(u), NEW t \in Used
  PROVE  Stay(u, Rearm(u, t), Used)
<1> DEFINE a == Clear(u, t)
<1>1. Moves(u, a, {}, tick, lo, hi) /\ Stay(u, a, Used)
  BY ClearMoves DEF Stay
<1>2. Rearm(u, t) = Start(a, t) \/ Rearm(u, t) = a
  BY DEF Rearm
<1> HIDE DEF a
<1>3. ListsIn(a, tick, lo, hi) /\ InitsKnown(a)
  BY <1>1 DEF Moves, InitsKnown
<1>4. Stay(a, Start(a, t), Used)
  BY <1>3, StartStays
<1> QED BY <1>1, <1>2, <1>4, StayTwice

StopPC == {"stop", "stop_unlink", "stop_clear", "detach"}
InRound == tt.pc \in {"loop", "call", "return"}

SavedInv ==
  InRound =>
    /\ tt.n # NoTimer =>
         Linked(tm, tt.n) \/ (op["timer"].pc \in WindowPC /\ op["timer"].tmr = tt.n)
    /\ op["timer"].pc \in StopPC => op["timer"].tmr # tt.n
    /\ tt.pc \in {"call", "return"} => tt.t # tt.n

(* A step of an interrupt handler, or of the application's calls           *)
LEMMA SavedStill ==
  ASSUME SavedInv, tt' = tt, op'["timer"] = op["timer"],
         InRound /\ Linked(tm, tt.n) => Linked(tm', tt.n)
  PROVE  SavedInv'
BY DEF SavedInv, InRound

LEMMA AppIdle ==
  ASSUME TimersInv, May("app")
  PROVE  ~InRound /\ op["timer"].pc = "none"
BY DEF TimersInv, ThreadOK, May, InRound

LEMMA SavedIsSoft ==
  ASSUME TimersAssumption, TimersInv, SavedInv, InRound
  PROVE  /\ tt.n \in SoftTimer \cup {NoTimer} /\ tm.ready
         /\ tt.n # NoTimer => tt.n \in Used /\ tt.n \in Timer /\ tt.n # ThreadTimer
BY DEF TimersInv, TimersTypeOK, ThreadOK, InRound, TimersAssumption, Used

LEMMA CallsSaved ==
  ASSUME TimersAssumption, InReach, TimersInv, SavedInv, NEW c \in Context,
         \/ StartRemove(c) \/ StartStamp(c) \/ StartInsert(c) \/ StartWake(c)
         \/ StopTest(c) \/ StopUnlink(c) \/ StopClear(c) \/ Detach(c)
  PROVE  SavedInv'
<1> DEFINE t == op[c].tmr
<1>1. May(c) /\ tt' = tt
  BY DEF StartRemove, StartStamp, StartInsert, StartWake, StopTest, StopUnlink,
         StopClear, Detach, In
<1>2. CASE ~InRound
  BY <1>1, <1>2 DEF SavedInv, InRound
<1>3. CASE InRound
  <2>1. c = "timer"
    BY <1>1, <1>3, AppIdle DEF Context
  <2>2. /\ ListsIn(tm, tick, Low, High) /\ CallOK(c) /\ TimersTypeOK /\ InitsKnown(tm)
        /\ Fits(Low, High) /\ Window(Low, High) /\ tick \in 0 .. TickMax
        /\ isr = "none" => Low = Late
    BY WindowFits DEF TimersInv
  <2>3. op[c].pc # "none" => t \in Used /\ t \in Timer
    BY <2>2 DEF CallOK, Used
  <2>4. ASSUME NEW p \in OpPC, OpGo(c, p)
        PROVE  op'["timer"].pc = p /\ (p # "none" => op'["timer"].tmr = t)
    BY <2>1, <2>2, <2>4, OpGoIs
  <2>5. /\ tm.ready /\ tt.n \in SoftTimer \cup {NoTimer} /\ ThreadTimer \notin SoftTimer
        /\ tt.n # NoTimer => tt.n \in Timer
    BY <1>3, SavedIsSoft DEF TimersAssumption
  <2>6. CASE StartRemove(c)
    <3> DEFINE a == TimerRemove(tm, t)
    <3>1. In(c, "start") /\ OpGo(c, "start_stamp") /\ tm' = Clear(a, t)
      BY <2>6 DEF StartRemove
    <3>2. op'["timer"].pc = "start_stamp" /\ op'["timer"].tmr = t
      BY <2>4, <3>1 DEF OpPC
    <3>3. Moves(tm, a, {}, tick, Low, High) /\ Stay(tm, a, Timer \ {t})
      BY <2>2, <2>3, <3>1, RemoveMoves, StopStays DEF In
    <3> HIDE DEF a
    <3>4. \A x : Linked(tm', x) <=> Linked(a, x)
      BY <3>1, <3>3, ClearMoves DEF Moves
    <3>5. op["timer"].pc = "start"
      BY <2>1, <3>1 DEF In
    <3> QED BY <1>1, <1>3, <2>5, <3>2, <3>3, <3>4, <3>5
            DEF SavedInv, InRound, WindowPC, StopPC, Stay
  <2>7. CASE StartStamp(c)
    <3>1. In(c, "start_stamp") /\ OpGo(c, "start_insert") /\ tm' = Stamp(tm, t)
      BY <2>7 DEF StartStamp
    <3>2. op'["timer"].pc = "start_insert" /\ op'["timer"].tmr = t
      BY <2>4, <3>1 DEF OpPC
    <3>3. op["timer"].pc = "start_stamp" /\ op["timer"].tmr = t
      BY <2>1, <3>1 DEF In
    <3>4. \A x : Linked(tm', x) <=> Linked(tm, x)
      BY <2>2, <3>1 DEF Stamp, Linked, ListsIn, Memory
    <3> QED BY <1>1, <1>3, <3>2, <3>3, <3>4 DEF SavedInv, InRound, WindowPC, StopPC
  <2>8. CASE StartInsert(c)
    <3> DEFINE p == IF t \in SoftTimer THEN "start_wake" ELSE "none"
    <3>1. In(c, "start_insert") /\ OpGo(c, p) /\ tm' = Insert(tm, t)
      BY <2>8 DEF StartInsert
    <3>2. p \in OpPC /\ p \notin StopPC
      BY DEF OpPC, StopPC
    <3> HIDE DEF p
    <3>3. op'["timer"].pc = p
      BY <2>4, <3>1, <3>2
    <3>4. op["timer"].pc = "start_insert" /\ op["timer"].tmr = t
      BY <2>1, <3>1 DEF In
    <3>5. /\ t \in Timer /\ ~Linked(tm, t)
          /\ Dist(tick, tm.timeout[t]) \in Low .. High
      BY <2>2, <2>3, <3>1 DEF CallOK, WindowPC, In, May
    <3>6. Moves(tm, Insert(tm, t), {t}, tick, Low, High)
      BY <2>2, <3>5, InsertMoves
    <3>7. \A x \in Timer : Linked(tm, x) \/ x = t => Linked(Insert(tm, t), x)
      BY <2>2, <3>5, <3>6, InsertMoves
    <3> QED BY <1>1, <1>3, <2>5, <3>1, <3>2, <3>3, <3>4, <3>7 DEF SavedInv, InRound
  <2>9. CASE StartWake(c)
    <3>1. In(c, "start_wake") /\ OpGo(c, "none") /\ tm' = tm
      BY <2>5, <2>9 DEF StartWake, WakeIfWaiting
    <3>2. op'["timer"].pc = "none" /\ op["timer"].pc = "start_wake"
      BY <2>1, <2>4, <3>1 DEF OpPC, In
    <3> QED BY <1>1, <1>3, <3>1, <3>2 DEF SavedInv, InRound, WindowPC, StopPC
  <2>10. CASE StopTest(c) \/ StopClear(c)
    <3> DEFINE p == IF StopTest(c) /\ t \in tm.active THEN "stop_unlink" ELSE "none"
    <3>1. OpGo(c, p) /\ (tm' = tm \/ tm' = Clear(tm, t)) /\ op[c].pc \in {"stop", "stop_clear"}
      BY <2>10 DEF StopTest, StopClear, In
    <3>2. p \in OpPC /\ p \in {"stop_unlink", "none"}
      BY DEF OpPC
    <3> HIDE DEF p
    <3>3. op'["timer"].pc = p /\ (p # "none" => op'["timer"].tmr = t)
      BY <2>4, <3>1, <3>2
    <3>4. \A x : Linked(tm', x) <=> Linked(tm, x)
      BY <2>2, <3>1, ClearMoves
    <3> QED BY <1>1, <1>3, <2>1, <3>1, <3>2, <3>3, <3>4 DEF SavedInv, InRound, WindowPC, StopPC
  <2>11. CASE StopUnlink(c) \/ Detach(c)
    <3> DEFINE p == IF StopUnlink(c) THEN "stop_clear" ELSE "none"
    <3>1. OpGo(c, p) /\ tm' = TimerRemove(tm, t) /\ op[c].pc \in {"stop_unlink", "detach"}
      BY <2>11 DEF StopUnlink, Detach, In
    <3>2. p \in OpPC /\ p \in {"stop_clear", "none"}
      BY DEF OpPC
    <3> HIDE DEF p
    <3>3. op'["timer"].pc = p /\ (p # "none" => op'["timer"].tmr = t)
      BY <2>4, <3>1, <3>2
    <3>4. Stay(tm, tm', Timer \ {t})
      BY <2>2, <2>3, <3>1, StopStays
    <3>5. t # tt.n
      BY <1>3, <2>1, <3>1 DEF SavedInv, StopPC
    <3> QED BY <1>1, <1>3, <2>1, <2>5, <3>1, <3>2, <3>3, <3>4, <3>5
            DEF SavedInv, InRound, WindowPC, StopPC, Stay
  <2> QED BY <2>6, <2>7, <2>8, <2>9, <2>10, <2>11
<1> QED BY <1>2, <1>3

LEMMA OthersSaved ==
  ASSUME TimersAssumption, TimersInv, SavedInv,
         AppCall \/ SetTime \/ TickIncrease \/ CheckEnd \/ UNCHANGED timersVars
  PROVE  SavedInv'
<1>1. CASE AppCall \/ SetTime
  <2>1. tt' = tt /\ May("app")
    BY <1>1 DEF AppCall, SetTime, In
  <2> QED BY <2>1, AppIdle DEF SavedInv, InRound
<1>2. CASE TickIncrease /\ tt.pc = "sleep"
  <2>1. tt'.pc = "sleep"
    BY <1>2 DEF TickIncrease, TimersInv, TimersTypeOK
  <2> QED BY <2>1 DEF SavedInv, InRound
<1>3. CASE TickIncrease /\ tt.pc # "sleep"
  <2>1. tm' = tm /\ op' = op /\ tt' = tt
    BY <1>3 DEF TickIncrease
  <2> QED BY <2>1, SavedStill
<1>4. CASE CheckEnd \/ UNCHANGED timersVars
  <2>1. tm' = tm /\ op' = op /\ tt' = tt
    BY <1>4 DEF CheckEnd, timersVars
  <2> QED BY <2>1, SavedStill
<1> QED BY <1>1, <1>2, <1>3, <1>4

LEMMA InterruptsSaved ==
  ASSUME TimersAssumption, InReach, StopsOnlyOwn, TimersInv, SavedInv,
         ExpireSleep \/ ExpireHard \/ IsrStarts
  PROVE  SavedInv'
<1>1. op' = op /\ tt' = tt
  BY DEF ExpireSleep, ExpireHard, IsrStarts
<1>2. /\ ListsIn(tm, tick, Low, High) /\ InitsKnown(tm) /\ Fits(Low, High)
      /\ tick \in 0 .. TickMax /\ ThreadTimer \in Timer
      /\ SoftTimer \subseteq Used /\ Used \subseteq Timer
  BY WindowFits DEF TimersInv, TimersAssumption, Used
<1>3. Stay(tm, tm', SoftTimer)
  <2>1. CASE ExpireSleep
    <3> DEFINE a == TimerRemove(tm, ThreadTimer)
               b == Clear(a, ThreadTimer)
    <3>1. tm' = [b EXCEPT !.ready = TRUE]
      BY <2>1 DEF ExpireSleep
    <3>2. Moves(tm, a, {}, tick, Low, High) /\ Stay(tm, a, Timer \ {ThreadTimer})
      BY <1>2, RemoveMoves, StopStays
    <3> HIDE DEF a
    <3>3. Moves(a, b, {}, tick, Low, High) /\ \A x : Linked(b, x) <=> Linked(a, x)
      BY <3>2, ClearMoves DEF Moves
    <3> HIDE DEF b
    <3>4. tm'.list = b.list
      BY <3>1, <3>3 DEF Moves, ListsIn, Memory
    <3> QED BY <1>2, <3>2, <3>3, <3>4 DEF Stay, Linked, Used
  <2>2. CASE IsrStarts
    <3>1. PICK t \in IsrStart : tm' = Start(tm, t)
      BY <2>2 DEF IsrStarts
    <3>2. t \in Used
      BY DEF TimersAssumption
    <3> QED BY <1>2, <3>1, <3>2, StartStays DEF Stay
  <2>3. CASE ExpireHard
    <3> DEFINE t == tm.list["hard"][1]
               u == TimerRemove(tm, t)
    <3>1. HardDue /\ t # ThreadTimer
      BY <2>3 DEF ExpireHard
    <3>2. t \in Used /\ t \in Timer /\ t \notin SoftTimer
      BY <3>1, HardHead DEF Used
    <3>3. \/ tm' = Rearm(u, t)
          \/ \E co \in Calls(t) : tm' = Rearm(Called(u, co[2], co[3]), t)
      BY <2>3 DEF ExpireHard
    <3> HIDE DEF t
    <3>4. Moves(tm, u, {}, tick, Low, High) /\ Stay(tm, u, SoftTimer)
      BY <1>2, <3>2, RemoveMoves, StopStays DEF Stay
    <3> HIDE DEF u
    <3>5. ListsIn(u, tick, Low, High) /\ InitsKnown(u)
      BY <1>2, <3>4 DEF Moves, InitsKnown
    <3>6. CASE tm' = Rearm(u, t)
      <4>1. Stay(u, tm', Used)
        BY <1>2, <3>2, <3>5, <3>6, RearmStays
      <4> QED BY <1>2, <3>4, <4>1 DEF Stay
    <3>7. ASSUME NEW co \in Calls(t), tm' = Rearm(Called(u, co[2], co[3]), t)
          PROVE  Stay(tm, tm', SoftTimer)
      <4> DEFINE v == Called(u, co[2], co[3])
      <4>1. co \in CallbackOp /\ co[1] = t /\ co[2] \in Op /\ co[3] \in Used
        BY DEF Calls, TimersAssumption
      <4>2. \E A : Moves(u, v, A, tick, Low, High)
        BY <1>2, <3>5, <4>1, CalledMoves
      <4>3. Stay(u, v, SoftTimer)
        <5>1. CASE co[2] = "start"
          <6>1. v = Start(u, co[3])
            BY <5>1 DEF Called
          <6>2. Stay(u, Start(u, co[3]), Used)
            BY <1>2, <3>5, <4>1, StartStays
          <6> QED BY <1>2, <6>1, <6>2 DEF Stay
        <5>2. CASE co[2] # "start"
          <6>1. v = Stop(u, co[3]) \/ v = TimerRemove(u, co[3])
            BY <5>2 DEF Called
          <6>2. co[3] \notin SoftTimer /\ co[3] \in Timer
            BY <1>2, <3>2, <4>1, <5>2 DEF StopsOnlyOwn
          <6>3. Stay(u, v, Timer \ {co[3]})
            BY <3>5, <6>1, <6>2, StopStays
          <6> QED BY <1>2, <6>2, <6>3 DEF Stay
        <5> QED BY <5>1, <5>2
      <4> HIDE DEF v
      <4>4. ListsIn(v, tick, Low, High) /\ InitsKnown(v)
        BY <3>5, <4>2 DEF Moves, InitsKnown
      <4>5. Stay(v, tm', Used)
        BY <1>2, <3>2, <3>7, <4>4, RearmStays DEF v
      <4> QED BY <1>2, <3>4, <4>3, <4>5 DEF Stay
    <3> QED BY <3>3, <3>6, <3>7
  <2> QED BY <2>1, <2>2, <2>3
<1>4. InRound /\ Linked(tm, tt.n) => Linked(tm', tt.n)
  <2>1. ASSUME InRound, tt.n = NoTimer PROVE ~Linked(tm, tt.n)
    <3>1. ListOf(NoTimer) = "hard" /\ tm.list["hard"] \in Seq(Timer) /\ NoTimer \notin Timer
      BY DEF ListOf, TimersAssumption, TimersInv, TimersTypeOK, Memory
    <3> QED BY <2>1, <3>1 DEF Linked, IsIn
  <2> QED BY <1>3, <2>1, SavedIsSoft DEF Stay
<1> QED BY <1>1, <1>4, SavedStill

(* The node behind a node of the list is another one.                      *)
LEMMA NextOfOther ==
  ASSUME TimersAssumption, TimersInv, NEW t \in SoftTimer, Linked(tm, t)
  PROVE  \/ NextOf(t) = NoTimer
         \/ NextOf(t) \in SoftTimer /\ Linked(tm, NextOf(t)) /\ NextOf(t) # t
<1> DEFINE s == tm.list["soft"]
           p == {i \in DOMAIN s : s[i] = t}
           i == CHOOSE j \in p : TRUE
<1>1. s \in Seq(Timer) /\ Injective(s)
  BY DEF TimersInv, TimersTypeOK, Memory, ListsIn, TimerLists
<1>2. p # {}
  BY DEF Linked, ListOf, IsIn
<1>3. NextOf(t) = IF i < Len(s) THEN s[i + 1] ELSE NoTimer
  BY <1>2 DEF NextOf
<1>4. i \in 1 .. Len(s) /\ s[i] = t
  BY <1>1, <1>2
<1> HIDE DEF i
<1>5. CASE i < Len(s)
  <2>1. i + 1 \in DOMAIN s /\ i \in DOMAIN s /\ i + 1 # i
    BY <1>1, <1>4, <1>5
  <2>2. s[i + 1] # t
    BY <1>1, <1>4, <2>1 DEF Injective
  <2>3. NextOf(t) # t /\ NextOf(t) = s[i + 1]
    BY <1>3, <1>5, <2>2
  <2> QED BY <2>3, NextOfIs
<1> QED BY <1>3, <1>4, <1>5

LEMMA RoundSaved ==
  ASSUME TimersAssumption, InReach, StopsOnlyOwn, TimersInv, SavedInv,
         \/ NextTimeout \/ SuspendSelf \/ ReadTick \/ DelaySelf
         \/ CheckBegin \/ CallSoft \/ CheckDone \/ Callback \/ CallbackReturn
  PROVE  SavedInv'
<1>1. PICK q \in ThreadPC : ThreadAt(q)
  BY DEF NextTimeout, SuspendSelf, ReadTick, DelaySelf, CheckBegin, CallSoft, CheckDone, Callback,
         CallbackReturn, Looking, ThreadPC
<1>2. /\ tt \in ThreadRecord /\ tt.pc = q /\ op["timer"].pc = "none" /\ "timer" \in Context
      /\ op \in [Context -> [pc : OpPC, tmr : Timer \cup {NoTimer}]]
  BY <1>1, ThreadAtIs DEF Context
<1>3. CASE NextTimeout \/ SuspendSelf \/ ReadTick \/ DelaySelf \/ CheckDone
  <2>1. tt'.pc \in {"decide", "sleep", "check", "next"}
    BY <1>2, <1>3 DEF NextTimeout, SuspendSelf, ReadTick, DelaySelf, CheckDone, Round, ThreadRecord
  <2> QED BY <2>1 DEF SavedInv, InRound
<1>4. CASE CheckBegin
  <2>1. tt'.pc = "loop" /\ tt'.n = FirstSoft /\ tm' = tm /\ op' = op
    BY <1>2, <1>4 DEF CheckBegin, ThreadRecord
  <2>2. FirstSoft = NoTimer \/ Linked(tm, FirstSoft)
    BY FirstSoftIs DEF FirstSoft
  <2> QED BY <1>2, <2>1, <2>2 DEF SavedInv, StopPC
<1>5. CASE CallSoft
  <2> DEFINE z == NextOf(tt.n)
  <2>1. /\ ThreadAt("loop") /\ tt.n # NoTimer /\ op' = op /\ tm' = TimerRemove(tm, tt.n)
        /\ tt' = [tt EXCEPT !.pc = "call", !.n = z, !.t = tt.n]
    BY <1>5 DEF CallSoft, Looking
  <2>2. tt.pc = "loop" /\ tt.n \in SoftTimer /\ tt.n \in Timer
    BY <1>2, <2>1, ThreadAtIs DEF ThreadRecord, TimersAssumption
  <2>3. Linked(tm, tt.n)
    BY <1>2, <2>1, <2>2 DEF SavedInv, InRound, WindowPC
  <2>4. z = NoTimer \/ (z \in SoftTimer /\ Linked(tm, z) /\ z # tt.n)
    BY <2>2, <2>3, NextOfOther
  <2> HIDE DEF z
  <2>5. tt'.pc = "call" /\ tt'.n = z /\ tt'.t = tt.n
    BY <1>2, <2>1 DEF ThreadRecord
  <2>6. Stay(tm, tm', Timer \ {tt.n})
    BY <2>1, <2>2, StopStays DEF TimersInv
  <2>7. z # NoTimer => Linked(tm', z) /\ z # tt.n
    BY <2>4, <2>6 DEF Stay, TimersAssumption
  <2>8. z # tt.n
    BY <2>1, <2>4
  <2> QED BY <1>2, <2>1, <2>5, <2>7, <2>8 DEF SavedInv, StopPC
<1>6. CASE Callback
  <2>1. ThreadAt("call") /\ tm' = tm /\ tt' = [tt EXCEPT !.pc = "return"]
    BY <1>6 DEF Callback, Round
  <2>2. tt.pc = "call" /\ tt'.pc = "return" /\ tt'.n = tt.n /\ tt'.t = tt.t
    BY <1>2, <2>1, ThreadAtIs DEF ThreadRecord
  <2>3. /\ tt.n # NoTimer => Linked(tm, tt.n)
        /\ tt.t # tt.n
    BY <1>2, <2>2 DEF SavedInv, InRound, WindowPC
  <2>4. op'["timer"].pc \in StopPC => op'["timer"].tmr # tt.n
    <3>1. CASE op' = op
      BY <1>2, <3>1 DEF StopPC
    <3>2. ASSUME NEW co \in Calls(tt.t),
                 op' = [op EXCEPT !["timer"] = [pc |-> co[2], tmr |-> co[3]]]
          PROVE  op'["timer"].pc \in StopPC => op'["timer"].tmr # tt.n
      <4>1. co \in CallbackOp /\ co[1] = tt.t /\ co[2] \in Op /\ co[3] \in Used
        BY DEF Calls, TimersAssumption
      <4>2. op'["timer"].pc = co[2] /\ op'["timer"].tmr = co[3]
        BY <1>2, <3>2
      <4>3. tt.n \in SoftTimer \/ tt.n = NoTimer
        BY <1>2 DEF ThreadRecord
      <4>4. co[3] # NoTimer
        BY <4>1 DEF TimersAssumption, Used
      <4> QED BY <2>3, <4>1, <4>2, <4>3, <4>4 DEF StopsOnlyOwn, StopPC
    <3> QED BY <1>6, <3>1, <3>2 DEF Callback
  <2> QED BY <2>1, <2>2, <2>3, <2>4 DEF SavedInv, InRound
<1>7. CASE CallbackReturn
  <2>1. /\ ThreadAt("return") /\ tm' = Clear(tm, tt.t) /\ tt' = [tt EXCEPT !.pc = "loop", !.now = tick]
        /\ \/ op' = op
           \/ op' = [op EXCEPT !["timer"] = [pc |-> "start", tmr |-> tt.t]]
    BY <1>7 DEF CallbackReturn
  <2>2. tt.pc = "return" /\ tt'.pc = "loop" /\ tt'.n = tt.n
    BY <1>2, <2>1, ThreadAtIs DEF ThreadRecord
  <2>3. tt.n # NoTimer => Linked(tm, tt.n)
    BY <1>2, <2>2 DEF SavedInv, InRound, WindowPC
  <2>4. op'["timer"].pc \notin StopPC
    BY <1>2, <2>1 DEF StopPC
  <2>5. \A x : Linked(tm', x) <=> Linked(tm, x)
    BY <2>1, ClearMoves DEF TimersInv
  <2> QED BY <2>2, <2>3, <2>4, <2>5 DEF SavedInv, InRound
<1> QED BY <1>3, <1>4, <1>5, <1>6, <1>7

LEMMA TimersNextSaved ==
  ASSUME TimersAssumption, InReach, StopsOnlyOwn, TimersInv, SavedInv,
         [TimersNext]_timersVars
  PROVE  SavedInv'
<1>1. ASSUME NEW c \in Context,
             \/ StartRemove(c) \/ StartStamp(c) \/ StartInsert(c) \/ StartWake(c)
             \/ StopTest(c) \/ StopUnlink(c) \/ StopClear(c) \/ Detach(c)
      PROVE  SavedInv'
  BY <1>1, CallsSaved
<1>2. CASE AppCall \/ SetTime \/ TickIncrease \/ CheckEnd \/ UNCHANGED timersVars
  BY <1>2, OthersSaved
<1>3. CASE ExpireSleep \/ ExpireHard \/ IsrStarts
  BY <1>3, InterruptsSaved
<1>4. CASE \/ NextTimeout \/ SuspendSelf \/ ReadTick \/ DelaySelf
           \/ CheckBegin \/ CallSoft \/ CheckDone \/ Callback \/ CallbackReturn
  BY <1>4, RoundSaved
<1> QED BY <1>1, <1>2, <1>3, <1>4 DEF TimersNext

(* A timeout function that stops no other soft timer leaves the saved n of *)
(* rt_soft_timer_check (timer.c:577-598) in the list: only timers that are *)
(* started expire.  beep.c does not keep to it (the run timers_beep).      *)
THEOREM StartedExpire ==
  ASSUME TimersAssumption, InReach, OneStarter, StopsOnlyOwn
  PROVE  TimersSpec => OnlyStartedExpire
<1>1. TimersInit => TimersInv /\ SavedInv
  <2>1. ASSUME TimersInit PROVE SavedInv
    BY <2>1 DEF TimersInit, SavedInv, InRound
  <2> QED BY <2>1, TimersInitInv
<1>2. TimersInv /\ SavedInv /\ [TimersNext]_timersVars => TimersInv' /\ SavedInv'
  BY TimersNextInv, TimersNextSaved
<1>3. ASSUME TimersInv, SavedInv, [TimersNext]_timersVars PROVE [CallsStarted]_timersVars
  <2> SUFFICES ASSUME tt.pc = "loop", tt'.pc = "call" PROVE Linked(tm, tt'.t)
    BY DEF CallsStarted
  <2>1. tt' # tt /\ tt \in ThreadRecord
    BY <1>3 DEF TimersInv, TimersTypeOK, ThreadRecord
  <2>2. CASE CallSoft
    <3>1. tt.n # NoTimer /\ ThreadAt("loop") /\ tt'.t = tt.n
      BY <2>1, <2>2 DEF CallSoft, Looking, ThreadRecord
    <3> QED BY <1>3, <3>1, ThreadAtIs DEF SavedInv, InRound, WindowPC
  <2>4. CASE TickIncrease
    BY <2>1, <2>4 DEF TickIncrease, ThreadRecord
  <2>3. CASE ~CallSoft /\ ~TickIncrease
    <3>1. \/ NextTimeout \/ SuspendSelf \/ ReadTick \/ DelaySelf
          \/ CheckBegin \/ CheckDone \/ Callback \/ CallbackReturn
      BY <1>3, <2>1, <2>3 DEF TimersNext, timersVars, AppCall, SetTime, StartRemove,
        StartStamp, StartInsert, StartWake, StopTest, StopUnlink, StopClear, Detach,
        ExpireSleep, ExpireHard, CheckEnd, IsrStarts
    <3> QED BY <2>1, <3>1 DEF NextTimeout, SuspendSelf, ReadTick, DelaySelf, CheckBegin, CheckDone,
              Callback, CallbackReturn, Round, ThreadRecord
  <2> QED BY <2>2, <2>3, <2>4
<1>4. TimersInv /\ SavedInv /\ [TimersNext]_timersVars => [CallsStarted]_timersVars
  BY <1>3
<1> QED BY <1>1, <1>2, <1>4, PTL DEF TimersSpec, OnlyStartedExpire
=============================================================================
