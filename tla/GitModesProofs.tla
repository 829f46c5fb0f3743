---------------------------- MODULE GitModesProofs ----------------------------
(***************************************************************************)
(* What a git mode hands to the checker, for any number of paths, any texts *)
(* and any number of edits, commits and failing calls.                      *)
(***************************************************************************)
EXTENDS GitModes, TLAPS, WellFoundedInduction, SequenceTheorems

-----------------------------------------------------------------------------
(* Least and greatest elements: the induction of these proofs. *)

LEMMA Least == ASSUME NEW T \in SUBSET Nat, T # {} PROVE \E x \in T : \A y \in T : x <= y
<1> DEFINE R == OpToRel(<,Nat)
<1>1. IsWellFoundedOn(R, Nat)
  BY NatLessThanWellFounded
<1>2. \E x \in T : \A y \in T : ~(<<y, x>> \in R)
  <2> HIDE DEF R
  <2> QED BY <1>1, WFMin, Zenon
<1>3. \A x, y \in T : ~(<<y,x>> \in R) => x <= y
  BY DEF OpToRel
<1> QED BY <1>2, <1>3

LEMMA Greatest ==
    ASSUME NEW T \in SUBSET Nat, NEW n \in Nat, \A x \in T : x <= n, T # {}
    PROVE  \E x \in T : \A y \in T : x >= y
<1> DEFINE U == {n - x : x \in T}
<1>1. U \in SUBSET Nat /\ U # {}
  <2>1. \A x \in T : n - x \in Nat
    OBVIOUS
  <2> QED BY <2>1
<1>2. PICK u \in U : \A v \in U : u <= v
  <2> HIDE DEF U
  <2> QED BY <1>1, Least
<1>3. PICK x \in T : u = n - x
  OBVIOUS
<1>4. ASSUME NEW y \in T PROVE x >= y
  BY <1>2, <1>3
<1> QED BY <1>4

-----------------------------------------------------------------------------
(* Matches *)

BlockType == [a : Nat \ {0}, b : Nat \ {0}, size : Nat]

(* A block of equal lines inside the bounds. *)
Within(m, old, new, alo, ahi, blo, bhi) ==
    /\ m \in BlockType
    /\ alo <= m.a /\ m.a + m.size - 1 <= ahi
    /\ blo <= m.b /\ m.b + m.size - 1 <= bhi
    /\ \A d \in 0..m.size - 1 : old[m.a + d] = new[m.b + d]

LEMMA MatchesAre ==
    ASSUME NEW old, NEW new,
           NEW alo \in Nat \ {0}, NEW ahi \in Nat, NEW blo \in Nat \ {0}, NEW bhi \in Nat,
           NEW m
    PROVE  m \in Matches(old, new, alo, ahi, blo, bhi)
              <=> Within(m, old, new, alo, ahi, blo, bhi) /\ m.size # 0
<1>1. ASSUME m \in Matches(old, new, alo, ahi, blo, bhi)
      PROVE  Within(m, old, new, alo, ahi, blo, bhi) /\ m.size # 0
  <2>1. PICK i \in alo..ahi, j \in blo..bhi, k \in 1..ahi : m = Block(i, j, k)
    BY <1>1 DEF Matches
  <2>2. m = [a |-> i, b |-> j, size |-> k]
    BY <2>1 DEF Block
  <2>3. m \in BlockType
    BY <2>2 DEF BlockType
  <2>4. /\ m.a + m.size - 1 <= ahi /\ m.b + m.size - 1 <= bhi
        /\ \A d \in 0..m.size - 1 : old[m.a + d] = new[m.b + d]
    BY <1>1 DEF Matches
  <2>5. alo <= m.a /\ blo <= m.b /\ m.size # 0
    BY <2>2
  <2> QED BY <2>3, <2>4, <2>5 DEF Within
<1>2. ASSUME Within(m, old, new, alo, ahi, blo, bhi), m.size # 0
      PROVE  m \in Matches(old, new, alo, ahi, blo, bhi)
  <2>1. m = Block(m.a, m.b, m.size) /\ m.a \in alo..ahi /\ m.b \in blo..bhi /\ m.size \in 1..ahi
    BY <1>2 DEF Within, BlockType, Block
  <2> QED BY <1>2, <2>1 DEF Within, Matches
<1> QED BY <1>1, <1>2

Precedes(m, n) ==
    \/ n.size < m.size
    \/ n.size = m.size /\ m.a < n.a
    \/ n.size = m.size /\ m.a = n.a /\ m.b <= n.b

LEMMA LongestIsOne ==
    ASSUME NEW M \in SUBSET BlockType, M # {}, NEW n \in Nat, \A m \in M : m.size <= n
    PROVE  LongestMatch(M) \in M /\ \A m \in M : m.size <= LongestMatch(M).size
<1>0. \A m \in M : m.a \in Nat /\ m.b \in Nat /\ m.size \in Nat
  BY DEF BlockType
<1> DEFINE Sizes == {m.size : m \in M}
<1>1. PICK s \in Sizes : \A x \in Sizes : s >= x
  <2>1. Sizes \in SUBSET Nat /\ Sizes # {} /\ \A x \in Sizes : x <= n
    BY <1>0
  <2> HIDE DEF Sizes
  <2> QED BY <2>1, Greatest
<1> DEFINE As == {m.a : m \in {m \in M : m.size = s}}
<1>2. PICK a \in As : \A x \in As : a <= x
  <2>1. As \in SUBSET Nat /\ As # {}
    BY <1>0
  <2> HIDE DEF As
  <2> QED BY <2>1, Least
<1> DEFINE Bs == {m.b : m \in {m \in M : m.size = s /\ m.a = a}}
<1>3. PICK b \in Bs : \A x \in Bs : b <= x
  <2>1. Bs \in SUBSET Nat /\ Bs # {}
    BY <1>0
  <2> HIDE DEF Bs
  <2> QED BY <2>1, Least
<1>4. PICK m \in M : m.size = s /\ m.a = a /\ m.b = b
  OBVIOUS
<1>5. ASSUME NEW x \in M PROVE Precedes(m, x)
  <2>1. x.size <= s
    BY <1>0, <1>1, <1>4
  <2>2. x.size = s => a <= x.a
    BY <1>2
  <2>3. x.size = s /\ x.a = a => b <= x.b
    BY <1>3
  <2>4. x.a \in Nat /\ x.b \in Nat /\ x.size \in Nat /\ m.a \in Nat /\ m.b \in Nat /\ m.size \in Nat
    BY <1>0
  <2> HIDE DEF Sizes, As, Bs
  <2> QED BY <1>4, <2>1, <2>2, <2>3, <2>4 DEF Precedes
<1>6. LongestMatch(M) = CHOOSE l \in M : \A x \in M : Precedes(l, x)
  BY DEF LongestMatch, Precedes
<1>7. LongestMatch(M) \in M /\ \A x \in M : Precedes(LongestMatch(M), x)
  <2> HIDE DEF Sizes, As, Bs
  <2> QED BY <1>4, <1>5, <1>6, Zenon
<1>8. ASSUME NEW x \in M PROVE x.size <= LongestMatch(M).size
  <2>1. PICK l \in M : l = LongestMatch(M)
    BY <1>7
  <2> HIDE DEF Sizes, As, Bs
  <2> QED BY <1>0, <1>7, <2>1 DEF Precedes
<1> QED BY <1>7, <1>8

-----------------------------------------------------------------------------
(* The recursion of get_matching_blocks *)

Lengths(old, new) == Len(old) \in Nat /\ Len(new) \in Nat

In(old, new, b) == Matches(old, new, b.alo, b.ahi, b.blo, b.bhi)
Left(b, m) == [b EXCEPT !.ahi = m.a - 1, !.bhi = m.b - 1]
Right(b, m) == [b EXCEPT !.alo = m.a + m.size, !.blo = m.b + m.size]

(* One step, where g has the blocks of smaller bounds. *)
Divide(g, old, new, b) ==
    IF In(old, new, b) = {} THEN <<>>
    ELSE g[Left(b, LongestMatch(In(old, new, b)))]
         \o <<LongestMatch(In(old, new, b))>>
         \o g[Right(b, LongestMatch(In(old, new, b)))]

Dividing(g, old, new) == g = [b \in Bound(old, new) |-> Divide(g, old, new, b)]

LEMMA InIs ==
    ASSUME NEW old, NEW new, Lengths(old, new), NEW b \in Bound(old, new), In(old, new, b) # {},
           NEW m, m = LongestMatch(In(old, new, b))
    PROVE  /\ Within(m, old, new, b.alo, b.ahi, b.blo, b.bhi) /\ m.size # 0
           /\ \A n \in In(old, new, b) : n.size <= m.size
<1>0. b.alo \in Nat \ {0} /\ b.ahi \in Nat /\ b.blo \in Nat \ {0} /\ b.bhi \in Nat
  BY DEF Lengths, Bound
<1>1. \A n \in In(old, new, b) : Within(n, old, new, b.alo, b.ahi, b.blo, b.bhi) /\ n.size # 0
  BY <1>0, MatchesAre DEF In
<1>2. \A n \in In(old, new, b) : n \in BlockType /\ n.size <= b.ahi
  <2> TAKE n \in In(old, new, b)
  <2>1. n \in BlockType /\ b.alo <= n.a /\ n.a + n.size - 1 <= b.ahi
    BY <1>1 DEF Within
  <2>2. n.a \in Nat \ {0} /\ n.size \in Nat
    BY <2>1 DEF BlockType
  <2> QED BY <1>0, <2>1, <2>2
<1>3. m \in In(old, new, b) /\ \A n \in In(old, new, b) : n.size <= m.size
  <2>1. In(old, new, b) \in SUBSET BlockType
    BY <1>2
  <2> QED BY <1>0, <1>2, <2>1, LongestIsOne
<1> QED BY <1>1, <1>3

LEMMA Sides ==
    ASSUME NEW b \in [alo : Int, ahi : Int, blo : Int, bhi : Int], NEW i \in Int, NEW j \in Int
    PROVE  /\ [b EXCEPT !.ahi = i, !.bhi = j] = [alo |-> b.alo, ahi |-> i, blo |-> b.blo, bhi |-> j]
           /\ [b EXCEPT !.alo = i, !.blo = j] = [alo |-> i, ahi |-> b.ahi, blo |-> j, bhi |-> b.bhi]
<1> DEFINE B == [alo : Int, ahi : Int, blo : Int, bhi : Int]
           l == [b EXCEPT !.ahi = i, !.bhi = j]
           r == [b EXCEPT !.alo = i, !.blo = j]
<1>1. \A c, d \in B : c.alo = d.alo /\ c.ahi = d.ahi /\ c.blo = d.blo /\ c.bhi = d.bhi => c = d
  OBVIOUS
<1>2. l \in B /\ l.alo = b.alo /\ l.ahi = i /\ l.blo = b.blo /\ l.bhi = j
  OBVIOUS
<1>3. r \in B /\ r.alo = i /\ r.ahi = b.ahi /\ r.blo = j /\ r.bhi = b.bhi
  OBVIOUS
<1> HIDE DEF l, r
<1> QED BY <1>1, <1>2, <1>3

Wide(b) == b.ahi + 1 - b.alo

LEMMA Smaller ==
    ASSUME NEW old, NEW new, Lengths(old, new), NEW b \in Bound(old, new), In(old, new, b) # {},
           NEW m, m = LongestMatch(In(old, new, b))
    PROVE  /\ Left(b, m) \in Bound(old, new) /\ Right(b, m) \in Bound(old, new)
           /\ Wide(Left(b, m)) < Wide(b) /\ Wide(Right(b, m)) < Wide(b)
           /\ Wide(b) \in Nat
<1>1. /\ m \in BlockType /\ m.size # 0
      /\ b.alo <= m.a /\ m.a + m.size - 1 <= b.ahi /\ b.blo <= m.b /\ m.b + m.size - 1 <= b.bhi
  BY InIs DEF Within
<1>2. m.a \in Nat \ {0} /\ m.b \in Nat \ {0} /\ m.size \in Nat \ {0}
  BY <1>1 DEF BlockType
<1>3. /\ b = [alo |-> b.alo, ahi |-> b.ahi, blo |-> b.blo, bhi |-> b.bhi]
      /\ b.alo \in 1..Len(old) + 1 /\ b.ahi \in 0..Len(old)
      /\ b.blo \in 1..Len(new) + 1 /\ b.bhi \in 0..Len(new)
  BY DEF Bound
<1>4. /\ Left(b, m) = [alo |-> b.alo, ahi |-> m.a - 1, blo |-> b.blo, bhi |-> m.b - 1]
      /\ Right(b, m) = [alo |-> m.a + m.size, ahi |-> b.ahi, blo |-> m.b + m.size, bhi |-> b.bhi]
  <2>1. b \in [alo : Int, ahi : Int, blo : Int, bhi : Int]
    BY DEF Bound
  <2>2. PICK i \in Int, j \in Int, k \in Int, l \in Int :
           i = m.a - 1 /\ j = m.b - 1 /\ k = m.a + m.size /\ l = m.b + m.size
    BY <1>2
  <2>3. [b EXCEPT !.ahi = i, !.bhi = j] = [alo |-> b.alo, ahi |-> i, blo |-> b.blo, bhi |-> j]
    BY <2>1, Sides
  <2>4. [b EXCEPT !.alo = k, !.blo = l] = [alo |-> k, ahi |-> b.ahi, blo |-> l, bhi |-> b.bhi]
    BY <2>1, Sides
  <2> QED BY <2>2, <2>3, <2>4 DEF Left, Right
<1>5. PICK lo \in Nat, ln \in Nat, alo \in Nat, ahi \in Nat, blo \in Nat, bhi \in Nat :
         /\ lo = Len(old) /\ ln = Len(new)
         /\ alo = b.alo /\ ahi = b.ahi /\ blo = b.blo /\ bhi = b.bhi
  BY <1>3 DEF Lengths
<1>51. PICK i \in Nat \ {0}, j \in Nat \ {0}, k \in Nat \ {0} : i = m.a /\ j = m.b /\ k = m.size
  BY <1>2
<1>52. /\ alo \in 1..lo + 1 /\ ahi <= lo /\ blo \in 1..ln + 1 /\ bhi <= ln
       /\ alo <= i /\ i + k - 1 <= ahi /\ blo <= j /\ j + k - 1 <= bhi
  BY <1>1, <1>3, <1>5, <1>51
<1>53. /\ i - 1 \in 0..lo /\ j - 1 \in 0..ln /\ i + k \in 1..lo + 1 /\ j + k \in 1..ln + 1
       /\ ahi + 1 - alo \in Nat /\ i - 1 + 1 - alo < ahi + 1 - alo
       /\ ahi + 1 - (i + k) < ahi + 1 - alo
  BY <1>52
<1>6. /\ m.a - 1 \in 0..Len(old) /\ m.b - 1 \in 0..Len(new)
      /\ m.a + m.size \in 1..Len(old) + 1 /\ m.b + m.size \in 1..Len(new) + 1
  BY <1>5, <1>51, <1>53
<1>7. Left(b, m) \in Bound(old, new) /\ Right(b, m) \in Bound(old, new)
  BY <1>3, <1>4, <1>6 DEF Bound
<1>8. /\ Wide(b) \in Nat /\ m.a - 1 + 1 - b.alo < Wide(b)
      /\ b.ahi + 1 - (m.a + m.size) < Wide(b)
  BY <1>5, <1>51, <1>53 DEF Wide
<1>9. Wide(Left(b, m)) = m.a - 1 + 1 - b.alo /\ Wide(Right(b, m)) = b.ahi + 1 - (m.a + m.size)
  BY <1>4 DEF Wide
<1> QED BY <1>7, <1>8, <1>9

DividesUpTo(g, old, new, n) ==
    \A b \in Bound(old, new) : Wide(b) <= n => g[b] = Divide(g, old, new, b)

LEMMA DividingExists ==
    ASSUME NEW old, NEW new, Lengths(old, new)
    PROVE  \E g : Dividing(g, old, new)
<1>0. \A b \in Bound(old, new) : Wide(b) \in Int /\ Wide(b) <= Len(old)
  BY DEF Bound, Wide, Lengths
<1> DEFINE T == {n \in Nat : ~ \E g : DividesUpTo(g, old, new, n)}
<1>1. T = {}
  <2> SUFFICES ASSUME T # {} PROVE FALSE
    OBVIOUS
  <2>1. PICK n \in T : \A x \in T : n <= x
    BY Least
  <2>2. \E g : \A b \in Bound(old, new) : Wide(b) < n => g[b] = Divide(g, old, new, b)
    <3>1. CASE n = 0
      <4> DEFINE g == [b \in Bound(old, new) |-> <<>>]
      <4>1. ASSUME NEW b \in Bound(old, new), Wide(b) < n PROVE g[b] = Divide(g, old, new, b)
        <5>1. In(old, new, b) = {}
          <6>1. Wide(b) \notin Nat
            BY <1>0, <3>1, <4>1
          <6> QED BY <6>1, Smaller
        <5> QED BY <5>1 DEF Divide
      <4> HIDE DEF g
      <4> QED BY <4>1
    <3>2. CASE n # 0
      <4>1. n - 1 \in Nat /\ n - 1 \notin T
        BY <2>1, <3>2
      <4>2. PICK g : DividesUpTo(g, old, new, n - 1)
        BY <4>1
      <4>3. \A b \in Bound(old, new) : Wide(b) < n => Wide(b) <= n - 1
        BY <1>0, <2>1
      <4> QED BY <4>2, <4>3 DEF DividesUpTo
    <3> QED BY <3>1, <3>2
  <2>3. PICK g : \A b \in Bound(old, new) : Wide(b) < n => g[b] = Divide(g, old, new, b)
    BY <2>2
  <2> DEFINE h == [b \in Bound(old, new) |-> Divide(g, old, new, b)]
  <2>4. ASSUME NEW b \in Bound(old, new), Wide(b) <= n PROVE h[b] = Divide(h, old, new, b)
    <3>1. \A c \in Bound(old, new) : Wide(c) < n => h[c] = g[c]
      BY <2>3
    <3>2. h[b] = Divide(g, old, new, b)
      OBVIOUS
    <3> HIDE DEF h
    <3>3. CASE In(old, new, b) = {}
      BY <3>2, <3>3 DEF Divide
    <3>4. CASE In(old, new, b) # {}
      <4>1. PICK m : m = LongestMatch(In(old, new, b))
        OBVIOUS
      <4>2. /\ Left(b, m) \in Bound(old, new) /\ Right(b, m) \in Bound(old, new)
            /\ Wide(Left(b, m)) < n /\ Wide(Right(b, m)) < n
        BY <1>0, <2>1, <2>4, <3>4, <4>1, Smaller
      <4>3. h[Left(b, m)] = g[Left(b, m)] /\ h[Right(b, m)] = g[Right(b, m)]
        BY <3>1, <4>2
      <4> QED BY <3>2, <4>1, <4>3 DEF Divide
    <3> QED BY <3>3, <3>4
  <2> HIDE DEF h
  <2>5. DividesUpTo(h, old, new, n)
    BY <2>4 DEF DividesUpTo
  <2> QED BY <2>1, <2>5
<1>2. PICK g : DividesUpTo(g, old, new, Len(old))
  BY <1>1 DEF Lengths
<1>3. \A b \in Bound(old, new) : g[b] = Divide(g, old, new, b)
  BY <1>0, <1>2 DEF DividesUpTo
<1> DEFINE h == [b \in Bound(old, new) |-> g[b]]
<1>4. ASSUME NEW b \in Bound(old, new) PROVE h[b] = Divide(h, old, new, b)
  <2>1. \A c \in Bound(old, new) : h[c] = g[c]
    OBVIOUS
  <2> HIDE DEF h
  <2>2. CASE In(old, new, b) = {}
    BY <1>3, <2>1, <2>2 DEF Divide
  <2>3. CASE In(old, new, b) # {}
    <3>1. PICK m : m = LongestMatch(In(old, new, b))
      OBVIOUS
    <3>2. Left(b, m) \in Bound(old, new) /\ Right(b, m) \in Bound(old, new)
      BY <2>3, <3>1, Smaller
    <3> QED BY <1>3, <2>1, <3>1, <3>2 DEF Divide
  <2> QED BY <2>2, <2>3
<1>5. h = [b \in Bound(old, new) |-> h[b]]
  OBVIOUS
<1> HIDE DEF h
<1>6. Dividing(h, old, new)
  BY <1>4, <1>5 DEF Dividing
<1> QED BY <1>6

All(old, new) == [alo |-> 1, ahi |-> Len(old), blo |-> 1, bhi |-> Len(new)]

LEMMA BlocksAre ==
    ASSUME NEW old, NEW new, Lengths(old, new)
    PROVE  \E g : Dividing(g, old, new) /\ MatchingBlocks(old, new) = g[All(old, new)]
<1> DEFINE g == CHOOSE g : Dividing(g, old, new)
<1>1. Dividing(g, old, new)
  BY DividingExists, Zenon
<1>2. MatchingBlocks(old, new) = g[All(old, new)]
  BY DEF MatchingBlocks, Dividing, Divide, In, Left, Right, All
<1> HIDE DEF g
<1> QED BY <1>1, <1>2

-----------------------------------------------------------------------------
(* The blocks lie in order *)

(* Blocks of equal lines inside the bounds, each behind the one before.      *)
Ordered(s, old, new, alo, ahi, blo, bhi) ==
    /\ s \in Seq(BlockType)
    /\ \A n \in 1..Len(s) : Within(s[n], old, new, alo, ahi, blo, bhi)
    /\ \A n, p \in 1..Len(s) :
          n < p => s[n].a + s[n].size <= s[p].a /\ s[n].b + s[n].size <= s[p].b

LEMMA Joined ==
    ASSUME NEW old, NEW new,
           NEW alo \in Int, NEW a1 \in Int, NEW a2 \in Int, NEW ahi \in Int,
           NEW blo \in Int, NEW b1 \in Int, NEW b2 \in Int, NEW bhi \in Int,
           alo <= a2, a1 < a2, a1 <= ahi, blo <= b2, b1 < b2, b1 <= bhi,
           NEW s, Ordered(s, old, new, alo, a1, blo, b1),
           NEW t, Ordered(t, old, new, a2, ahi, b2, bhi)
    PROVE  Ordered(s \o t, old, new, alo, ahi, blo, bhi)
<1> DEFINE u == s \o t
<1>1. s \in Seq(BlockType) /\ t \in Seq(BlockType)
  BY DEF Ordered
<1>2. PICK k \in Nat, l \in Nat : k = Len(s) /\ l = Len(t)
  BY <1>1
<1>3. /\ u \in Seq(BlockType) /\ Len(u) = k + l
      /\ \A n \in 1..k + l : u[n] = IF n <= k THEN s[n] ELSE t[n - k]
  BY <1>1, <1>2
<1>4. \A m : m \in BlockType => m.a \in Nat /\ m.b \in Nat /\ m.size \in Nat
  BY DEF BlockType
<1>5. ASSUME NEW n \in 1..k PROVE Within(s[n], old, new, alo, ahi, blo, bhi)
                                 /\ s[n].a + s[n].size <= a2 /\ s[n].b + s[n].size <= b2
  <2>1. Within(s[n], old, new, alo, a1, blo, b1)
    BY <1>2 DEF Ordered
  <2>2. s[n].a \in Nat /\ s[n].b \in Nat /\ s[n].size \in Nat
    BY <2>1, <1>4 DEF Within
  <2> QED BY <2>1, <2>2 DEF Within
<1>6. ASSUME NEW n \in 1..l PROVE Within(t[n], old, new, alo, ahi, blo, bhi)
                                 /\ a2 <= t[n].a /\ b2 <= t[n].b
  <2>1. Within(t[n], old, new, a2, ahi, b2, bhi)
    BY <1>2 DEF Ordered
  <2>2. t[n].a \in Nat /\ t[n].b \in Nat /\ t[n].size \in Nat
    BY <2>1, <1>4 DEF Within
  <2> QED BY <2>1, <2>2 DEF Within
<1> HIDE DEF u
<1>7. ASSUME NEW n \in 1..k + l PROVE Within(u[n], old, new, alo, ahi, blo, bhi)
  <2>1. CASE n <= k
    BY <1>3, <1>5, <2>1
  <2>2. CASE n > k
    <3>1. n - k \in 1..l /\ u[n] = t[n - k]
      BY <1>3, <2>2
    <3> QED BY <3>1, <1>6
  <2> QED BY <2>1, <2>2
<1>8. ASSUME NEW n \in 1..k + l, NEW p \in 1..k + l, n < p
      PROVE  u[n].a + u[n].size <= u[p].a /\ u[n].b + u[n].size <= u[p].b
  <2>1. CASE p <= k
    <3>1. n \in 1..k /\ p \in 1..k /\ u[n] = s[n] /\ u[p] = s[p]
      BY <1>3, <1>8, <2>1
    <3> QED BY <3>1, <1>2, <1>8 DEF Ordered
  <2>2. CASE n <= k /\ p > k
    <3>1. n \in 1..k /\ p - k \in 1..l /\ u[n] = s[n] /\ u[p] = t[p - k]
      BY <1>3, <2>2
    <3>2. /\ u[n].a + u[n].size <= a2 /\ u[n].b + u[n].size <= b2
          /\ a2 <= u[p].a /\ b2 <= u[p].b
      BY <3>1, <1>5, <1>6
    <3>3. u[n] \in BlockType /\ u[p] \in BlockType
      BY <1>7 DEF Within
    <3> QED BY <3>2, <3>3, <1>4
  <2>3. CASE n > k
    <3>1. n - k \in 1..l /\ p - k \in 1..l /\ n - k < p - k /\ u[n] = t[n - k] /\ u[p] = t[p - k]
      BY <1>3, <1>8, <2>3
    <3> QED BY <3>1, <1>2 DEF Ordered
  <2> QED BY <2>1, <2>2, <2>3
<1>9. Ordered(u, old, new, alo, ahi, blo, bhi)
  BY <1>3, <1>7, <1>8 DEF Ordered
<1> QED BY <1>9 DEF u

LEMMA Single ==
    ASSUME NEW old, NEW new, NEW alo, NEW ahi, NEW blo, NEW bhi,
           NEW m, Within(m, old, new, alo, ahi, blo, bhi)
    PROVE  Ordered(<<m>>, old, new, alo, ahi, blo, bhi)
<1>1. m \in BlockType
  BY DEF Within
<1>2. <<m>> \in Seq(BlockType) /\ Len(<<m>>) = 1 /\ <<m>>[1] = m
  BY <1>1
<1> QED BY <1>2 DEF Ordered

LEMMA BlocksOrdered ==
    ASSUME NEW old, NEW new, Lengths(old, new), NEW g, Dividing(g, old, new)
    PROVE  \A b \in Bound(old, new) : Ordered(g[b], old, new, b.alo, b.ahi, b.blo, b.bhi)
<1> DEFINE OK(b) == Ordered(g[b], old, new, b.alo, b.ahi, b.blo, b.bhi)
           T == {n \in Nat : \E b \in Bound(old, new) : ~OK(b) /\ Wide(b) < n}
<1>0. \A b \in Bound(old, new) : Wide(b) \in Int
  BY DEF Bound, Wide, Lengths
<1>1. T = {}
  <2> SUFFICES ASSUME T # {} PROVE FALSE
    OBVIOUS
  <2>1. PICK n \in T : \A x \in T : n <= x
    <3>1. T \in SUBSET Nat OBVIOUS
    <3> HIDE DEF T
    <3> QED BY <3>1, Least
  <2>2. PICK b \in Bound(old, new) : ~OK(b) /\ Wide(b) < n
    OBVIOUS
  <2>3. \A c \in Bound(old, new) : Wide(c) < Wide(b) /\ Wide(b) \in Nat => OK(c)
    <3> SUFFICES ASSUME NEW c \in Bound(old, new), Wide(c) < Wide(b), Wide(b) \in Nat, ~OK(c) PROVE FALSE
      OBVIOUS
    <3>1. Wide(b) \in T
      OBVIOUS
    <3> QED BY <3>1, <2>1, <2>2
  <2> HIDE DEF OK, T
  <2>4. g[b] = Divide(g, old, new, b)
    BY DEF Dividing
  <2>5. CASE In(old, new, b) = {}
    <3>1. g[b] = <<>>
      BY <2>4, <2>5 DEF Divide
    <3> QED BY <2>2, <3>1 DEF OK, Ordered
  <2>6. CASE In(old, new, b) # {}
    <3>1. PICK m : m = LongestMatch(In(old, new, b))
      OBVIOUS
    <3>2. /\ OK(Left(b, m)) /\ OK(Right(b, m))
          /\ g[b] = g[Left(b, m)] \o <<m>> \o g[Right(b, m)]
      BY <2>3, <2>4, <2>6, <3>1, Smaller DEF Divide
    <3>3. /\ Left(b, m).alo = b.alo /\ Left(b, m).ahi = m.a - 1
          /\ Left(b, m).blo = b.blo /\ Left(b, m).bhi = m.b - 1
          /\ Right(b, m).alo = m.a + m.size /\ Right(b, m).ahi = b.ahi
          /\ Right(b, m).blo = m.b + m.size /\ Right(b, m).bhi = b.bhi
      BY DEF Bound, Left, Right
    <3>4. /\ Within(m, old, new, b.alo, b.ahi, b.blo, b.bhi) /\ m.size # 0
      BY <2>6, <3>1, InIs
    <3>5. /\ b.alo \in Int /\ b.ahi \in Int /\ b.blo \in Int /\ b.bhi \in Int
          /\ m.a \in Nat /\ m.b \in Nat /\ m.size \in Nat \ {0}
      BY <3>4 DEF Within, BlockType, Bound, Lengths
    <3>6. PICK alo \in Int, ahi \in Int, blo \in Int, bhi \in Int :
             alo = b.alo /\ ahi = b.ahi /\ blo = b.blo /\ bhi = b.bhi
      BY <3>5
    <3>61. PICK a1 \in Int, a2 \in Int, a3 \in Int, a4 \in Int :
             a1 = m.a - 1 /\ a2 = m.a /\ a3 = m.a + m.size - 1 /\ a4 = m.a + m.size
      BY <3>5
    <3>62. PICK b1 \in Int, b2 \in Int, b3 \in Int, b4 \in Int :
             b1 = m.b - 1 /\ b2 = m.b /\ b3 = m.b + m.size - 1 /\ b4 = m.b + m.size
      BY <3>5
    <3>7. /\ alo <= a2 /\ a3 <= ahi /\ blo <= b2 /\ b3 <= bhi
          /\ a1 < a2 /\ a1 <= a3 /\ a3 < a4 /\ alo <= a4
          /\ b1 < b2 /\ b1 <= b3 /\ b3 < b4 /\ blo <= b4
      BY <3>4, <3>5, <3>6, <3>61, <3>62 DEF Within
    <3>8. PICK l, r : l = g[Left(b, m)] /\ r = g[Right(b, m)]
      OBVIOUS
    <3>9. Ordered(l, old, new, alo, a1, blo, b1) /\ Ordered(r, old, new, a4, ahi, b4, bhi)
      BY <3>2, <3>3, <3>6, <3>61, <3>62, <3>8 DEF OK
    <3>10. Ordered(<<m>>, old, new, a2, a3, b2, b3)
      <4>1. Within(m, old, new, a2, a3, b2, b3)
        BY <3>4, <3>5, <3>6, <3>61, <3>62 DEF Within
      <4> QED BY <4>1, Single
    <3>11. Ordered(l \o <<m>>, old, new, alo, a3, blo, b3)
      BY <3>7, <3>9, <3>10, Joined
    <3>12. PICK lm : lm = l \o <<m>>
      OBVIOUS
    <3>13. Ordered(lm \o r, old, new, alo, ahi, blo, bhi)
      BY <3>7, <3>9, <3>11, <3>12, Joined
    <3> QED BY <2>2, <3>2, <3>6, <3>61, <3>62, <3>8, <3>12, <3>13 DEF OK
  <2> QED BY <2>5, <2>6
<1>2. ASSUME NEW b \in Bound(old, new) PROVE OK(b)
  <2>1. PICK n \in Nat : Wide(b) < n
    <3>1. \A w \in Int : \E n \in Nat : w < n
      <4> TAKE w \in Int
      <4>1. CASE w < 0
        BY <4>1
      <4>2. CASE w >= 0
        <5>1. w + 1 \in Nat /\ w < w + 1
          BY <4>2
        <5> QED BY <5>1
      <4> QED BY <4>1, <4>2
    <3> QED BY <1>0, <3>1
  <2> QED BY <1>1, <2>1
<1> QED BY <1>2

-----------------------------------------------------------------------------
(* The fence *)

LEMMA FenceOrdered ==
    ASSUME NEW old, NEW new, Lengths(old, new)
    PROVE  /\ Ordered(Fence(old, new), old, new, 1, Len(old), 1, Len(new))
           /\ Len(Fence(old, new)) >= 2
           /\ Fence(old, new)[1] = Block(1, 1, 0)
           /\ Fence(old, new)[Len(Fence(old, new))] = Block(Len(old) + 1, Len(new) + 1, 0)
<1>1. PICK lo \in Nat, ln \in Nat : lo = Len(old) /\ ln = Len(new)
  BY DEF Lengths
<1>2. PICK m : m = MatchingBlocks(old, new)
  OBVIOUS
<1>3. Ordered(m, old, new, 1, lo, 1, ln)
  <2>1. PICK g : Dividing(g, old, new) /\ m = g[All(old, new)]
    BY <1>2, BlocksAre
  <2>2. /\ All(old, new) \in Bound(old, new)
        /\ All(old, new).alo = 1 /\ All(old, new).ahi = lo
        /\ All(old, new).blo = 1 /\ All(old, new).bhi = ln
    BY <1>1 DEF All, Bound
  <2> QED BY <2>1, <2>2, BlocksOrdered
<1>4. PICK x : x = Block(1, 1, 0)
  OBVIOUS
<1>5. PICK i \in Nat \ {0}, j \in Nat \ {0} : i = lo + 1 /\ j = ln + 1
  OBVIOUS
<1>6. PICK y : y = Block(i, j, 0)
  OBVIOUS
<1>7. Within(x, old, new, 1, 0, 1, 0) /\ Within(y, old, new, i, lo, j, ln)
  BY <1>4, <1>5, <1>6 DEF Block, Within, BlockType
<1>8. Ordered(<<x>>, old, new, 1, 0, 1, 0) /\ Ordered(<<y>>, old, new, i, lo, j, ln)
  BY <1>7, Single
<1>9. PICK xm : xm = <<x>> \o m
  OBVIOUS
<1>10. Ordered(xm, old, new, 1, lo, 1, ln)
  BY <1>3, <1>8, <1>9, Joined
<1>11. Ordered(xm \o <<y>>, old, new, 1, lo, 1, ln)
  BY <1>5, <1>8, <1>10, Joined
<1>12. Fence(old, new) = xm \o <<y>>
  BY <1>1, <1>2, <1>4, <1>5, <1>6, <1>9 DEF Fence
<1>13. m \in Seq(BlockType) /\ x \in BlockType /\ y \in BlockType
  BY <1>3, <1>7 DEF Ordered, Within
<1>14. xm \in Seq(BlockType) /\ Len(xm) = Len(m) + 1 /\ xm[1] = x
  BY <1>9, <1>13
<1>15. PICK f : f = xm \o <<y>>
  OBVIOUS
<1>16. Len(f) = Len(xm) + 1 /\ f[1] = x /\ f[Len(f)] = y /\ Len(f) >= 2
  BY <1>13, <1>14, <1>15
<1> QED BY <1>1, <1>4, <1>5, <1>6, <1>11, <1>12, <1>15, <1>16

-----------------------------------------------------------------------------
(* The spans *)

(* Line j of the new text is in block n.                                     *)
InBlock(f, n, j) == f[n].b <= j /\ j < f[n].b + f[n].size

Changes(f, n) == f[n].a + f[n].size < f[n + 1].a \/ f[n].b + f[n].size < f[n + 1].b
SpanAt(f, n) == [start |-> (f[n].b + f[n].size) - 1, end |-> f[n + 1].b - 1]

LEMMA SpansAre ==
    ASSUME NEW old, NEW new, NEW f, f = Fence(old, new), NEW s
    PROVE  s \in ChangedSpans(old, new)
              <=> \E n \in 1..Len(f) - 1 : Changes(f, n) /\ s = SpanAt(f, n)
<1> DEFINE St(n) == [a |-> f[n].a + f[n].size, aend |-> f[n + 1].a,
                     b |-> f[n].b + f[n].size, bend |-> f[n + 1].b]
<1>1. Stretches(old, new) = {St(n) : n \in 1..Len(f) - 1}
  BY DEF Stretches
<1>2. s \in ChangedSpans(old, new)
         <=> \E t \in Stretches(old, new) :
                (t.a < t.aend \/ t.b < t.bend) /\ s = [start |-> t.b - 1, end |-> t.bend - 1]
  BY DEF ChangedSpans
<1>3. ASSUME NEW n
      PROVE  /\ (St(n).a < St(n).aend \/ St(n).b < St(n).bend) <=> Changes(f, n)
             /\ [start |-> St(n).b - 1, end |-> St(n).bend - 1] = SpanAt(f, n)
  <2>1. /\ St(n).a = f[n].a + f[n].size /\ St(n).aend = f[n + 1].a
        /\ St(n).b = f[n].b + f[n].size /\ St(n).bend = f[n + 1].b
    OBVIOUS
  <2> HIDE DEF St
  <2>2. (St(n).a < St(n).aend \/ St(n).b < St(n).bend) <=> Changes(f, n)
    BY <2>1, Zenon DEF Changes
  <2>3. [start |-> St(n).b - 1, end |-> St(n).bend - 1] = SpanAt(f, n)
    <3>1. St(n).b - 1 = (f[n].b + f[n].size) - 1 /\ St(n).bend - 1 = f[n + 1].b - 1
      BY <2>1, Zenon
    <3> QED BY <3>1, Zenon DEF SpanAt
  <2> QED BY <2>2, <2>3
<1> HIDE DEF St
<1> QED BY <1>1, <1>2, <1>3

(* What is fixed of a fence in the lemmas about it.                          *)
Fenced(f, old, new, k, lo, ln) ==
    /\ lo \in Nat /\ lo = Len(old) /\ ln \in Nat /\ ln = Len(new) /\ k \in Nat /\ k >= 2
    /\ Ordered(f, old, new, 1, lo, 1, ln) /\ k = Len(f)
    /\ f[1] = Block(1, 1, 0) /\ f[k] = Block(lo + 1, ln + 1, 0)
    /\ DOMAIN old = 1..lo /\ DOMAIN new = 1..ln

LEMMA FenceIs ==
    ASSUME NEW f, NEW old, NEW new, NEW k, NEW lo, NEW ln, Fenced(f, old, new, k, lo, ln)
    PROVE  /\ lo \in Nat /\ ln \in Nat /\ k \in Nat /\ k >= 2
           /\ \A n \in 1..k :
                /\ f[n].a \in Nat /\ f[n].b \in Nat /\ f[n].size \in Nat
                /\ 1 <= f[n].a /\ f[n].a + f[n].size <= lo + 1
                /\ 1 <= f[n].b /\ f[n].b + f[n].size <= ln + 1
                /\ \A d \in 0..f[n].size - 1 : old[f[n].a + d] = new[f[n].b + d]
           /\ \A n, p \in 1..k :
                n < p => f[n].a + f[n].size <= f[p].a /\ f[n].b + f[n].size <= f[p].b
           /\ f[1].a = 1 /\ f[1].b = 1 /\ f[k].a = lo + 1 /\ f[k].b = ln + 1
<1>1. /\ lo \in Nat /\ ln \in Nat /\ k \in Nat /\ k >= 2
      /\ f[1].a = 1 /\ f[1].b = 1 /\ f[k].a = lo + 1 /\ f[k].b = ln + 1
  BY DEF Fenced, Block
<1>2. ASSUME NEW n \in 1..k
      PROVE  /\ f[n].a \in Nat /\ f[n].b \in Nat /\ f[n].size \in Nat
             /\ 1 <= f[n].a /\ f[n].a + f[n].size <= lo + 1
             /\ 1 <= f[n].b /\ f[n].b + f[n].size <= ln + 1
             /\ \A d \in 0..f[n].size - 1 : old[f[n].a + d] = new[f[n].b + d]
  <2>1. Within(f[n], old, new, 1, lo, 1, ln)
    BY DEF Fenced, Ordered
  <2>2. f[n].a \in Nat /\ f[n].b \in Nat /\ f[n].size \in Nat
    BY <2>1 DEF Within, BlockType
  <2> QED BY <1>1, <2>1, <2>2 DEF Within
<1>3. \A n, p \in 1..k :
         n < p => f[n].a + f[n].size <= f[p].a /\ f[n].b + f[n].size <= f[p].b
  BY DEF Fenced, Ordered
<1> QED BY <1>1, <1>2, <1>3

(* A line of the new text is in no span exactly if it is in a block.         *)
LEMMA KeptIs ==
    ASSUME NEW f, NEW old, NEW new, NEW k, NEW lo, NEW ln, Fenced(f, old, new, k, lo, ln),
           f = Fence(old, new), NEW j \in 1..ln
    PROVE  ~Owned(ChangedSpans(old, new), j) <=> \E n \in 1..k : InBlock(f, n, j)
<1> USE FenceIs
<1>0. k = Len(f)
  BY DEF Fenced
<1>1. ASSUME NEW n \in 1..k, InBlock(f, n, j), Owned(ChangedSpans(old, new), j) PROVE FALSE
  <2>1. PICK s \in ChangedSpans(old, new) : s.start < j /\ j <= s.end
    BY <1>1 DEF Owned
  <2>2. PICK p \in 1..k - 1 : s = SpanAt(f, p)
    BY <1>0, <2>1, SpansAre
  <2>3. p \in 1..k /\ p + 1 \in 1..k
    OBVIOUS
  <2>4. f[p].b + f[p].size - 1 < j /\ j <= f[p + 1].b - 1
    BY <2>1, <2>2 DEF SpanAt
  <2>5. n <= p \/ n >= p + 1
    OBVIOUS
  <2>6. CASE n <= p
    <3>1. n = p \/ f[n].b + f[n].size <= f[p].b
      BY <2>3, <2>6
    <3> QED BY <1>1, <2>3, <2>4, <3>1 DEF InBlock
  <2>7. CASE n >= p + 1
    <3>1. n = p + 1 \/ f[p + 1].b + f[p + 1].size <= f[n].b
      BY <2>3, <2>7
    <3> QED BY <1>1, <2>3, <2>4, <3>1 DEF InBlock
  <2> QED BY <2>5, <2>6, <2>7
<1>2. ASSUME ~Owned(ChangedSpans(old, new), j) PROVE \E n \in 1..k : InBlock(f, n, j)
  <2> DEFINE T == {n \in 1..k : f[n].b <= j}
  <2>1. PICK n \in T : \A x \in T : n >= x
    <3>1. 1 \in T /\ T \in SUBSET Nat /\ \A x \in T : x <= k
      OBVIOUS
    <3> HIDE DEF T
    <3> QED BY <3>1, Greatest
  <2>2. n \in 1..k /\ f[n].b <= j /\ n # k
    OBVIOUS
  <2>3. n \in 1..k - 1 /\ n + 1 \in 1..k
    BY <2>2
  <2>4. j < f[n + 1].b
    <3>1. n + 1 \notin T
      BY <2>1, <2>3
    <3> QED BY <2>3, <3>1
  <2> HIDE DEF T
  <2>5. CASE j < f[n].b + f[n].size
    BY <2>2, <2>5 DEF InBlock
  <2>6. CASE j >= f[n].b + f[n].size
    <3>1. SpanAt(f, n) \in ChangedSpans(old, new)
      <4>1. f[n].b + f[n].size < f[n + 1].b
        BY <2>2, <2>3, <2>4, <2>6
      <4>2. Changes(f, n)
        BY <4>1 DEF Changes
      <4>3. PICK s : s = SpanAt(f, n)
        OBVIOUS
      <4> QED BY <1>0, <2>3, <4>2, <4>3, SpansAre
    <3>2. SpanAt(f, n).start < j /\ j <= SpanAt(f, n).end
      BY <2>2, <2>3, <2>4, <2>6 DEF SpanAt
    <3> QED BY <1>2, <3>1, <3>2 DEF Owned
  <2> QED BY <2>2, <2>3, <2>5, <2>6
<1> QED BY <1>1, <1>2

-----------------------------------------------------------------------------
(* The old line of a kept one *)

BlockOf(f, k, j) == CHOOSE n \in 1..k : InBlock(f, n, j)
OldLine(f, k, j) == f[BlockOf(f, k, j)].a + (j - f[BlockOf(f, k, j)].b)

LEMMA OldLineIs ==
    ASSUME NEW f, NEW old, NEW new, NEW k, NEW lo, NEW ln, Fenced(f, old, new, k, lo, ln),
           NEW j \in 1..ln, NEW n \in 1..k, InBlock(f, n, j)
    PROVE  /\ OldLine(f, k, j) = f[n].a + (j - f[n].b)
           /\ OldLine(f, k, j) \in 1..lo
           /\ f[n].a <= OldLine(f, k, j) /\ OldLine(f, k, j) < f[n].a + f[n].size
           /\ old[OldLine(f, k, j)] = new[j]
<1> USE FenceIs
<1>1. \A p \in 1..k : InBlock(f, p, j) => p = n
  <2> SUFFICES ASSUME NEW p \in 1..k, InBlock(f, p, j), p # n PROVE FALSE
    OBVIOUS
  <2>1. CASE p < n
    BY <2>1 DEF InBlock
  <2>2. CASE n < p
    BY <2>2 DEF InBlock
  <2> QED BY <2>1, <2>2
<1>2. BlockOf(f, k, j) = n
  BY <1>1 DEF BlockOf
<1>3. OldLine(f, k, j) = f[n].a + (j - f[n].b)
  BY <1>2 DEF OldLine
<1>4. PICK d \in 0..f[n].size - 1 : d = j - f[n].b
  BY DEF InBlock
<1>5. old[f[n].a + d] = new[f[n].b + d] /\ f[n].b + d = j
  BY <1>4
<1> QED BY <1>3, <1>4, <1>5

LEMMA Pushed ==
    ASSUME NEW S, NEW s \in Seq(S), NEW y \in S, NEW t, t = s \o <<y>>
    PROVE  /\ Len(t) = Len(s) + 1 /\ t[Len(t)] = y
           /\ \A n \in 1..Len(s) : t[n] = s[n]
OBVIOUS

(* A text differs from itself nowhere: its longest match is the whole of it. *)
LEMMA SameText ==
    ASSUME NEW old, Lengths(old, old)
    PROVE  ChangedSpans(old, old) = {}
<1>1. PICK lo \in Nat : lo = Len(old)
  BY DEF Lengths
<1>2. PICK g : Dividing(g, old, old) /\ MatchingBlocks(old, old) = g[All(old, old)]
  BY BlocksAre
<1>3. PICK b : b = All(old, old)
  OBVIOUS
<1>4. /\ b \in Bound(old, old) /\ b.alo = 1 /\ b.ahi = lo /\ b.blo = 1 /\ b.bhi = lo
  BY <1>1, <1>3 DEF All, Bound
<1>5. \A c \in Bound(old, old) : c.ahi < c.alo => g[c] = <<>>
  <2> SUFFICES ASSUME NEW c \in Bound(old, old), c.ahi < c.alo PROVE g[c] = <<>>
    OBVIOUS
  <2>1. c.alo \in Int /\ c.ahi \in Int
    BY DEF Bound
  <2>2. In(old, old, c) = {}
    <3> SUFFICES ASSUME In(old, old, c) # {} PROVE FALSE
      OBVIOUS
    <3>1. PICK m : m = LongestMatch(In(old, old, c))
      OBVIOUS
    <3>2. m \in BlockType /\ c.alo <= m.a /\ m.a + m.size - 1 <= c.ahi /\ m.size # 0
      BY <3>1, InIs DEF Within
    <3>3. m.a \in Nat /\ m.size \in Nat
      BY <3>2 DEF BlockType
    <3> QED BY <2>1, <3>2, <3>3
  <2> QED BY <1>2, <2>2 DEF Dividing, Divide
<1>6. CASE lo = 0
  <2>1. MatchingBlocks(old, old) = <<>>
    BY <1>2, <1>3, <1>4, <1>5, <1>6
  <2>2. PICK f : f = Fence(old, old)
    OBVIOUS
  <2>3. Len(f) = 2 /\ f[1] = Block(1, 1, 0) /\ f[2] = Block(1, 1, 0)
    <3>1. PICK x : x = Block(1, 1, 0)
      OBVIOUS
    <3>2. Block(Len(old) + 1, Len(old) + 1, 0) = x
      BY <1>1, <1>6, <3>1
    <3>3. f = <<x>> \o <<>> \o <<x>>
      BY <2>1, <2>2, <3>1, <3>2 DEF Fence
    <3>4. x \in BlockType
      BY <3>1 DEF Block, BlockType
    <3>5. f = <<x>> \o <<x>>
      BY <3>3, <3>4
    <3> QED BY <3>1, <3>4, <3>5
  <2>4. \A n \in 1..Len(f) - 1 : ~Changes(f, n)
    BY <2>3 DEF Changes, Block
  <2> QED BY <2>2, <2>4, SpansAre
<1>7. CASE lo # 0
  <2>1. PICK w : w = Block(1, 1, lo)
    OBVIOUS
  <2>2. w.a = 1 /\ w.b = 1 /\ w.size = lo /\ w \in BlockType
    BY <2>1, <1>7 DEF Block, BlockType
  <2>3. w \in In(old, old, b)
    <3>1. Within(w, old, old, 1, lo, 1, lo)
      BY <2>2 DEF Within
    <3>2. 1 \in Nat \ {0} /\ lo \in Nat
      OBVIOUS
    <3>3. w \in Matches(old, old, 1, lo, 1, lo)
      BY <1>7, <2>2, <3>1, <3>2, MatchesAre
    <3> QED BY <1>4, <3>3 DEF In
  <2>4. PICK m : m = LongestMatch(In(old, old, b))
    OBVIOUS
  <2>5. Within(m, old, old, 1, lo, 1, lo) /\ lo <= m.size
    BY <1>4, <2>2, <2>3, <2>4, InIs
  <2>6. m.a \in Nat \ {0} /\ m.b \in Nat \ {0} /\ m.size \in Nat
    BY <2>5 DEF Within, BlockType
  <2>7. m.a = 1 /\ m.b = 1 /\ m.size = lo
    BY <2>5, <2>6 DEF Within
  <2>8. Left(b, m) \in Bound(old, old) /\ Right(b, m) \in Bound(old, old)
    BY <1>4, <2>3, <2>4, Smaller
  <2>9. Left(b, m).ahi = 0 /\ Left(b, m).alo = 1 /\ Right(b, m).alo = lo + 1 /\ Right(b, m).ahi = lo
    BY <1>4, <2>7 DEF Left, Right, Bound
  <2>10. g[Left(b, m)] = <<>> /\ g[Right(b, m)] = <<>>
    <3>1. 0 < 1 /\ lo < lo + 1
      OBVIOUS
    <3> QED BY <1>5, <2>8, <2>9, <3>1
  <2>11. MatchingBlocks(old, old) = <<>> \o <<m>> \o <<>>
    BY <1>2, <1>3, <1>4, <2>3, <2>4, <2>10 DEF Dividing, Divide
  <2>12. MatchingBlocks(old, old) = <<m>>
    BY <2>11
  <2>13. PICK f : f = Fence(old, old)
    OBVIOUS
  <2>15. Len(f) = 3 /\ f[1] = Block(1, 1, 0) /\ f[2] = m /\ f[3] = Block(lo + 1, lo + 1, 0)
    <3>1. PICK x, y : x = Block(1, 1, 0) /\ y = Block(lo + 1, lo + 1, 0)
      OBVIOUS
    <3>2. f = <<x>> \o <<m>> \o <<y>>
      BY <1>1, <2>12, <2>13, <3>1 DEF Fence
    <3>3. x \in BlockType /\ y \in BlockType /\ m \in BlockType
      BY <2>5, <3>1 DEF Block, BlockType, Within
    <3>4. PICK h : h = <<x>> \o <<m>>
      OBVIOUS
    <3>5. h \in Seq(BlockType) /\ Len(h) = 2 /\ h[1] = x /\ h[2] = m
      BY <3>3, <3>4
    <3>6. f = h \o <<y>>
      BY <3>2, <3>4
    <3>9. /\ Len(f) = Len(h) + 1 /\ f[Len(f)] = y
          /\ \A n \in 1..Len(h) : f[n] = h[n]
      BY <3>3, <3>5, <3>6, Pushed
    <3>7. Len(f) = 3 /\ f[3] = y
      BY <3>5, <3>9
    <3>8. f[1] = h[1] /\ f[2] = h[2]
      BY <3>5, <3>9
    <3> QED BY <3>1, <3>5, <3>7, <3>8
  <2>16. \A n \in 1..Len(f) - 1 : ~Changes(f, n)
    <3>1. ~Changes(f, 1)
      BY <2>7, <2>15 DEF Changes, Block
    <3>2. ~Changes(f, 2)
      BY <2>7, <2>15 DEF Changes, Block
    <3> QED BY <2>15, <3>1, <3>2
  <2> QED BY <2>13, <2>16, SpansAre
<1> QED BY <1>6, <1>7

(* Every line outside the spans is an old line, in the old order, and where   *)
(* an old line is missing there is a span: what _changed_spans returns.      *)
LEMMA FenceAccounts ==
    ASSUME NEW f, NEW old, NEW new, NEW k, NEW lo, NEW ln, Fenced(f, old, new, k, lo, ln),
           f = Fence(old, new)
    PROVE  AccountFor(ChangedSpans(old, new), old, new)
<1>0. \A n \in 1..k : /\ f[n].a \in Nat /\ f[n].b \in Nat /\ f[n].size \in Nat
                      /\ 1 <= f[n].a /\ f[n].a + f[n].size <= lo + 1
                      /\ 1 <= f[n].b /\ f[n].b + f[n].size <= ln + 1
  BY FenceIs
<1>1. /\ lo \in Nat /\ ln \in Nat /\ k \in Nat /\ k >= 2
      /\ f[1].a = 1 /\ f[k].a = lo + 1
      /\ \A n, p \in 1..k :
            n < p => f[n].a + f[n].size <= f[p].a /\ f[n].b + f[n].size <= f[p].b
  BY FenceIs
<1>2. k = Len(f) /\ ln = Len(new) /\ lo = Len(old)
  BY DEF Fenced
<1> DEFINE spans == ChangedSpans(old, new)
           kept == {j \in 1..ln : ~Owned(spans, j)}
           from == [j \in kept |-> OldLine(f, k, j)]
<1>3. \A s \in spans : 0 <= s.start /\ s.start <= s.end /\ s.end <= ln
  <2> SUFFICES ASSUME NEW s \in spans
               PROVE  0 <= s.start /\ s.start <= s.end /\ s.end <= ln
    OBVIOUS
  <2>1. PICK n \in 1..k - 1 : s = SpanAt(f, n)
    BY <1>2, SpansAre
  <2>2. n \in 1..k /\ n + 1 \in 1..k /\ n < n + 1
    BY <1>1
  <2>4. /\ f[n].b \in Nat /\ f[n].size \in Nat /\ 1 <= f[n].b
        /\ f[n + 1].b \in Nat /\ f[n + 1].size \in Nat /\ f[n + 1].b + f[n + 1].size <= ln + 1
        /\ f[n].b + f[n].size <= f[n + 1].b
    BY <1>0, <1>1, <2>2
  <2>3. s.start = (f[n].b + f[n].size) - 1 /\ s.end = f[n + 1].b - 1
    BY <2>1 DEF SpanAt
  <2> HIDE DEF spans
  <2>5. \A i, j, m, q \in Nat : 1 <= i /\ i + j <= m /\ m + q <= ln + 1
           => 0 <= (i + j) - 1 /\ (i + j) - 1 <= m - 1 /\ m - 1 <= ln
    BY <1>1
  <2> QED BY <2>3, <2>4, <2>5
<1>4. \A j \in kept : \E n \in 1..k : InBlock(f, n, j)
  BY KeptIs
<1>5. \A j \in 1..ln : (\E n \in 1..k : InBlock(f, n, j)) => j \in kept
  BY KeptIs
<1> HIDE DEF spans
<1>51. /\ kept \subseteq 1..ln
       /\ from = [j \in kept |-> from[j]]
       /\ \A j \in kept : from[j] = OldLine(f, k, j)
  OBVIOUS
<1>52. kept = {j \in DOMAIN new : ~Owned(spans, j)}
  BY DEF Fenced
<1> HIDE DEF kept, from
<1>6. \A j \in kept : from[j] \in 1..lo /\ old[from[j]] = new[j]
  <2> SUFFICES ASSUME NEW j \in kept PROVE from[j] \in 1..lo /\ old[from[j]] = new[j]
    OBVIOUS
  <2>1. PICK n \in 1..k : InBlock(f, n, j)
    BY <1>4
  <2>2. j \in 1..ln /\ from[j] = OldLine(f, k, j)
    BY <1>51
  <2>3. OldLine(f, k, j) \in 1..lo /\ old[OldLine(f, k, j)] = new[j]
    <3>1. j \in 1..ln
      BY <2>2
    <3> QED BY <2>1, <3>1, OldLineIs
  <2> QED BY <2>2, <2>3
<1>7. Increasing(from)
  <2> SUFFICES ASSUME NEW x \in kept, NEW y \in kept, x < y PROVE from[x] < from[y]
    BY <1>51 DEF Increasing
  <2>1. PICK n \in 1..k : InBlock(f, n, x)
    BY <1>4
  <2>2. PICK p \in 1..k : InBlock(f, p, y)
    BY <1>4
  <2>3. /\ from[x] = f[n].a + (x - f[n].b) /\ from[x] < f[n].a + f[n].size
        /\ from[y] = f[p].a + (y - f[p].b) /\ f[p].a <= from[y]
        /\ from[x] \in 1..lo /\ from[y] \in 1..lo
    BY <1>51, <2>1, <2>2, OldLineIs
  <2>7. /\ f[n].a \in Nat /\ f[n].b \in Nat /\ f[n].size \in Nat
        /\ f[p].a \in Nat /\ f[p].b \in Nat /\ f[p].size \in Nat
        /\ x \in Nat /\ y \in Nat /\ from[x] \in Int /\ from[y] \in Int
    <3>1. x \in 1..ln /\ y \in 1..ln
      BY <1>51
    <3>2. \A i \in 1..ln : i \in Nat
      BY <1>1
    <3>3. \A i \in 1..lo : i \in Int
      BY <1>1
    <3> QED BY <1>0, <2>3, <3>1, <3>2, <3>3
  <2>4. CASE n = p
    BY <2>3, <2>4, <2>7
  <2>5. CASE n < p
    <3>1. f[n].a + f[n].size <= f[p].a
      BY <1>1, <2>5
    <3>5. PICK i \in Int, m \in Int, d \in Int :
             i = f[n].a /\ m = f[n].size /\ d = f[p].a
      BY <2>7
    <3>2. PICK u \in Int, v \in Int : u = from[x] /\ v = from[y]
      BY <2>7
    <3>3. u < i + m /\ i + m <= d /\ d <= v
      BY <2>3, <3>1, <3>2, <3>5
    <3>4. u < v
      BY <3>3
    <3> QED BY <3>2, <3>4
  <2>6. CASE n > p
    <3>1. f[p].b + f[p].size <= f[n].b
      BY <1>1, <2>6
    <3> QED BY <2>1, <2>2, <2>7, <3>1 DEF InBlock
  <2> QED BY <1>1, <2>4, <2>5, <2>6
<1>8. ASSUME NEW i \in 1..lo, \A j \in kept : from[j] # i
      PROVE  \E j \in 0..ln : (\A q \in kept : from[q] < i <=> q <= j) /\ AtBoundary(spans, j)
  <2> DEFINE T == {n \in 1..k : f[n].a <= i}
  <2>1. PICK n \in T : \A x \in T : n >= x
    <3>1. 1 \in T /\ T \in SUBSET Nat /\ \A x \in T : x <= k
      BY <1>1
    <3> HIDE DEF T
    <3> QED BY <1>1, <3>1, Greatest
  <2>2. n \in 1..k /\ f[n].a <= i /\ n # k
    BY <1>1
  <2>3. n \in 1..k - 1 /\ n + 1 \in 1..k
    BY <1>1, <2>2
  <2>31. /\ f[n].a \in Nat /\ f[n].b \in Nat /\ f[n].size \in Nat /\ i \in Nat
         /\ 1 <= f[n].b /\ f[n].b + f[n].size <= ln + 1 /\ ln \in Nat
    BY <1>0, <1>1, <2>2
  <2>4. \A p \in 1..k : n < p => i < f[p].a
    <3> SUFFICES ASSUME NEW p \in 1..k, n < p, ~(i < f[p].a) PROVE FALSE
      OBVIOUS
    <3>1. p \in T
      BY <1>0
    <3> QED BY <1>1, <3>1, <2>1
  <2> HIDE DEF T
  <2>5. i >= f[n].a + f[n].size
    <3> SUFFICES ASSUME i < f[n].a + f[n].size PROVE FALSE
      BY <2>31
    <3>0. PICK i0 \in Nat, j0 \in Nat, m0 \in Nat : i0 = f[n].a /\ j0 = f[n].b /\ m0 = f[n].size
      BY <2>31
    <3>5. i0 <= i /\ i < i0 + m0 /\ 1 <= j0 /\ j0 + m0 <= ln + 1
      BY <2>2, <2>31, <3>0
    <3>6. j0 + (i - i0) \in 1..ln
      BY <2>31, <3>5
    <3>1. PICK j \in 1..ln : j = j0 + (i - i0)
      BY <3>6
    <3>7. j0 <= j /\ j < j0 + m0 /\ i0 + (j - j0) = i
      BY <2>31, <3>5, <3>1
    <3>2. InBlock(f, n, j)
      BY <3>0, <3>7 DEF InBlock
    <3>3. j \in kept /\ from[j] = f[n].a + (j - f[n].b)
      BY <1>5, <1>51, <2>2, <3>2, OldLineIs
    <3>4. from[j] = i
      BY <3>0, <3>3, <3>7
    <3> QED BY <1>8, <3>3, <3>4
  <2>6. PICK j \in 0..ln : j = f[n].b + f[n].size - 1
    <3>1. \A x, y \in Nat : 1 <= x /\ x + y <= ln + 1 => x + y - 1 \in 0..ln
      BY <2>31
    <3> QED BY <2>31, <3>1
  <2>7. AtBoundary(spans, j)
    <3>1. f[n].a + f[n].size < f[n + 1].a
      <4>1. i < f[n + 1].a /\ f[n + 1].a \in Nat
        BY <1>0, <1>1, <2>2, <2>3, <2>4
      <4> QED BY <2>5, <2>31, <4>1
    <3>2. PICK s : s = SpanAt(f, n)
      OBVIOUS
    <3>3. s \in spans
      BY <1>2, <2>3, <3>1, <3>2, SpansAre DEF Changes, spans
    <3>4. s.start = j /\ s.end = f[n + 1].b - 1
      <4>1. (f[n].b + f[n].size) - 1 = j
        BY <2>6, <2>31
      <4> QED BY <3>2, <4>1 DEF SpanAt
    <3>5. j <= f[n + 1].b - 1
      <4>1. f[n].b + f[n].size <= f[n + 1].b /\ f[n + 1].b \in Nat
        BY <1>0, <1>1, <2>2, <2>3
      <4> QED BY <2>6, <2>31, <4>1
    <3> QED BY <3>3, <3>4, <3>5 DEF AtBoundary
  <2>8. ASSUME NEW q \in kept PROVE from[q] < i <=> q <= j
    <3>1. PICK p \in 1..k : InBlock(f, p, q)
      BY <1>4
    <3>2. f[p].a <= from[q] /\ from[q] < f[p].a + f[p].size /\ from[q] \in 1..lo
      BY <1>51, <3>1, OldLineIs
    <3>6. /\ f[p].a \in Nat /\ f[p].b \in Nat /\ f[p].size \in Nat /\ from[q] \in Int /\ q \in Int
      BY <1>0, <1>1, <1>51, <3>2
    <3>7. f[p].b <= q /\ q < f[p].b + f[p].size
      BY <3>1 DEF InBlock
    <3>3. CASE p = n
      BY <2>5, <2>6, <2>31, <3>2, <3>3, <3>6, <3>7
    <3>4. CASE p < n
      <4>1. f[p].a + f[p].size <= f[n].a /\ f[p].b + f[p].size <= f[n].b
        BY <1>1, <2>2, <3>4
      <4>2. from[q] < i
        <5>1. PICK u \in Int, c \in Int, m \in Int, d \in Int :
                 u = from[q] /\ c = f[p].a /\ m = f[p].size /\ d = f[n].a
          BY <2>31, <3>6
        <5>2. u < c + m /\ c + m <= d /\ d <= i
          BY <2>2, <3>2, <4>1, <5>1
        <5>3. u < i
          BY <2>31, <5>2
        <5> QED BY <5>1, <5>3
      <4>3. q <= j
        <5>1. PICK c \in Int, m \in Int, d \in Int, w \in Nat :
                 c = f[p].b /\ m = f[p].size /\ d = f[n].b /\ w = f[n].size
          BY <2>31, <3>6
        <5>2. q < c + m /\ c + m <= d /\ j = d + w - 1
          BY <2>6, <3>7, <4>1, <5>1
        <5> QED BY <3>6, <5>2
      <4> QED BY <4>2, <4>3
    <3>5. CASE p > n
      <4>1. i < f[p].a /\ f[n].b + f[n].size <= f[p].b
        BY <1>1, <2>2, <2>4, <3>5
      <4>2. ~(from[q] < i)
        BY <2>31, <3>2, <3>6, <4>1
      <4>3. ~(q <= j)
        <5>1. PICK c \in Int, d \in Int, w \in Nat :
                 c = f[p].b /\ d = f[n].b /\ w = f[n].size
          BY <2>31, <3>6
        <5>2. d + w <= c /\ c <= q /\ j = d + w - 1
          BY <2>6, <3>7, <4>1, <5>1
        <5> QED BY <3>6, <5>2
      <4> QED BY <4>2, <4>3
    <3> QED BY <1>1, <2>2, <3>3, <3>4, <3>5
  <2> QED BY <2>6, <2>7, <2>8
<1>9. old = new => spans = {}
  BY <1>2, SameText DEF Lengths, spans
<1>10. /\ from \in [kept -> DOMAIN old]
       /\ \A i \in DOMAIN old \ {from[j] : j \in kept} :
             \E j \in 0..Len(new) :
                 (\A q \in kept : from[q] < i <=> q <= j) /\ AtBoundary(spans, j)
  BY <1>2, <1>6, <1>8, <1>51 DEF Fenced
<1> QED BY <1>2, <1>3, <1>6, <1>7, <1>9, <1>10, <1>52 DEF AccountFor, spans

LEMMA SpansAccount ==
    ASSUME NEW S, NEW old \in Seq(S), NEW new \in Seq(S)
    PROVE  AccountFor(ChangedSpans(old, new), old, new)
<1>1. Lengths(old, new)
  BY DEF Lengths
<1>2. PICK f, k, lo, ln : f = Fence(old, new) /\ k = Len(f) /\ lo = Len(old) /\ ln = Len(new)
  OBVIOUS
<1>3. k \in Nat
  BY <1>1, <1>2, FenceOrdered DEF Ordered
<1>4. DOMAIN old = 1..lo /\ DOMAIN new = 1..ln
  BY <1>2
<1>5. Fenced(f, old, new, k, lo, ln)
  BY <1>1, <1>2, <1>3, <1>4, FenceOrdered DEF Fenced, Lengths
<1> QED BY <1>2, <1>5, FenceAccounts

-----------------------------------------------------------------------------
(* The command *)

Early == {"head", "symbolic", "probe", "ref", "list"}
Reading == {"next", "open", "show", "new"}

(* Where the command is, and what it can have by then.                       *)
StageInv ==
    /\ mode \in Mode
    /\ pc \in Early \cup Reading \cup {"done"}
    /\ outcome = "none" <=> pc # "done"
    /\ outcome \in {"none", "ok", "changed", "error"}
    /\ pc \in Early => sources = {}
    /\ pc \in {"head", "symbolic", "probe"} => mode = "changed"
    /\ pc \in {"open", "show"} => mode \in {"diff", "changed", "base", "all"}
    /\ pc = "new" => mode = "reflow"
    /\ outcome = "ok" => todo = {}

Listed == pc \in Reading \/ outcome \in {"ok", "changed"}

(* Only --changed and --base compare with anything but HEAD's tree.          *)
RefInv == mode \in {"staged", "diff", "all"} => ref = "HEAD"

SwapInv == Listed => \A p \in Path : worktree[p] \in {Link, Directory} => p \in swapped

Given == {s.path : s \in sources}
Pending == todo \cup (IF pc \in {"open", "show"} THEN {at} ELSE {})
Excused == IF mode = "staged" THEN {} ELSE swapped

(* Nothing owed is ever lost: it was handed over, is still to be read, or is *)
(* excused.                                                                 *)
CoverInv == Listed /\ mode # "reflow" =>
                /\ Owed \ Excused \subseteq Given \cup Pending
                /\ Given \cup Pending \subseteq Owed

Blob(p) == [path |-> p, text |-> listing.index[p], spans |-> Whole]

(* --staged has handed over the listed blobs of what is not left to do.      *)
StagedInv == Listed /\ mode = "staged" => sources = {Blob(p) : p \in Owed \ todo}

(* A listing of the index that was accepted has no path in conflict.         *)
LoudInv == Listed /\ mode \in {"staged", "diff", "all"} =>
              \A p \in Path : listing.index[p] # Unmerged

(* The listing's before-image for --changed is a tree that HEAD was at.      *)
HeadInv ==
    /\ tip \in heads
    /\ mode = "changed" =>
          /\ ref \in {"HEAD", "empty"}
          /\ ref = "empty" => Unborn \in heads
          /\ Listed => \E h \in heads \ {Broken} : listing.base = TreeOf(h)

IInv == StageInv /\ RefInv /\ SwapInv /\ CoverInv /\ StagedInv /\ LoudInv
            /\ HeadInv

(* What the filters select is what is owed, whatever they are asked in.      *)
LEMMA SelectedIsOwed ==
    ASSUME StageInv, RefInv, mode # "reflow", ~ShownUnmerged,
           mode' = mode, listing' = Snapshot
    PROVE  Selected = Owed'
<1>1. Absent \notin Text /\ Directory \notin Text /\ Judged \subseteq Path
  BY GitAssumption
<1>2. SUFFICES ASSUME NEW p \in Path PROVE p \in Selected <=> p \in Owed'
  BY <1>1 DEF Selected, Owed, Named, Checkable
<1>3. /\ listing'.index[p] = index[p]
      /\ listing'.base = Compared
      /\ listing'.worktree[p] = InWorktree(p)
  BY DEF Snapshot
<1>4. CASE mode = "staged"
  BY <1>1, <1>3, <1>4 DEF Selected, Owed, Named, Checkable, Regular, Differs, After, Before,
     RefInv, Compared
<1>5. CASE mode = "diff"
  BY <1>1, <1>3, <1>5 DEF Selected, Owed, Named, Checkable, Regular, Differs, After, Before,
     InWorktree, ShownUnmerged
<1>6. CASE mode \in {"changed", "base"}
  BY <1>1, <1>3, <1>6 DEF Selected, Owed, Named, Checkable, Regular, Differs, After, Before,
     InWorktree
<1>7. CASE mode = "all"
  BY <1>1, <1>3, <1>7 DEF Selected, Owed, Named, Checkable, Regular, After
<1> QED
  BY <1>4, <1>5, <1>6, <1>7 DEF StageInv, Mode

LEMMA InitHolds == Init => IInv
<1> SUFFICES ASSUME Init PROVE IInv
  OBVIOUS
<1>1. mode \in Mode
  BY GitAssumption DEF Init
<1>2. pc \in {"head", "ref", "list"} /\ outcome = "none" /\ sources = {} /\ ref = "HEAD"
  BY <1>1 DEF Init, Mode
<1>3. (pc = "head" => mode = "changed") /\ heads = {tip}
  BY <1>1 DEF Init, Mode
<1> QED
  BY <1>1, <1>2, <1>3 DEF IInv, StageInv, RefInv, SwapInv, CoverInv, StagedInv, LoudInv, Listed, Early,
     Reading, HeadInv

LEMMA StageStep == StageInv /\ [Next]_vars => StageInv'
<1> SUFFICES ASSUME StageInv, [Next]_vars PROVE StageInv'
  OBVIOUS
<1> USE DEF StageInv, Early, Reading
<1>1. CASE ResolveHead
  BY <1>1 DEF ResolveHead, Alone, NoFault, Go, repo
<1>2. CASE SymbolicRef
  BY <1>2 DEF SymbolicRef, Alone, NoFault, Go, Stop, repo
<1>3. CASE Probe
  BY <1>3 DEF Probe, Alone, NoFault, Go, Stop, repo
<1>4. CASE ResolveRef
  BY <1>4 DEF ResolveRef, Alone, NoFault, Go, Stop, repo
<1>5. CASE List
  BY <1>5 DEF List, Alone, NoFault, Stop, repo
<1>6. ASSUME NEW p \in Path, CatBlob(p) PROVE StageInv'
  BY <1>6 DEF CatBlob, Alone, NoFault, Deliver, repo
<1>7. ASSUME NEW p \in Path, Look(p) PROVE StageInv'
  BY <1>7 DEF Look, Alone, NoFault, repo
<1>8. ASSUME NEW p \in Path, OldSide(p) PROVE StageInv'
  BY <1>8 DEF OldSide, Alone, NoFault, Stop, repo
<1>9. CASE OpenFails
  BY <1>9 DEF OpenFails, Alone, NoFault, Stop, repo
<1>10. CASE Open
  BY <1>10 DEF Open, Alone, NoFault, Deliver, repo
<1>11. CASE Show
  BY <1>11 DEF Show, Alone, NoFault, Deliver, repo
<1>12. CASE NewSide
  BY <1>12 DEF NewSide, Alone, NoFault, Deliver, repo
<1>13. CASE Finish
  BY <1>13 DEF Finish, Alone, NoFault, repo
<1>14. CASE CallFails
  BY <1>14 DEF CallFails, Alone, NoFault, Go, Stop, Deliver, repo
<1>15. ASSUME NEW p \in Path, Edit(p) PROVE StageInv'
  BY <1>15 DEF Edit, Change
<1>16. ASSUME NEW p \in Path, Stage(p) PROVE StageInv'
  BY <1>16 DEF Stage, Change
<1>17. CASE Commit
  BY <1>17 DEF Commit, Change
<1>18. CASE UNCHANGED vars
  BY <1>18 DEF vars, repo
<1> QED
  BY <1>1, <1>2, <1>3, <1>4, <1>5, <1>6, <1>7, <1>8, <1>9, <1>10, <1>11, <1>12, <1>13, <1>14, <1>15, <1>16, <1>17, <1>18 DEF Next, Command

LEMMA RefStep == StageInv /\ RefInv /\ [Next]_vars => RefInv'
<1> SUFFICES ASSUME StageInv, RefInv, [Next]_vars PROVE RefInv'
  OBVIOUS
<1> USE DEF RefInv, StageInv, Early
<1>1. CASE ResolveHead
  BY <1>1 DEF ResolveHead, Alone, NoFault, Go, repo
<1>2. CASE SymbolicRef
  BY <1>2 DEF SymbolicRef, Alone, NoFault, Go, Stop, repo
<1>3. CASE Probe
  BY <1>3 DEF Probe, Alone, NoFault, Go, Stop, repo
<1>4. CASE ResolveRef
  BY <1>4 DEF ResolveRef, Alone, NoFault, Go, Stop, repo
<1>5. CASE List
  BY <1>5 DEF List, Alone, NoFault, Stop, repo
<1>6. ASSUME NEW p \in Path, CatBlob(p) PROVE RefInv'
  BY <1>6 DEF CatBlob, Alone, NoFault, Deliver, repo
<1>7. ASSUME NEW p \in Path, Look(p) PROVE RefInv'
  BY <1>7 DEF Look, Alone, NoFault, repo
<1>8. ASSUME NEW p \in Path, OldSide(p) PROVE RefInv'
  BY <1>8 DEF OldSide, Alone, NoFault, Stop, repo
<1>9. CASE OpenFails
  BY <1>9 DEF OpenFails, Alone, NoFault, Stop, repo
<1>10. CASE Open
  BY <1>10 DEF Open, Alone, NoFault, Deliver, repo
<1>11. CASE Show
  BY <1>11 DEF Show, Alone, NoFault, Deliver, repo
<1>12. CASE NewSide
  BY <1>12 DEF NewSide, Alone, NoFault, Deliver, repo
<1>13. CASE Finish
  BY <1>13 DEF Finish, Alone, NoFault, repo
<1>14. CASE CallFails
  BY <1>14 DEF CallFails, Alone, NoFault, Go, Stop, Deliver, repo
<1>15. ASSUME NEW p \in Path, Edit(p) PROVE RefInv'
  BY <1>15 DEF Edit, Change
<1>16. ASSUME NEW p \in Path, Stage(p) PROVE RefInv'
  BY <1>16 DEF Stage, Change
<1>17. CASE Commit
  BY <1>17 DEF Commit, Change
<1>18. CASE UNCHANGED vars
  BY <1>18 DEF vars, repo
<1> QED
  BY <1>1, <1>2, <1>3, <1>4, <1>5, <1>6, <1>7, <1>8, <1>9, <1>10, <1>11, <1>12, <1>13, <1>14, <1>15, <1>16, <1>17, <1>18 DEF Next, Command

LEMMA SwapStep == StageInv /\ SwapInv /\ [Next]_vars => SwapInv'
<1> SUFFICES ASSUME StageInv, SwapInv, [Next]_vars PROVE SwapInv'
  OBVIOUS
<1> USE DEF SwapInv, StageInv, Listed, Reading, Early
<1>1. CASE ResolveHead
  BY <1>1 DEF ResolveHead, Alone, NoFault, Go, repo
<1>2. CASE SymbolicRef
  BY <1>2 DEF SymbolicRef, Alone, NoFault, Go, Stop, repo
<1>3. CASE Probe
  BY <1>3 DEF Probe, Alone, NoFault, Go, Stop, repo
<1>4. CASE ResolveRef
  BY <1>4 DEF ResolveRef, Alone, NoFault, Go, Stop, repo
<1>5. CASE List
  BY <1>5 DEF List, Alone, NoFault, Stop, repo
<1>6. ASSUME NEW p \in Path, CatBlob(p) PROVE SwapInv'
  BY <1>6 DEF CatBlob, Alone, NoFault, Deliver, repo
<1>7. ASSUME NEW p \in Path, Look(p) PROVE SwapInv'
  BY <1>7 DEF Look, Alone, NoFault, repo
<1>8. ASSUME NEW p \in Path, OldSide(p) PROVE SwapInv'
  BY <1>8 DEF OldSide, Alone, NoFault, Stop, repo
<1>9. CASE OpenFails
  BY <1>9 DEF OpenFails, Alone, NoFault, Stop, repo
<1>10. CASE Open
  BY <1>10 DEF Open, Alone, NoFault, Deliver, repo
<1>11. CASE Show
  BY <1>11 DEF Show, Alone, NoFault, Deliver, repo
<1>12. CASE NewSide
  BY <1>12 DEF NewSide, Alone, NoFault, Deliver, repo
<1>13. CASE Finish
  BY <1>13 DEF Finish, Alone, NoFault, repo
<1>14. CASE CallFails
  BY <1>14 DEF CallFails, Alone, NoFault, Go, Stop, Deliver, repo
<1>15. ASSUME NEW p \in Path, Edit(p) PROVE SwapInv'
  BY <1>15 DEF Edit, Change
<1>16. ASSUME NEW p \in Path, Stage(p) PROVE SwapInv'
  BY <1>16 DEF Stage, Change
<1>17. CASE Commit
  BY <1>17 DEF Commit, Change
<1>18. CASE UNCHANGED vars
  BY <1>18 DEF vars, repo
<1> QED
  BY <1>1, <1>2, <1>3, <1>4, <1>5, <1>6, <1>7, <1>8, <1>9, <1>10, <1>11, <1>12, <1>13, <1>14, <1>15, <1>16, <1>17, <1>18 DEF Next, Command

LEMMA HeadStep == StageInv /\ HeadInv /\ [Next]_vars => HeadInv'
<1> SUFFICES ASSUME StageInv, HeadInv, [Next]_vars PROVE HeadInv'
  OBVIOUS
<1> USE DEF HeadInv, StageInv, Listed, Reading, Early
<1>1. CASE ResolveHead
  BY <1>1 DEF ResolveHead, Alone, NoFault, Go, repo
<1>2. CASE SymbolicRef
  BY <1>2 DEF SymbolicRef, Alone, NoFault, Go, Stop, repo
<1>3. CASE Probe
  BY <1>3 DEF Probe, Alone, NoFault, Go, Stop, repo
<1>4. CASE ResolveRef
  BY <1>4 DEF ResolveRef, Alone, NoFault, Go, Stop, repo
<1>5. CASE List
  <2>1. CASE outcome' = "error"
    BY <1>5, <2>1 DEF List, Alone, Stop, repo
  <2>2. CASE outcome' # "error"
    <3>1. /\ listing'.base = Compared /\ UNCHANGED <<mode, tip, heads, ref, outcome>>
          /\ mode = "changed" /\ ref = "HEAD" => tip \in Tree
      BY <1>5, <2>2 DEF List, Alone, Stop, repo, Snapshot
    <3>2. Unborn \notin Tree /\ Broken \notin Tree /\ Unborn # Broken
      BY GitAssumption
    <3>3. mode = "changed" => \E h \in heads \ {Broken} : Compared = TreeOf(h)
      BY <3>1, <3>2 DEF Compared, HeadTree, TreeOf
    <3> QED BY <1>5, <2>2, <3>1, <3>3
  <2> QED BY <2>1, <2>2
<1>6. ASSUME NEW p \in Path, CatBlob(p) PROVE HeadInv'
  BY <1>6 DEF CatBlob, Alone, NoFault, Deliver, repo
<1>7. ASSUME NEW p \in Path, Look(p) PROVE HeadInv'
  BY <1>7 DEF Look, Alone, NoFault, repo
<1>8. ASSUME NEW p \in Path, OldSide(p) PROVE HeadInv'
  BY <1>8 DEF OldSide, Alone, NoFault, Stop, repo
<1>9. CASE OpenFails
  BY <1>9 DEF OpenFails, Alone, NoFault, Stop, repo
<1>10. CASE Open
  BY <1>10 DEF Open, Alone, NoFault, Deliver, repo
<1>11. CASE Show
  BY <1>11 DEF Show, Alone, NoFault, Deliver, repo
<1>12. CASE NewSide
  BY <1>12 DEF NewSide, Alone, NoFault, Deliver, repo
<1>13. CASE Finish
  BY <1>13 DEF Finish, Alone, NoFault, repo
<1>14. CASE CallFails
  BY <1>14 DEF CallFails, Alone, NoFault, Go, Stop, Deliver, repo
<1>15. ASSUME NEW p \in Path, Edit(p) PROVE HeadInv'
  BY <1>15 DEF Edit, Change
<1>16. ASSUME NEW p \in Path, Stage(p) PROVE HeadInv'
  BY <1>16 DEF Stage, Change
<1>17. CASE Commit
  BY <1>17 DEF Commit, Change
<1>18. CASE UNCHANGED vars
  BY <1>18 DEF vars, repo
<1> QED
  BY <1>1, <1>2, <1>3, <1>4, <1>5, <1>6, <1>7, <1>8, <1>9, <1>10, <1>11, <1>12, <1>13, <1>14, <1>15, <1>16, <1>17, <1>18 DEF Next, Command

(* As long as the listing stands, what is owed stands.                       *)
LEMMA OwedStays == mode' = mode /\ listing' = listing => Owed' = Owed
BY DEF Owed, After, Before

LEMMA DeliverGives ==
    ASSUME NEW s, Deliver(s)
    PROVE  Given' = Given \cup {s.path} /\ pc' = "next" /\ listing' = listing
           /\ outcome' = outcome /\ swapped' = swapped
BY DEF Deliver, Given

LEMMA CoverStep ==
    StageInv /\ RefInv /\ SwapInv /\ CoverInv /\ [Next]_vars => CoverInv'
<1> SUFFICES ASSUME StageInv, RefInv, SwapInv, CoverInv, [Next]_vars,
                    Listed', mode' # "reflow"
             PROVE  /\ Owed' \ Excused' \subseteq Given' \cup Pending'
                    /\ Given' \cup Pending' \subseteq Owed'
  BY DEF CoverInv
<1> DEFINE Goal == /\ Owed' \ Excused' \subseteq Given' \cup Pending'
                   /\ Given' \cup Pending' \subseteq Owed'
<1>1. CASE ResolveHead \/ SymbolicRef \/ Probe \/ ResolveRef
  BY <1>1 DEF ResolveHead, SymbolicRef, Probe, ResolveRef, Go, Stop, Listed, Reading,
     StageInv
<1>2. CASE List
  <2>1. ~ShownUnmerged /\ mode' = mode /\ listing' = Snapshot /\ pc' = "next"
        /\ todo' = Selected /\ sources' = sources
    BY <1>2 DEF List, Stop, Alone, Listed, Reading
  <2>2. Given' = {} /\ Pending' = Selected
    BY <1>2, <2>1 DEF List, StageInv, Early, Given, Pending
  <2> QED
    BY <2>1, <2>2, SelectedIsOwed
<1>3. ASSUME NEW p \in Path, CatBlob(p) PROVE Goal
  <2>1. Deliver(Blob(p)) /\ Blob(p).path = p
    BY <1>3 DEF CatBlob, Blob
  <2>2. mode' = mode /\ mode = "staged" /\ pc = "next" /\ p \in todo /\ todo' = todo \ {p}
    BY <1>3 DEF CatBlob, Alone
  <2>3. Owed' = Owed /\ Given' = Given \cup {p} /\ pc' = "next"
    BY <2>1, <2>2, DeliverGives, OwedStays
  <2> QED
    BY <2>2, <2>3 DEF CoverInv, Listed, Reading, Pending, Excused
<1>4. ASSUME NEW p \in Path, Look(p) PROVE Goal
  <2>1. Owed' = Owed /\ Given' = Given /\ Excused' = Excused
    BY <1>4, OwedStays DEF Look, Alone, Given, Excused
  <2>2. CASE worktree[p] \in {Link, Directory}
    <3>1. p \in Excused
      BY <1>4, <2>2 DEF Look, SwapInv, Listed, Reading, Excused
    <3> QED
      BY <1>4, <2>1, <2>2, <3>1 DEF Look, CoverInv, Listed, Reading, Pending
  <2>3. CASE worktree[p] \notin {Link, Directory}
    BY <1>4, <2>1, <2>3 DEF Look, CoverInv, Listed, Reading, Pending
  <2> QED
    BY <2>2, <2>3
<1>5. ASSUME NEW p \in Path, OldSide(p) PROVE Goal
  BY <1>5 DEF OldSide, Alone
<1>6. CASE OpenFails
  BY <1>6 DEF OpenFails, Stop, Listed, Reading
<1>7. CASE Open
  <2>1. mode' = mode /\ todo' = todo /\ pc = "open" /\ mode # "staged"
    BY <1>7 DEF Open, Alone, StageInv
  <2>2. PICK t \in Text :
           \/ pc' = "show" /\ UNCHANGED <<ref, listing, at, sources, outcome, swapped>>
           \/ Deliver([path |-> at, text |-> t, spans |-> Whole])
    BY <1>7 DEF Open
  <2>3. CASE pc' = "show" /\ UNCHANGED <<ref, listing, at, sources, outcome, swapped>>
    BY <2>1, <2>3, OwedStays DEF CoverInv, Listed, Reading, Pending, Given, Excused
  <2>4. CASE Deliver([path |-> at, text |-> t, spans |-> Whole])
    <3>1. /\ Owed' = Owed /\ Given' = Given \cup {at} /\ pc' = "next"
          /\ swapped' = swapped
      BY <2>1, <2>4, DeliverGives, OwedStays
    <3> QED
      BY <2>1, <3>1 DEF CoverInv, Listed, Reading, Pending, Excused
  <2> QED
    BY <2>2, <2>3, <2>4
<1>8. ASSUME pc = "show", mode' = mode, todo' = todo,
             NEW spans, Deliver([path |-> at, text |-> half, spans |-> spans])
      PROVE  Goal
  <2>1. /\ Owed' = Owed /\ Given' = Given \cup {at} /\ pc' = "next"
        /\ swapped' = swapped
    BY <1>8, DeliverGives, OwedStays
  <2> QED
    BY <1>8, <2>1 DEF CoverInv, Listed, Reading, Pending, Excused
<1>9. CASE Show
  BY <1>8, <1>9 DEF Show, Alone
<1>10. CASE NewSide
  BY <1>10 DEF NewSide, StageInv, Alone
<1>11. CASE Finish
  BY <1>11, OwedStays DEF Finish, Alone, CoverInv, Listed, Reading, Pending, Given, Excused
<1>12. CASE CallFails
  BY <1>8, <1>12 DEF CallFails, Alone, Go, Stop, Listed, Reading, StageInv
<1>13. ASSUME NEW p \in Path, Edit(p) PROVE Goal
  BY <1>13, OwedStays DEF Edit, Change, CoverInv, Listed, Reading, Pending, Given, Excused
<1>14. ASSUME NEW p \in Path, Stage(p) PROVE Goal
  BY <1>14, OwedStays DEF Stage, Change, CoverInv, Listed, Reading, Pending, Given, Excused
<1>15. CASE Commit
  BY <1>15, OwedStays DEF Commit, Change, CoverInv, Listed, Reading, Pending, Given, Excused
<1>16. CASE UNCHANGED vars
  BY <1>16, OwedStays DEF vars, CoverInv, Listed, Reading, Pending, Given, Excused
<1> QED
  BY <1>1, <1>2, <1>3, <1>4, <1>5, <1>6, <1>7, <1>9, <1>10, <1>11, <1>12, <1>13, <1>14,
     <1>15, <1>16 DEF Next, Command

(* A pass over the listing adds the listed blob of the path it takes off.     *)
LEMMA StagedStep ==
    StageInv /\ RefInv /\ CoverInv /\ StagedInv /\ [Next]_vars => StagedInv'
<1> SUFFICES ASSUME StageInv, RefInv, CoverInv, StagedInv, [Next]_vars,
                    Listed', mode' = "staged"
             PROVE  sources' = {Blob(p)' : p \in Owed' \ todo'}
  BY DEF StagedInv
<1> DEFINE Goal == sources' = {Blob(p)' : p \in Owed' \ todo'}
<1>1. CASE ResolveHead \/ SymbolicRef \/ Probe \/ ResolveRef
  BY <1>1 DEF ResolveHead, SymbolicRef, Probe, ResolveRef, Go, Stop, Listed, Reading,
     StageInv
<1>2. CASE List
  <2>1. ~ShownUnmerged /\ mode' = mode /\ listing' = Snapshot /\ todo' = Selected
        /\ sources' = {}
    BY <1>2 DEF List, Stop, Alone, Listed, Reading, StageInv, Early
  <2>2. Selected = Owed'
    BY <2>1, SelectedIsOwed
  <2> QED
    BY <2>1, <2>2
<1>3. ASSUME NEW p \in Path, CatBlob(p) PROVE Goal
  <2>1. sources' = sources \cup {Blob(p)} /\ listing' = listing
    BY <1>3 DEF CatBlob, Deliver, Blob
  <2>2. mode' = mode /\ pc = "next" /\ p \in todo /\ todo' = todo \ {p}
    BY <1>3 DEF CatBlob, Alone
  <2>3. Owed' = Owed /\ p \in Owed
    BY <2>1, <2>2, OwedStays DEF CoverInv, Listed, Reading, Pending
  <2>4. sources = {Blob(q) : q \in Owed \ todo}
    BY <2>2 DEF StagedInv, Listed, Reading
  <2>5. \A q : Blob(q)' = Blob(q)
    BY <2>1 DEF Blob
  <2> QED
    BY <2>1, <2>2, <2>3, <2>4, <2>5
<1>4. ASSUME UNCHANGED <<mode, listing, todo, sources>>, Listed PROVE Goal
  <2>1. Owed' = Owed /\ \A q : Blob(q)' = Blob(q)
    BY <1>4, OwedStays DEF Blob
  <2> QED
    BY <1>4, <2>1 DEF StagedInv
<1>5. ASSUME NEW p \in Path, Look(p) \/ OldSide(p) PROVE Goal
  BY <1>5 DEF Look, OldSide, Alone
<1>6. CASE OpenFails
  BY <1>6 DEF OpenFails, Stop, Listed, Reading
<1>7. CASE Open \/ Show \/ NewSide
  BY <1>7 DEF Open, Show, NewSide, Alone, StageInv
<1>8. CASE Finish
  BY <1>4, <1>8 DEF Finish, Alone, Listed, Reading
<1>9. CASE CallFails
  BY <1>9 DEF CallFails, Alone, Go, Stop, Listed, Reading, StageInv
<1>10. ASSUME NEW p \in Path, Edit(p) \/ Stage(p) PROVE Goal
  BY <1>4, <1>10 DEF Edit, Stage, Change, Listed
<1>11. CASE Commit
  BY <1>4, <1>11 DEF Commit, Change, Listed
<1>12. CASE UNCHANGED vars
  BY <1>4, <1>12 DEF vars, Listed
<1> QED
  BY <1>1, <1>2, <1>3, <1>5, <1>6, <1>7, <1>8, <1>9, <1>10, <1>11, <1>12 DEF Next, Command

(* A comparison with the index names every path in conflict, and stops.       *)
LEMMA LoudStep == StageInv /\ LoudInv /\ [Next]_vars => LoudInv'
<1> SUFFICES ASSUME StageInv, LoudInv, [Next]_vars,
                    Listed', mode' \in {"staged", "diff", "all"}, NEW p \in Path
             PROVE  listing'.index[p] # Unmerged
  BY DEF LoudInv
<1> DEFINE Goal == listing'.index[p] # Unmerged
<1>1. CASE ResolveHead \/ SymbolicRef \/ Probe \/ ResolveRef
  BY <1>1 DEF ResolveHead, SymbolicRef, Probe, ResolveRef, Go, Stop, Listed, Reading,
     StageInv
<1>2. CASE List
  <2>1. ~ShownUnmerged /\ mode' = mode /\ listing'.index = index
    BY <1>2 DEF List, Stop, Alone, Listed, Reading, Snapshot
  <2>2. Unmerged # Absent /\ HeadTree[p] # Unmerged
    BY GitAssumption DEF HeadTree, TreeOf, Tree, TreeValue, EmptyTree
  <2>3. index[p] = Unmerged => p \in Named
    BY <2>1, <2>2 DEF Named, Differs
  <2> QED
    BY <2>1, <2>3 DEF ShownUnmerged
<1>3. ASSUME UNCHANGED <<mode, listing>>, Listed PROVE Goal
  BY <1>3 DEF LoudInv
<1>4. ASSUME NEW q \in Path, CatBlob(q) \/ Look(q) \/ OldSide(q) PROVE Goal
  BY <1>3, <1>4 DEF CatBlob, Look, OldSide, Deliver, Stop, Alone, Listed, Reading
<1>5. CASE OpenFails
  BY <1>5 DEF OpenFails, Stop, Listed, Reading
<1>6. CASE Open \/ Show \/ NewSide
  BY <1>3, <1>6 DEF Open, Show, NewSide, Deliver, Alone, Listed, Reading
<1>7. CASE Finish
  BY <1>3, <1>7 DEF Finish, Alone, Listed, Reading
<1>8. CASE CallFails
  BY <1>3, <1>8 DEF CallFails, Deliver, Alone, Go, Stop, Listed, Reading, StageInv
<1>9. ASSUME NEW q \in Path, Edit(q) \/ Stage(q) PROVE Goal
  BY <1>3, <1>9 DEF Edit, Stage, Change, Listed
<1>10. CASE Commit
  BY <1>3, <1>10 DEF Commit, Change, Listed
<1>11. CASE UNCHANGED vars
  BY <1>3, <1>11 DEF vars, Listed
<1> QED
  BY <1>1, <1>2, <1>4, <1>5, <1>6, <1>7, <1>8, <1>9, <1>10, <1>11 DEF Next, Command

LEMMA StepHolds == IInv /\ [Next]_vars => IInv'
BY StageStep, RefStep, SwapStep, HeadStep, CoverStep, StagedStep, LoudStep DEF IInv

LEMMA Inductive == Spec => []IInv
BY InitHolds, StepHolds, PTL DEF Spec

(* --changed compares with one commit that HEAD was at while it ran, or with *)
(* nothing if it was at none, however the probes of HEAD fail and whatever  *)
(* is committed between them (_head_or_empty_tree): what it shows is        *)
(* different there.                                                         *)
THEOREM OnlyChangedHolds == Spec => []OnlyTheChangedAreShown
<1>1. IInv => OnlyTheChangedAreShown
  <2> SUFFICES ASSUME IInv, outcome = "ok", mode = "changed"
               PROVE  \E h \in heads \ {Broken} :
                         \A s \in sources : listing.worktree[s.path] # TreeOf(h)[s.path]
    BY DEF OnlyTheChangedAreShown
  <2>1. Listed
    BY DEF Listed
  <2>2. PICK h \in heads \ {Broken} : listing.base = TreeOf(h)
    BY <2>1 DEF IInv, HeadInv
  <2>3. ASSUME NEW s \in sources PROVE listing.worktree[s.path] # listing.base[s.path]
    <3>1. s.path \in Owed
      BY <2>1 DEF IInv, CoverInv, Given
    <3> QED BY <3>1 DEF Owed, After, Before
  <2> QED BY <2>2, <2>3
<1> QED
  BY <1>1, Inductive, PTL

(* A mode that ends well has handed over all it owes by its listing, but for *)
(* what stopped being a regular file, and nothing else: _worktree_sources    *)
(* and staged_sources fail loudly on what they cannot read.                  *)
THEOREM ListHolds == Spec => []NeverAShorterList
<1>1. IInv => NeverAShorterList
  <2> SUFFICES ASSUME IInv, outcome = "ok", mode # "reflow"
               PROVE  Owed \ Excused \subseteq Given /\ Given \subseteq Owed
    BY DEF NeverAShorterList, Excused, Given
  <2>1. Listed /\ Pending = {}
    BY DEF IInv, StageInv, Listed, Pending
  <2> QED
    BY <2>1 DEF IInv, CoverInv
<1> QED
  BY <1>1, Inductive, PTL

(* --staged checks the blobs of one index, whatever is staged, committed and *)
(* edited while staged_sources reads them.                                   *)
THEOREM OneIndexHolds == Spec => []OneIndex
<1>1. IInv => OneIndex
  <2> SUFFICES ASSUME IInv, outcome = "ok", mode = "staged"
               PROVE  sources = {Blob(p) : p \in Owed}
    BY DEF OneIndex, Blob
  <2>1. Listed /\ todo = {}
    BY DEF IInv, StageInv, Listed
  <2> QED
    BY <2>1 DEF IInv, StagedInv
<1> QED
  BY <1>1, Inductive, PTL

(* A comparison with the index, or a listing of it, that meets a path in      *)
(* conflict never ends well (_parse_raw, all_sources).                       *)
THEOREM UnmergedHolds == Spec => []UnmergedIsLoud
<1>1. IInv => UnmergedIsLoud
  BY DEF IInv, LoudInv, Listed, UnmergedIsLoud
<1> QED
  BY <1>1, Inductive, PTL

-----------------------------------------------------------------------------
(* reflow *)

OldOf(p) == IF HeadTree[p] = Absent THEN Nothing ELSE Printed(HeadTree[p])

(* The pair of p is as the repository has it, or lacks a side.               *)
PairRight(s, p) ==
    /\ s.path = p
    /\ \/ Nothing \in {s.old, s.new}
       \/ /\ HeadTree[p] # Absent /\ InWorktree(p) \in Text
          /\ s.old = Printed(HeadTree[p]) /\ s.new = InWorktree(p)

(* While the repository holds still, a path that differs is still to be      *)
(* read, is being read, or its pair is among the sources.                   *)
ReflowInv ==
    mode = "reflow" =>
        /\ ref = "HEAD"
        /\ pc = "new" => at \in Path
        /\ quiet /\ Listed =>
              /\ \A p \in Path : listing.base[p] = HeadTree[p] /\ listing.worktree[p] = InWorktree(p)
              /\ pc = "new" => half = OldOf(at)
              /\ \A p \in Path : HeadTree[p] # InWorktree(p) =>
                    \/ p \in todo
                    \/ pc = "new" /\ at = p
                    \/ \E s \in sources : PairRight(s, p)

(* Status 0 was given for pairs that are whole and of the same words.        *)
PureInv ==
    mode = "reflow" /\ outcome = "ok" =>
        \A s \in sources : Nothing \notin {s.old, s.new} /\ SameProse(s.path, s.old, s.new)

LEMMA RepoStays ==
    ASSUME UNCHANGED repo
    PROVE  /\ HeadTree' = HeadTree
           /\ \A p : InWorktree(p)' = InWorktree(p) /\ OldOf(p)' = OldOf(p)
           /\ \A s, p : PairRight(s, p)' <=> PairRight(s, p)
BY DEF repo, HeadTree, TreeOf, InWorktree, OldOf, Printed, PairRight

LEMMA ReflowStep == StageInv /\ ReflowInv /\ [Next]_vars => ReflowInv'
<1> SUFFICES ASSUME StageInv, ReflowInv, [Next]_vars, mode' = "reflow" PROVE ReflowInv'
  BY DEF ReflowInv
<1>0. mode = "reflow" /\ ref = "HEAD"
  BY DEF ReflowInv, Next, Command, ResolveHead, SymbolicRef, Probe, ResolveRef, List, CatBlob, Look,
     OldSide, OpenFails, Open, Show, NewSide, Finish, CallFails, Commit, Edit, Stage, Change, Alone, vars
<1>1. CASE ResolveRef
  BY <1>0, <1>1 DEF ReflowInv, ResolveRef, Go, Stop, Listed, Reading, StageInv
<1>2. CASE List
  <2>1. CASE outcome' = "error"
    BY <1>0, <1>2, <2>1 DEF ReflowInv, List, Stop, Listed, Reading, StageInv
  <2>2. CASE outcome' # "error"
    <3>1. /\ ref' = ref /\ listing' = Snapshot /\ todo' = Named /\ pc' = "next" /\ UNCHANGED repo
      BY <1>0, <1>2, <2>2 DEF List, Stop, Selected, Alone
    <3>2. /\ HeadTree' = HeadTree /\ \A p : InWorktree(p)' = InWorktree(p)
      BY <3>1, RepoStays
    <3>3. \A p \in Path : listing'.base[p] = HeadTree[p] /\ listing'.worktree[p] = InWorktree(p)
      BY <1>0, <3>1 DEF Snapshot, Compared
    <3>4. \A p \in Path : HeadTree[p] # InWorktree(p) => p \in todo'
      BY <1>0, <3>1 DEF Named, Compared
    <3> QED BY <1>0, <3>1, <3>2, <3>3, <3>4 DEF ReflowInv
  <2> QED BY <2>1, <2>2
<1>3. ASSUME NEW p \in Path, OldSide(p) PROVE ReflowInv'
  <2>1. CASE outcome' = "error"
    BY <1>0, <1>3, <2>1 DEF ReflowInv, OldSide, Stop, Listed, Reading, StageInv
  <2>2. CASE outcome' # "error"
    <3>1. /\ pc = "next" /\ pc' = "new" /\ todo' = todo \ {p} /\ at' = p
          /\ half' = IF listing.base[p] = Absent THEN Nothing ELSE Printed(HeadTree[p])
          /\ UNCHANGED <<ref, listing, sources, outcome, quiet, repo>>
      BY <1>3, <2>2 DEF OldSide, Stop, Alone
    <3>2. /\ HeadTree' = HeadTree
          /\ \A q : InWorktree(q)' = InWorktree(q) /\ OldOf(q)' = OldOf(q)
          /\ \A s, q : PairRight(s, q)' <=> PairRight(s, q)
      BY <3>1, RepoStays
    <3> SUFFICES ASSUME quiet
                 PROVE  /\ \A q \in Path : listing.base[q] = HeadTree[q] /\ listing.worktree[q] = InWorktree(q)
                        /\ half' = OldOf(p)
                        /\ \A q \in Path : HeadTree[q] # InWorktree(q) =>
                              q \in todo' \/ p = q \/ \E s \in sources : PairRight(s, q)
      BY <1>0, <3>1, <3>2 DEF ReflowInv
    <3>3. /\ \A q \in Path : listing.base[q] = HeadTree[q] /\ listing.worktree[q] = InWorktree(q)
          /\ \A q \in Path : HeadTree[q] # InWorktree(q) =>
                q \in todo \/ \E s \in sources : PairRight(s, q)
      BY <1>0, <3>1 DEF ReflowInv, Listed, Reading
    <3> QED BY <3>1, <3>3 DEF OldOf
  <2> QED BY <2>1, <2>2
<1>4. ASSUME NEW new, pc = "new", Deliver([path |-> at, old |-> half, new |-> new]),
             UNCHANGED <<todo, repo, quiet>>,
             \/ new = Nothing
             \/ listing.worktree[at] # Absent /\ worktree[at] \in Text /\ new = worktree[at]
      PROVE  ReflowInv'
  <2> DEFINE src == [path |-> at, old |-> half, new |-> new]
  <2>0. at \in Path
    BY <1>0, <1>4 DEF ReflowInv
  <2>1. /\ sources' = sources \cup {src} /\ pc' = "next"
        /\ UNCHANGED <<ref, listing, outcome, todo>>
    BY <1>4 DEF Deliver
  <2>2. /\ HeadTree' = HeadTree
        /\ \A q : InWorktree(q)' = InWorktree(q)
        /\ \A s, q : PairRight(s, q)' <=> PairRight(s, q)
    BY <1>4, RepoStays
  <2> SUFFICES ASSUME quiet
               PROVE  /\ \A q \in Path : listing.base[q] = HeadTree[q] /\ listing.worktree[q] = InWorktree(q)
                      /\ \A q \in Path : HeadTree[q] # InWorktree(q) =>
                            q \in todo \/ \E s \in sources' : PairRight(s, q)
    BY <1>0, <1>4, <2>1, <2>2 DEF ReflowInv
  <2>3. /\ \A q \in Path : listing.base[q] = HeadTree[q] /\ listing.worktree[q] = InWorktree(q)
        /\ half = OldOf(at)
        /\ \A q \in Path : HeadTree[q] # InWorktree(q) =>
              q \in todo \/ at = q \/ \E s \in sources : PairRight(s, q)
    BY <1>0, <1>4 DEF ReflowInv, Listed, Reading
  <2>4. PairRight(src, at)
    <3>1. src.path = at /\ src.old = half /\ src.new = new
      OBVIOUS
    <3> HIDE DEF src
    <3>2. CASE new = Nothing
      BY <3>1, <3>2 DEF PairRight
    <3>3. CASE HeadTree[at] = Absent
      BY <3>1, <3>3, <2>3 DEF PairRight, OldOf
    <3>4. CASE new # Nothing /\ HeadTree[at] # Absent
      <4>1. InWorktree(at) = worktree[at] /\ worktree[at] \in Text /\ new = worktree[at]
        BY <1>4, <2>0, <2>3, <3>4 DEF InWorktree
      <4> QED BY <3>1, <3>4, <4>1, <2>3 DEF PairRight, OldOf
    <3> QED BY <3>2, <3>3, <3>4
  <2> HIDE DEF src
  <2> QED BY <2>0, <2>1, <2>3, <2>4
<1>5. CASE NewSide
  <2>1. pc = "new" /\ UNCHANGED <<todo, repo, quiet>>
    BY <1>5 DEF NewSide, Alone
  <2> QED BY <1>4, <1>5, <2>1 DEF NewSide, StageInv
<1>6. CASE Finish
  <2>1. UNCHANGED <<ref, listing, todo, at, half, sources, repo, quiet>> /\ pc = "next" /\ pc' = "done"
    BY <1>6 DEF Finish, Alone
  <2>2. /\ HeadTree' = HeadTree
        /\ \A q : InWorktree(q)' = InWorktree(q)
        /\ \A s, q : PairRight(s, q)' <=> PairRight(s, q)
    BY <2>1, RepoStays
  <2> QED BY <1>0, <2>1, <2>2 DEF ReflowInv, Listed, Reading
<1>7. CASE CallFails
  <2>1. CASE pc = "new" /\ UNCHANGED todo /\ Deliver([path |-> at, old |-> half, new |-> Nothing])
    <3>1. UNCHANGED <<todo, repo, quiet>>
      BY <1>7, <2>1 DEF CallFails, Alone
    <3> QED BY <1>4, <2>1, <3>1
  <2>2. CASE outcome' = "error" /\ pc' = "done" /\ ref' = ref
    BY <1>0, <2>2 DEF ReflowInv, Listed, Reading
  <2> QED BY <1>0, <1>7, <2>1, <2>2 DEF CallFails, StageInv, Stop, Go
<1>8. ASSUME NEW p \in Path, Edit(p) \/ Stage(p) PROVE ReflowInv'
  BY <1>0, <1>8 DEF Edit, Stage, Change, ReflowInv
<1>9. CASE Commit
  BY <1>0, <1>9 DEF Commit, Change, ReflowInv
<1>10. CASE UNCHANGED vars
  <2>1. /\ HeadTree' = HeadTree
        /\ \A q : InWorktree(q)' = InWorktree(q) /\ OldOf(q)' = OldOf(q)
        /\ \A s, q : PairRight(s, q)' <=> PairRight(s, q)
    BY <1>10, RepoStays DEF vars
  <2> QED BY <1>0, <1>10, <2>1 DEF vars, ReflowInv, Listed, Reading
<1>11. ASSUME NEW p \in Path, CatBlob(p) \/ Look(p) PROVE FALSE
  BY <1>0, <1>11 DEF CatBlob, Look
<1>12. ASSUME ResolveHead \/ SymbolicRef \/ Probe \/ OpenFails \/ Open \/ Show PROVE FALSE
  BY <1>0, <1>12 DEF ResolveHead, SymbolicRef, Probe, OpenFails, Open, Show, StageInv
<1> QED BY <1>1, <1>2, <1>3, <1>5, <1>6, <1>7, <1>8, <1>9, <1>10, <1>11, <1>12 DEF Next, Command

LEMMA PureStep == StageInv /\ PureInv /\ [Next]_vars => PureInv'
<1> SUFFICES ASSUME StageInv, PureInv, [Next]_vars, mode' = "reflow", outcome' = "ok" PROVE PureInv'
  BY DEF PureInv
<1>1. CASE Finish
  BY <1>1 DEF Finish, Alone, PureInv
<1>2. CASE UNCHANGED <<mode, outcome, sources>>
  BY <1>2 DEF PureInv
<1>3. Finish \/ UNCHANGED <<mode, outcome, sources>>
  BY DEF StageInv, Next, Command, ResolveHead, SymbolicRef, Probe, ResolveRef, List, CatBlob, Look,
     OldSide, OpenFails, Open, Show, NewSide, CallFails, Commit, Edit, Stage, Change, Alone, Go, Stop,
     Deliver, Early, Reading, vars
<1> QED BY <1>1, <1>2, <1>3

(* Exit status 0 of reflow, in a repository that held still, means that no    *)
(* file was added, deleted, retyped or reworded, but for a link that became  *)
(* a file with the words of its target: reflow_pairs reads both sides of     *)
(* every path that differs, and a side that cannot be read counts.           *)
THEOREM ReflowHolds == Spec => []PureReflowIsTrue
<1>1. Init => ReflowInv /\ PureInv
  BY DEF Init, ReflowInv, PureInv, Listed, Reading
<1>2. IInv /\ ReflowInv /\ PureInv => PureReflowIsTrue
  <2> SUFFICES ASSUME IInv, ReflowInv, PureInv, outcome = "ok", mode = "reflow", quiet,
                      NEW p \in Path, InWorktree(p) # HeadTree[p]
               PROVE  \/ /\ {HeadTree[p], InWorktree(p)} \subseteq Text
                         /\ SameProse(p, HeadTree[p], InWorktree(p))
                      \/ SpelledOut(p)
    BY DEF PureReflowIsTrue
  <2>1. todo = {} /\ pc = "done" /\ Listed
    BY DEF IInv, StageInv, Listed
  <2>2. PICK s \in sources : PairRight(s, p)
    BY <2>1 DEF ReflowInv
  <2>3. Nothing \notin {s.old, s.new} /\ SameProse(s.path, s.old, s.new)
    BY DEF PureInv
  <2>4. /\ InWorktree(p) \in Text /\ HeadTree[p] # Absent
        /\ SameProse(p, Printed(HeadTree[p]), InWorktree(p))
    BY <2>2, <2>3 DEF PairRight
  <2>5. HeadTree[p] \in Text \cup {Link, Absent}
    BY DEF HeadTree, TreeOf, EmptyTree, Tree, TreeValue
  <2>6. CASE HeadTree[p] = Link
    BY <2>4, <2>6 DEF SpelledOut, Printed
  <2>7. CASE HeadTree[p] # Link
    BY <2>4, <2>5, <2>7 DEF Printed
  <2> QED BY <2>6, <2>7
<1>3. IInv /\ ReflowInv /\ PureInv /\ [Next]_vars => ReflowInv' /\ PureInv'
  BY ReflowStep, PureStep DEF IInv
<1> QED BY <1>1, <1>2, <1>3, Inductive, PTL DEF Spec

-----------------------------------------------------------------------------
(* --base *)

(* The merge base stays where it was, and what is read of it is a text.      *)
BaseInv ==
    /\ upstream \in Tree \cup {NoBase}
    /\ mode = "base" /\ (Listed \/ pc = "list") => upstream \in Tree
    /\ todo \subseteq Path
    /\ pc \in {"open", "show"} => at \in Path
    /\ pc = "show" => half \in Text
    /\ faults \in Nat

LEMMA TextsAreSequences ==
    /\ <<>> \in Seq(DOMAIN Words) /\ LinkText \in Text
    /\ \A t \in Text : t \in Seq(DOMAIN Words)
BY GitAssumption

LEMMA BaseStep == StageInv /\ BaseInv /\ [Next]_vars => BaseInv'
<1> SUFFICES ASSUME StageInv, BaseInv, [Next]_vars PROVE BaseInv'
  OBVIOUS
<1> USE DEF BaseInv, StageInv, Listed, Reading, Early
<1>1. CASE ResolveHead
  BY <1>1 DEF ResolveHead, Alone, NoFault, Go, repo
<1>2. CASE SymbolicRef
  BY <1>2 DEF SymbolicRef, Alone, NoFault, Go, Stop, repo
<1>3. CASE Probe
  BY <1>3 DEF Probe, Alone, NoFault, Go, Stop, repo
<1>4. CASE ResolveRef
  BY <1>4 DEF ResolveRef, Alone, NoFault, Go, Stop, repo
<1>5. CASE List
  <2>1. Selected \subseteq Path
    BY GitAssumption DEF Selected, Named, Checkable
  <2> QED BY <1>5, <2>1 DEF List, Alone, NoFault, Stop, repo
<1>6. ASSUME NEW p \in Path, CatBlob(p) PROVE BaseInv'
  BY <1>6 DEF CatBlob, Alone, NoFault, Deliver, repo
<1>7. ASSUME NEW p \in Path, Look(p) PROVE BaseInv'
  BY <1>7 DEF Look, Alone, NoFault, repo
<1>8. ASSUME NEW p \in Path, OldSide(p) PROVE BaseInv'
  BY <1>8 DEF OldSide, Alone, NoFault, Stop, repo
<1>9. CASE OpenFails
  BY <1>9 DEF OpenFails, Alone, NoFault, Stop, repo
<1>10. CASE Open
  BY <1>10 DEF Open, Alone, NoFault, Deliver, repo
<1>11. CASE Show
  BY <1>11 DEF Show, Alone, NoFault, Deliver, repo
<1>12. CASE NewSide
  BY <1>12 DEF NewSide, Alone, NoFault, Deliver, repo
<1>13. CASE Finish
  BY <1>13 DEF Finish, Alone, NoFault, repo
<1>14. CASE CallFails
  BY <1>14 DEF CallFails, Alone, NoFault, Go, Stop, Deliver, repo
<1>15. ASSUME NEW p \in Path, Edit(p) PROVE BaseInv'
  BY <1>15 DEF Edit, Change
<1>16. ASSUME NEW p \in Path, Stage(p) PROVE BaseInv'
  BY <1>16 DEF Stage, Change
<1>17. CASE Commit
  BY <1>17 DEF Commit, Change
<1>18. CASE UNCHANGED vars
  BY <1>18 DEF vars, repo
<1> QED
  BY <1>1, <1>2, <1>3, <1>4, <1>5, <1>6, <1>7, <1>8, <1>9, <1>10, <1>11, <1>12, <1>13, <1>14, <1>15, <1>16, <1>17, <1>18 DEF Next, Command

(* A source of --base is right: its spans account for it.                    *)
BaseText(p) == IF upstream[p] = Absent THEN <<>> ELSE Printed(upstream[p])
SourceRight(s) == \/ AccountFor(s.spans, BaseText(s.path), s.text)
                  \/ faults > 0 /\ AccountFor(s.spans, <<>>, s.text)

LEMMA OnlyIs == OnlyTheChangeIsReported <=> (mode = "base" => \A s \in sources : SourceRight(s))
BY Zenon DEF OnlyTheChangeIsReported, SourceRight, BaseText

LEMMA OnlyStep ==
    StageInv /\ BaseInv /\ OnlyTheChangeIsReported /\ [Next]_vars => OnlyTheChangeIsReported'
<1> SUFFICES ASSUME StageInv, BaseInv, OnlyTheChangeIsReported, [Next]_vars, mode' = "base"
             PROVE  \A s \in sources' : SourceRight(s)'
  BY OnlyIs DEF OnlyTheChangeIsReported, SourceRight, BaseText
<1>1. mode' = mode /\ upstream' = upstream /\ faults \in Nat /\ faults' \in {faults, faults + 1}
  BY DEF BaseInv, Next, Command, ResolveHead, SymbolicRef, Probe, ResolveRef, List, CatBlob, Look,
     OldSide, OpenFails, Open, Show, NewSide, Finish, CallFails, Commit, Edit, Stage, Change, Alone,
     NoFault, vars, repo
<1>2. mode = "base" /\ \A s \in sources : SourceRight(s)
  BY <1>1, OnlyIs
<1>3. ASSUME NEW s, SourceRight(s) PROVE SourceRight(s)'
  <2>1. BaseText(s.path)' = BaseText(s.path)
    BY <1>1 DEF BaseText
  <2>2. faults > 0 => faults' > 0
    BY <1>1
  <2> QED BY <1>3, <2>1, <2>2 DEF SourceRight
<1>4. ASSUME NEW s, sources' = sources \cup {s}, SourceRight(s)'
      PROVE  \A r \in sources' : SourceRight(r)'
  BY <1>2, <1>3, <1>4
<1>5. CASE Show
  <2>0. PICK s : s = [path |-> at, text |-> half, spans |-> ChangedSpans(BaseText(at), half)]
    OBVIOUS
  <2>1. sources' = sources \cup {s}
    BY <1>5, <2>0 DEF Show, Deliver, BaseText
  <2>2. at \in Path /\ half \in Text /\ upstream \in Tree
    BY <1>2, <1>5 DEF Show, BaseInv, Listed, Reading
  <2>3. BaseText(at) \in Seq(DOMAIN Words) /\ half \in Seq(DOMAIN Words)
    <3>1. upstream[at] \in Text \cup {Link, Absent}
      BY <2>2 DEF Tree, TreeValue
    <3> QED BY <2>2, <3>1, TextsAreSequences DEF BaseText, Printed
  <2>4. AccountFor(s.spans, BaseText(s.path), s.text)
    <3>1. PICK b : b = BaseText(at)
      OBVIOUS
    <3>2. AccountFor(ChangedSpans(b, half), b, half)
      BY <2>3, <3>1, SpansAccount
    <3> QED BY <2>0, <3>1, <3>2
  <2>5. SourceRight(s)
    BY <2>4 DEF SourceRight
  <2> QED BY <1>3, <1>4, <2>1, <2>5
<1>6. CASE pc = "show" /\ Deliver([path |-> at, text |-> half, spans |-> ChangedSpans(<<>>, half)])
             /\ faults' = faults + 1
  <2>0. PICK s : s = [path |-> at, text |-> half, spans |-> ChangedSpans(<<>>, half)]
    OBVIOUS
  <2>1. sources' = sources \cup {s}
    BY <1>6, <2>0 DEF Deliver
  <2>2. half \in Seq(DOMAIN Words) /\ <<>> \in Seq(DOMAIN Words)
    BY <1>6, TextsAreSequences DEF BaseInv
  <2>3. AccountFor(s.spans, <<>>, s.text)
    <3>1. PICK b : b = <<>>
      OBVIOUS
    <3>2. AccountFor(ChangedSpans(b, half), b, half)
      BY <2>2, <3>1, SpansAccount
    <3> QED BY <2>0, <3>1, <3>2
  <2>4. faults' > 0
    BY <1>1, <1>6
  <2>5. SourceRight(s)'
    BY <2>3, <2>4 DEF SourceRight
  <2> QED BY <1>4, <2>1, <2>5
<1>7. CASE sources' = sources
  BY <1>2, <1>3, <1>7
<1>8. \/ Show
      \/ pc = "show" /\ Deliver([path |-> at, text |-> half, spans |-> ChangedSpans(<<>>, half)])
            /\ faults' = faults + 1
      \/ sources' = sources
  <2>1. CASE CallFails
    BY <1>2, <2>1 DEF CallFails, Go, Stop, StageInv
  <2>2. CASE Open
    BY <1>2, <2>2 DEF Open
  <2> QED
    BY <1>2, <2>1, <2>2 DEF Next, Command, ResolveHead, SymbolicRef, Probe, ResolveRef, List, CatBlob,
       Look, OldSide, OpenFails, NewSide, Finish, Commit, Edit, Stage, Change, Go, Stop, StageInv, vars
<1> QED BY <1>5, <1>6, <1>7, <1>8

(* What --base reports is what the branch changed, line by line: the spans    *)
(* of every source account for the difference between the merge base and    *)
(* the very text that is checked, whatever is written between listing and   *)
(* reading.                                                                 *)
THEOREM OnlyTheChangeHolds == Spec => []OnlyTheChangeIsReported
<1>1. Init => BaseInv /\ OnlyTheChangeIsReported
  <2> SUFFICES ASSUME Init PROVE BaseInv /\ OnlyTheChangeIsReported
    OBVIOUS
  <2>1. /\ mode = "base" => pc = "ref"
        /\ pc \in {"head", "ref", "list"} /\ outcome = "none" /\ sources = {}
        /\ todo = {} /\ faults = 0 /\ upstream \in Tree \cup {NoBase}
    BY GitAssumption DEF Init
  <2> QED BY <2>1 DEF BaseInv, OnlyTheChangeIsReported, Listed, Reading
<1>2. IInv /\ BaseInv /\ OnlyTheChangeIsReported /\ [Next]_vars => BaseInv' /\ OnlyTheChangeIsReported'
  BY BaseStep, OnlyStep DEF IInv
<1> QED BY <1>1, <1>2, Inductive, PTL DEF Spec

=============================================================================
