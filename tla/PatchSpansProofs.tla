--------------------------- MODULE PatchSpansProofs ---------------------------
(***************************************************************************)
(* The spans that the hook derives from a patch, for edits and files of any  *)
(* length and lines of any width: what changed is owned, and what did not is *)
(* left alone.                                                              *)
(***************************************************************************)
EXTENDS PatchSpans, TLAPS, WellFoundedInduction, FiniteSetTheorems, SequenceTheorems

-----------------------------------------------------------------------------
(* Least and greatest elements: the induction of these proofs. *)

LEMMA Least == ASSUME NEW T \in SUBSET Nat, T # {} PROVE \E x \in T : \A y \in T : x <= y
<1> DEFINE R == OpToRel(<,Nat)
<1>1. IsWellFoundedOn(R, Nat)
  BY NatLessThanWellFounded
<1>2. \E x \in T : \A y \in T : ~(<<y, x>> \in R)
  <2> HIDE DEF R
  <2> QED BY <1>1, WFMin, Zenon
<1>3. \A x, y \in T : ~(<<y,x>> \in R) => x <= y
  BY DEF OpToRel
<1> QED BY <1>2, <1>3

LEMMA Greatest ==
    ASSUME NEW T \in SUBSET Nat, NEW n \in Nat, \A x \in T : x <= n, T # {}
    PROVE  \E x \in T : \A y \in T : x >= y
<1> DEFINE U == {n - x : x \in T}
<1>1. U \in SUBSET Nat /\ U # {}
  <2>1. \A x \in T : n - x \in Nat
    OBVIOUS
  <2> QED BY <2>1
<1>2. PICK u \in U : \A v \in U : u <= v
  <2> HIDE DEF U
  <2> QED BY <1>1, Least
<1>3. PICK x \in T : u = n - x
  OBVIOUS
<1>4. ASSUME NEW y \in T PROVE x >= y
  BY <1>2, <1>3
<1> QED BY <1>4

-----------------------------------------------------------------------------
(* The entries that survive *)

LEMMA RankIs ==
    ASSUME NEW e, NEW k \in Nat
    PROVE  /\ Rank(e, k) \in Nat
           /\ Rank(e, 0) = 0
           /\ Rank(e, k + 1) = IF Survives(e[k + 1]) THEN Rank(e, k) + 1 ELSE Rank(e, k)
<1> DEFINE S(n) == {q \in 1..n : Survives(e[q])}
<1>1. \A n \in Nat : IsFiniteSet(S(n)) /\ Cardinality(S(n)) = Rank(e, n)
  <2> TAKE n \in Nat
  <2>1. IsFiniteSet(1..n)
    BY FS_Interval
  <2>2. IsFiniteSet(S(n))
    BY <2>1, FS_Subset
  <2> QED BY <2>2 DEF Rank
<1>2. Rank(e, k) \in Nat
  BY <1>1, FS_CardinalityType
<1>3. Rank(e, 0) = 0
  <2>1. S(0) = {}
    OBVIOUS
  <2> HIDE DEF S
  <2> QED BY <1>1, <2>1, FS_EmptySet
<1>4. CASE Survives(e[k + 1])
  <2>1. S(k + 1) = S(k) \cup {k + 1} /\ k + 1 \notin S(k)
    BY <1>4
  <2> HIDE DEF S
  <2> QED BY <1>1, <1>2, <1>3, <1>4, <2>1, FS_AddElement
<1>5. CASE ~Survives(e[k + 1])
  <2>1. S(k + 1) = S(k)
    <3>1. \A q \in 1..k + 1 : q \in 1..k \/ q = k + 1
      OBVIOUS
    <3> QED BY <1>5, <3>1
  <2> HIDE DEF S
  <2> QED BY <1>1, <1>2, <1>3, <1>5, <2>1
<1> QED BY <1>4, <1>5

LEMMA RankGrows ==
    ASSUME NEW e, NEW k \in Nat, NEW l \in Nat, k <= l
    PROVE  Rank(e, k) <= Rank(e, l)
<1> DEFINE S(n) == {q \in 1..n : Survives(e[q])}
<1>1. IsFiniteSet(S(l))
  <2>1. IsFiniteSet(1..l)
    BY FS_Interval
  <2> QED BY <2>1, FS_Subset
<1>2. S(k) \subseteq S(l)
  OBVIOUS
<1>3. Cardinality(S(k)) <= Cardinality(S(l))
  <2> HIDE DEF S
  <2> QED BY <1>1, <1>2, FS_Subset
<1> QED BY <1>3 DEF Rank

(* A survivor has a rank of its own, higher than those before it.            *)
LEMMA RankRises ==
    ASSUME NEW e, NEW k \in Nat, NEW l \in Nat, k < l, Survives(e[l])
    PROVE  Rank(e, k) < Rank(e, l)
<1>1. PICK m \in Nat : l = m + 1
  <2>1. l - 1 \in Nat /\ l = (l - 1) + 1
    OBVIOUS
  <2> QED BY <2>1
<1>2. Rank(e, k) <= Rank(e, m) /\ Rank(e, l) = Rank(e, m) + 1
  BY <1>1, RankIs, RankGrows
<1> QED BY <1>2, RankIs

Listing(e) == Len(e) \in Nat /\ DOMAIN e = 1..Len(e)

LEMMA PositionIs ==
    ASSUME NEW e, Listing(e), NEW i \in 1..Rank(e, Len(e))
    PROVE  /\ Position(e, i) \in 1..Len(e)
           /\ Survives(e[Position(e, i)])
           /\ Rank(e, Position(e, i)) = i
<1>0. Rank(e, Len(e)) \in Nat /\ Len(e) \in Nat /\ DOMAIN e = 1..Len(e)
  BY RankIs DEF Listing
<1> DEFINE T == {k \in Nat : k <= Len(e) /\ i <= Rank(e, k)}
<1>1. PICK k \in T : \A x \in T : k <= x
  <2>1. Len(e) \in T /\ T \in SUBSET Nat
    BY <1>0
  <2> HIDE DEF T
  <2> QED BY <2>1, Least
<1>2. k # 0
  BY <1>0, RankIs
<1>3. PICK m \in Nat : k = m + 1
  <2>1. k - 1 \in Nat /\ k = (k - 1) + 1
    BY <1>2
  <2> QED BY <2>1
<1>4. m \notin T
  BY <1>1, <1>3
<1>5. Rank(e, m) < i /\ Rank(e, m) \in Nat
  <2>1. Rank(e, m) \in Nat
    BY RankIs
  <2>2. m <= Len(e)
    BY <1>0, <1>3
  <2> QED BY <1>0, <1>4, <2>1, <2>2
<1>6. k \in 1..Len(e) /\ i <= Rank(e, k) /\ i \in Nat
  BY <1>0, <1>3
<1> HIDE DEF T
<1>7. Survives(e[k]) /\ Rank(e, k) = i
  <2>1. Rank(e, k) = IF Survives(e[k]) THEN Rank(e, m) + 1 ELSE Rank(e, m)
    BY <1>3, RankIs
  <2>2. CASE Survives(e[k])
    BY <1>5, <1>6, <2>1, <2>2
  <2>3. CASE ~Survives(e[k])
    BY <1>5, <1>6, <2>1, <2>3
  <2> QED BY <2>2, <2>3
<1> QED BY <1>0, <1>6, <1>7 DEF Position

LEMMA PositionOnly ==
    ASSUME NEW e, Listing(e), NEW p \in 1..Len(e), Survives(e[p])
    PROVE  /\ Rank(e, p) \in 1..Rank(e, Len(e))
           /\ Position(e, Rank(e, p)) = p
<1>0. Rank(e, Len(e)) \in Nat /\ Len(e) \in Nat /\ Rank(e, p) \in Nat
  BY RankIs DEF Listing
<1>1. PICK i : i = Rank(e, p)
  OBVIOUS
<1>2. i \in 1..Rank(e, Len(e))
  <2>1. 0 < i
    BY <1>0, <1>1, RankIs, RankRises
  <2>2. i <= Rank(e, Len(e))
    BY <1>0, <1>1, RankGrows
  <2> QED BY <1>0, <1>1, <2>1, <2>2
<1>3. PICK r : r = Position(e, i)
  OBVIOUS
<1>4. r \in 1..Len(e) /\ Survives(e[r]) /\ Rank(e, r) = i
  BY <1>2, <1>3, PositionIs
<1>5. ~(r < p) /\ ~(p < r)
  BY <1>0, <1>1, <1>4, RankRises
<1> QED BY <1>0, <1>1, <1>2, <1>3, <1>4, <1>5

LEMMA KeptIs ==
    ASSUME NEW e, Listing(e)
    PROVE  /\ Len(Kept(e)) = Rank(e, Len(e)) /\ DOMAIN Kept(e) = 1..Rank(e, Len(e))
           /\ \A i \in 1..Rank(e, Len(e)) : Kept(e)[i] = e[Position(e, i)]
<1>1. Rank(e, Len(e)) \in Nat
  BY RankIs DEF Listing
<1> QED BY <1>1 DEF Kept

-----------------------------------------------------------------------------
(* Where the lines start *)

Starting(f, t) == f = [n \in DOMAIN t |-> IF n = 1 THEN 0 ELSE f[n - 1] + Width[t[n - 1]] + 1]
StartingUpTo(f, t, k) == \A n \in 1..k : f[n] = IF n = 1 THEN 0 ELSE f[n - 1] + Width[t[n - 1]] + 1

LEMMA StartingExists ==
    ASSUME NEW t, Listing(t)
    PROVE  \E f : Starting(f, t)
<1> DEFINE T == {k \in Nat : ~ \E f : StartingUpTo(f, t, k)}
<1>1. T = {}
  <2> SUFFICES ASSUME T # {} PROVE FALSE
    OBVIOUS
  <2>1. PICK k \in T : \A x \in T : k <= x
    <3>1. T \in SUBSET Nat OBVIOUS
    <3> HIDE DEF T
    <3> QED BY <3>1, Least
  <2>2. k # 0
    <3>1. StartingUpTo([n \in {} |-> 0], t, 0)
      BY DEF StartingUpTo
    <3> QED BY <3>1
  <2>3. PICK m \in Nat : k = m + 1
    <3>1. k - 1 \in Nat /\ k = (k - 1) + 1
      BY <2>2
    <3> QED BY <3>1
  <2>4. PICK g : StartingUpTo(g, t, m)
    <3>1. m \notin T
      BY <2>1, <2>3
    <3> QED BY <3>1
  <2> DEFINE h == [n \in 1..k |-> IF n <= m THEN g[n]
                                 ELSE IF n = 1 THEN 0 ELSE g[n - 1] + Width[t[n - 1]] + 1]
  <2>5. ASSUME NEW n \in 1..k
        PROVE  h[n] = IF n = 1 THEN 0 ELSE h[n - 1] + Width[t[n - 1]] + 1
    <3>1. n # 1 => n - 1 \in 1..m /\ h[n - 1] = g[n - 1]
      BY <2>3
    <3>2. CASE n <= m
      <4>1. n \in 1..m /\ h[n] = g[n]
        BY <2>3, <3>2
      <4>2. g[n] = IF n = 1 THEN 0 ELSE g[n - 1] + Width[t[n - 1]] + 1
        BY <2>4, <4>1 DEF StartingUpTo
      <4> HIDE DEF h
      <4> QED BY <3>1, <4>1, <4>2
    <3>3. CASE ~(n <= m)
      <4>1. h[n] = IF n = 1 THEN 0 ELSE g[n - 1] + Width[t[n - 1]] + 1
        BY <3>3
      <4> HIDE DEF h
      <4> QED BY <3>1, <4>1
    <3> QED BY <3>2, <3>3
  <2> HIDE DEF h
  <2>6. StartingUpTo(h, t, k)
    BY <2>5 DEF StartingUpTo
  <2> QED BY <2>1, <2>6
<1>2. PICK g : StartingUpTo(g, t, Len(t))
  BY <1>1 DEF Listing
<1> DEFINE h == [n \in 1..Len(t) |-> g[n]]
<1>3. ASSUME NEW n \in 1..Len(t)
      PROVE  h[n] = IF n = 1 THEN 0 ELSE h[n - 1] + Width[t[n - 1]] + 1
  <2>1. n # 1 => n - 1 \in 1..Len(t)
    BY DEF Listing
  <2>2. h[n] = g[n] /\ (n # 1 => h[n - 1] = g[n - 1])
    BY <2>1
  <2> HIDE DEF h
  <2> QED BY <1>2, <2>2 DEF StartingUpTo
<1>4. h = [n \in 1..Len(t) |-> h[n]]
  OBVIOUS
<1> HIDE DEF h
<1>5. Starting(h, t)
  BY <1>3, <1>4 DEF Starting, Listing
<1> QED BY <1>5

LEMMA StartsAre ==
    ASSUME NEW t, Listing(t)
    PROVE  \E f : Starting(f, t) /\ \A i : Starts(t, i) = f[i]
<1> DEFINE f == CHOOSE f : Starting(f, t)
<1>1. Starting(f, t)
  BY StartingExists, Zenon
<1>2. \A i : Starts(t, i) = f[i]
  BY DEF Starts, Starting
<1> HIDE DEF f
<1> QED BY <1>1, <1>2

Measured(t) == Listing(t) /\ \A i \in 1..Len(t) : Width[t[i]] \in Nat

LEMMA StartsStep ==
    ASSUME NEW t, Measured(t), NEW i \in 1..Len(t)
    PROVE  /\ i = 1 => Starts(t, i) = 0
           /\ i # 1 => Starts(t, i) = Starts(t, i - 1) + Width[t[i - 1]] + 1
<1>1. PICK f : Starting(f, t) /\ \A n : Starts(t, n) = f[n]
  BY StartsAre DEF Measured
<1>2. f[i] = IF i = 1 THEN 0 ELSE f[i - 1] + Width[t[i - 1]] + 1
  BY <1>1 DEF Starting, Measured, Listing
<1> QED BY <1>1, <1>2

LEMMA StartsNat ==
    ASSUME NEW t, Measured(t)
    PROVE  \A i \in 1..Len(t) : Starts(t, i) \in Nat
<1> DEFINE T == {k \in Nat : k \in 1..Len(t) /\ Starts(t, k) \notin Nat}
<1> SUFFICES ASSUME T # {} PROVE FALSE
  <2>1. Len(t) \in Nat
    BY DEF Measured, Listing
  <2> QED BY <2>1
<1>1. PICK k \in T : \A x \in T : k <= x
  <2>1. T \in SUBSET Nat OBVIOUS
  <2> HIDE DEF T
  <2> QED BY <2>1, Least
<1>2. k \in 1..Len(t) /\ k \in Nat /\ Starts(t, k) \notin Nat /\ Len(t) \in Nat
  BY DEF Measured, Listing
<1>3. k # 1
  BY <1>2, StartsStep
<1>4. k - 1 \in 1..Len(t) /\ k - 1 \notin T
  BY <1>1, <1>2, <1>3
<1>5. Starts(t, k - 1) \in Nat /\ Width[t[k - 1]] \in Nat
  BY <1>4 DEF Measured
<1>6. Starts(t, k) = Starts(t, k - 1) + Width[t[k - 1]] + 1
  BY <1>2, <1>3, StartsStep
<1> HIDE DEF T
<1>7. Starts(t, k) \in Nat
  BY <1>5, <1>6
<1> QED BY <1>2, <1>7

LEMMA LineIs ==
    ASSUME NEW t, Measured(t), NEW i \in 1..Len(t)
    PROVE  /\ Starts(t, i) \in Nat /\ Width[t[i]] \in Nat
           /\ Ends(t, i) = Starts(t, i) + Width[t[i]]
           /\ Ends(t, i) \in Nat /\ Starts(t, i) <= Ends(t, i)
           /\ i + 1 \in 1..Len(t) => Starts(t, i + 1) = Ends(t, i) + 1
<1>1. Starts(t, i) \in Nat /\ Width[t[i]] \in Nat
  BY StartsNat DEF Measured
<1>2. Ends(t, i) = Starts(t, i) + Width[t[i]]
  BY DEF Ends
<1>3. ASSUME i + 1 \in 1..Len(t) PROVE Starts(t, i + 1) = Ends(t, i) + 1
  <2>1. Len(t) \in Nat
    BY DEF Measured, Listing
  <2>2. PICK j \in 1..Len(t) : j = i + 1 /\ j # 1 /\ j - 1 = i
    BY <1>3, <2>1
  <2>3. Starts(t, j) = Starts(t, j - 1) + Width[t[j - 1]] + 1
    BY <2>2, StartsStep
  <2> QED BY <1>1, <1>2, <2>2, <2>3
<1> QED BY <1>1, <1>2, <1>3

(* The lines lie one behind the other, with a newline between them.          *)
LEMMA LinesApart ==
    ASSUME NEW t, Measured(t), NEW i \in 1..Len(t), NEW j \in 1..Len(t), i < j
    PROVE  Ends(t, i) < Starts(t, j)
<1>0. Len(t) \in Nat
  BY DEF Measured, Listing
<1> DEFINE T == {k \in Nat : k \in 1..Len(t) /\ i < k /\ ~(Ends(t, i) < Starts(t, k))}
<1> SUFFICES ASSUME T # {} PROVE FALSE
  BY <1>0
<1>1. PICK k \in T : \A x \in T : k <= x
  <2>1. T \in SUBSET Nat OBVIOUS
  <2> HIDE DEF T
  <2> QED BY <2>1, Least
<1>2. k \in 1..Len(t) /\ k \in Nat /\ i < k /\ ~(Ends(t, i) < Starts(t, k))
  OBVIOUS
<1>3. PICK m \in 1..Len(t) : k = m + 1 /\ m \in Nat
  <2>1. k - 1 \in 1..Len(t) /\ k = (k - 1) + 1 /\ k - 1 \in Nat
    BY <1>0, <1>2
  <2> QED BY <2>1
<1>4. m \notin T
  BY <1>1, <1>3
<1>5. i < m => Ends(t, i) < Starts(t, m)
  BY <1>3, <1>4
<1> HIDE DEF T
<1>6. Starts(t, k) = Ends(t, m) + 1 /\ Starts(t, m) <= Ends(t, m)
      /\ Starts(t, m) \in Nat /\ Ends(t, m) \in Nat /\ Ends(t, i) \in Nat
  BY <1>2, <1>3, LineIs
<1>7. i = m \/ i < m
  BY <1>0, <1>2, <1>3
<1> QED BY <1>2, <1>5, <1>6, <1>7

-----------------------------------------------------------------------------
(* The edit *)

Entry == [op : Op \cup {"@@"}, line : Line]
EditInv == script \in Seq(Entry) /\ terminated \in BOOLEAN

LEMMA EditHolds == Spec => []EditInv
<1>1. Init => EditInv
  BY DEF Init, EditInv
<1>2. EditInv /\ [Next]_vars => EditInv'
  <2> SUFFICES ASSUME EditInv, [Next]_vars PROVE EditInv'
    OBVIOUS
  <2>1. ASSUME NEW o \in Op, NEW l \in Line, Edit(o, l) PROVE EditInv'
    <3>1. [op |-> o, line |-> l] \in Entry
      BY DEF Entry
    <3> QED BY <2>1, <3>1 DEF Edit, EditInv
  <2>2. CASE NewHunk
    <3>1. Break \in Entry
      BY LineAssumption DEF Break, Entry
    <3> QED BY <2>2, <3>1 DEF NewHunk, EditInv
  <2>3. CASE UNCHANGED vars
    BY <2>3 DEF vars, EditInv
  <2> QED BY <2>1, <2>2, <2>3 DEF Next
<1> QED BY <1>1, <1>2, PTL DEF Spec

R(k) == Rank(script, k)
N == Len(script)

LEMMA ScriptIs ==
    EditInv => /\ Listing(script) /\ N \in Nat
               /\ \A p \in 1..N : script[p].op \in Op \cup {"@@"} /\ script[p].line \in Line
<1> SUFFICES ASSUME EditInv
             PROVE  /\ Listing(script) /\ N \in Nat
                    /\ \A p \in 1..N : script[p].op \in Op \cup {"@@"} /\ script[p].line \in Line
  OBVIOUS
<1>1. script \in Seq(Entry)
  BY DEF EditInv
<1>2. \A p \in 1..N : script[p] \in Entry
  BY <1>1 DEF N
<1> QED BY <1>1, <1>2 DEF Listing, Entry, N

LEMMA RIs ==
    ASSUME EditInv
    PROVE  /\ \A k \in Nat : R(k) \in Nat
           /\ \A k, l \in Nat : k <= l => R(k) <= R(l)
           /\ \A k, l \in Nat : k < l /\ Survives(script[l]) => R(k) < R(l)
           /\ \A i \in 1..R(N) : Origin(i) \in 1..N /\ Survives(script[Origin(i)]) /\ R(Origin(i)) = i
           /\ \A p \in 1..N : Survives(script[p]) => R(p) \in 1..R(N) /\ Origin(R(p)) = p
<1>1. \A k \in Nat : R(k) \in Nat
  BY RankIs DEF R
<1>2. \A k, l \in Nat : k <= l => R(k) <= R(l)
  BY RankGrows DEF R
<1>3. \A k, l \in Nat : k < l /\ Survives(script[l]) => R(k) < R(l)
  BY RankRises DEF R
<1>4. \A i \in 1..R(N) : Origin(i) \in 1..N /\ Survives(script[Origin(i)]) /\ R(Origin(i)) = i
  BY ScriptIs, PositionIs DEF R, N, Origin
<1>5. \A p \in 1..N : Survives(script[p]) => R(p) \in 1..R(N) /\ Origin(R(p)) = p
  BY ScriptIs, PositionOnly DEF R, N, Origin
<1> QED BY <1>1, <1>2, <1>3, <1>4, <1>5

(* The text has a line for every entry that survives.                        *)
LEMMA TextIs ==
    ASSUME EditInv
    PROVE  /\ Measured(Text) /\ Text \in Seq(Line)
           /\ R(N) <= Len(Text) /\ Lines = 1..R(N)
           /\ \A i \in 1..R(N) : Text[i] = script[Origin(i)].line
<1> DEFINE kept == Kept(script)
           lines == [i \in DOMAIN kept |-> kept[i].line]
<1>0. R(N) \in Nat /\ Listing(script)
  BY RIs, ScriptIs
<1>1. DOMAIN kept = 1..R(N) /\ \A i \in 1..R(N) : kept[i] = script[Origin(i)]
  BY <1>0, KeptIs DEF R, N, Origin
<1>2. \A i \in 1..R(N) : script[Origin(i)].line \in Line
  BY RIs, ScriptIs
<1> HIDE DEF kept
<1>3. lines \in Seq(Line) /\ Len(lines) = R(N) /\ \A i \in 1..R(N) : lines[i] = script[Origin(i)].line
  BY <1>0, <1>1, <1>2
<1>4. Text = IF terminated /\ lines # <<>> THEN Append(lines, Blank)
             ELSE IF lines = <<>> THEN <<Blank>> ELSE lines
  BY DEF Text, kept
<1> HIDE DEF lines
<1>5. /\ Text \in Seq(Line) /\ R(N) <= Len(Text)
      /\ \A i \in 1..R(N) : Text[i] = script[Origin(i)].line
  <2>1. Blank \in Line
    BY LineAssumption
  <2>2. CASE terminated /\ lines # <<>>
    BY <1>0, <1>3, <1>4, <2>1, <2>2
  <2>3. CASE ~(terminated /\ lines # <<>>) /\ lines = <<>>
    <3>1. R(N) = 0
      BY <1>3, <2>3
    <3>2. Text = <<Blank>>
      BY <1>4, <2>3
    <3> QED BY <2>1, <3>1, <3>2
  <2>4. CASE lines # <<>> /\ ~terminated
    <3>1. Text = lines
      BY <1>4, <2>4
    <3> QED BY <1>0, <1>3, <3>1
  <2> QED BY <2>2, <2>3, <2>4
<1>6. PICK t : t = Text
  OBVIOUS
<1>7. Measured(t)
  <2>1. t \in Seq(Line)
    BY <1>5, <1>6
  <2>2. Listing(t)
    BY <2>1 DEF Listing
  <2>3. \A i \in 1..Len(t) : Width[t[i]] \in Nat
    BY <2>1, LineAssumption
  <2> QED BY <2>2, <2>3 DEF Measured
<1> QED BY <1>5, <1>6, <1>7 DEF Lines, R, N

-----------------------------------------------------------------------------
(* The hunks *)

LEMMA HunkIs ==
    ASSUME EditInv, NEW h \in Hunks
    PROVE  /\ h.from \in 1..N /\ h.to \in 1..N /\ h.from <= h.to
           /\ \A p \in h.from..h.to : Shown(p)
<1>1. \E i, j \in DOMAIN script : h = [from |-> i, to |-> j]
  BY DEF Hunks
<1>2. h.from <= h.to /\ \A p \in h.from..h.to : Shown(p)
  BY DEF Hunks
<1> QED BY <1>1, <1>2, ScriptIs DEF Listing, N

(* Every entry that the patch shows is in a hunk.                            *)
LEMMA HunkOf ==
    ASSUME EditInv, NEW p \in 1..N, Shown(p)
    PROVE  \E h \in Hunks : p \in h.from..h.to
<1>0. N \in Nat /\ DOMAIN script = 1..N
  BY ScriptIs DEF Listing, N
<1> DEFINE Froms == {i \in Nat : i \in 1..p /\ \A q \in i..p : Shown(q)}
           Tos == {j \in Nat : j \in p..N /\ \A q \in p..j : Shown(q)}
<1>1. PICK i \in Froms : \A x \in Froms : i <= x
  <2>1. p \in Froms /\ Froms \in SUBSET Nat
    BY <1>0
  <2> HIDE DEF Froms
  <2> QED BY <2>1, Least
<1>2. PICK j \in Tos : \A x \in Tos : j >= x
  <2>1. p \in Tos /\ Tos \in SUBSET Nat /\ \A x \in Tos : x <= N
    BY <1>0
  <2> HIDE DEF Tos
  <2> QED BY <1>0, <2>1, Greatest
<1>3. /\ i \in 1..p /\ i \in 1..N /\ j \in p..N /\ j \in 1..N /\ p \in i..j /\ i <= j
      /\ \A q \in i..j : Shown(q)
  <2>1. \A q \in i..j : q \in i..p \/ q \in p..j
    BY <1>0
  <2> QED BY <1>0, <2>1
<1>4. i = 1 \/ ~Shown(i - 1)
  <2> SUFFICES ASSUME i # 1, Shown(i - 1) PROVE FALSE
    OBVIOUS
  <2>1. i - 1 \in Nat /\ i - 1 \in 1..p
    BY <1>0
  <2>2. \A q \in i - 1..p : q = i - 1 \/ q \in i..p
    BY <1>0
  <2>3. i - 1 \in Froms
    BY <2>1, <2>2
  <2> HIDE DEF Froms
  <2> QED BY <1>0, <1>1, <1>3, <2>1, <2>3
<1>5. j = N \/ ~Shown(j + 1)
  <2> SUFFICES ASSUME j # N, Shown(j + 1) PROVE FALSE
    OBVIOUS
  <2>1. j + 1 \in Nat /\ j + 1 \in p..N
    BY <1>0
  <2>2. \A q \in p..j + 1 : q = j + 1 \/ q \in p..j
    BY <1>0
  <2>3. j + 1 \in Tos
    BY <2>1, <2>2
  <2> HIDE DEF Tos
  <2> QED BY <1>0, <1>2, <1>3, <2>1, <2>3
<1> HIDE DEF Froms, Tos
<1>6. PICK h : h = [from |-> i, to |-> j]
  OBVIOUS
<1>7. h \in Hunks
  BY <1>0, <1>3, <1>4, <1>5, <1>6 DEF Hunks, N
<1> QED BY <1>3, <1>6, <1>7

Length(h) == h.to - h.from + 1

LEMMA EntriesAre ==
    ASSUME EditInv, NEW h \in Hunks
    PROVE  /\ Listing(Entries(h)) /\ Len(Entries(h)) = Length(h) /\ Length(h) \in Nat
           /\ \A q \in 1..Length(h) : Entries(h)[q] = script[h.from + q - 1]
<1>1. PICK from \in 1..N, to \in 1..N : from = h.from /\ to = h.to /\ from <= to
  BY HunkIs
<1>2. N \in Nat /\ script \in Seq(Entry) /\ N = Len(script)
  BY ScriptIs DEF EditInv, N
<1>3. \A i \in from..to : script[i] \in Entry
  BY <1>2
<1>4. PICK e : e = SubSeq(script, from, to)
  OBVIOUS
<1>5. /\ e \in Seq(Entry) /\ Len(e) = to - from + 1
      /\ \A q \in 1..to - from + 1 : e[q] = script[from + q - 1]
  BY <1>1, <1>2, <1>3, <1>4, SubSeqProperties
<1>6. Listing(e) /\ to - from + 1 \in Nat
  BY <1>1, <1>2, <1>5 DEF Listing
<1> QED BY <1>1, <1>4, <1>5, <1>6 DEF Entries, Length

(* Inside a hunk the ranks are those of the script, counted from its start.  *)
LEMMA RankInHunk ==
    ASSUME EditInv, NEW h \in Hunks
    PROVE  \A k \in 0..Length(h) : Rank(Entries(h), k) = R(h.from + k - 1) - R(h.from - 1)
<1>01. PICK from \in 1..N, to \in 1..N : from = h.from /\ to = h.to /\ from <= to
  BY HunkIs
<1>02. PICK n \in Nat : n = Length(h)
  BY EntriesAre
<1>03. PICK e : e = Entries(h)
  OBVIOUS
<1>0. /\ from = h.from /\ to = h.to /\ from <= to /\ e = Entries(h) /\ n = Length(h) /\ N \in Nat
      /\ \A q \in 1..n : e[q] = script[from + q - 1]
  BY <1>01, <1>02, <1>03, EntriesAre, ScriptIs
<1>1. from - 1 \in Nat /\ R(from - 1) \in Nat
  <2>1. from - 1 \in Nat
    BY <1>0
  <2> QED BY <2>1, RIs
<1> DEFINE T == {k \in Nat : k <= n /\ Rank(e, k) # R(from + k - 1) - R(from - 1)}
<1>2. T = {}
  <2> SUFFICES ASSUME T # {} PROVE FALSE
    OBVIOUS
  <2>1. PICK k \in T : \A x \in T : k <= x
    <3>1. T \in SUBSET Nat OBVIOUS
    <3> HIDE DEF T
    <3> QED BY <3>1, Least
  <2>2. k \in Nat /\ k <= n /\ Rank(e, k) # R(from + k - 1) - R(from - 1)
    OBVIOUS
  <2>3. k # 0
    <3>1. Rank(e, 0) = 0
      BY RankIs
    <3>2. from + 0 - 1 = from - 1
      BY <1>0
    <3> QED BY <1>1, <2>2, <3>1, <3>2
  <2>4. PICK m \in Nat : k = m + 1 /\ m <= n
    <3>1. k - 1 \in Nat /\ k = (k - 1) + 1 /\ k - 1 <= n
      BY <2>2, <2>3
    <3> QED BY <3>1
  <2>5. Rank(e, m) = R(from + m - 1) - R(from - 1)
    <3>1. m \notin T
      BY <2>1, <2>4
    <3> QED BY <2>4, <3>1
  <2> HIDE DEF T
  <2>6. PICK l \in Nat : l = from + m - 1 /\ l + 1 = from + k - 1
    <3>1. from + m - 1 \in Nat /\ (from + m - 1) + 1 = from + k - 1
      BY <1>0, <2>4
    <3> QED BY <3>1
  <2>7. e[k] = script[l + 1]
    BY <1>0, <2>2, <2>3, <2>6
  <2>8. Rank(e, k) = IF Survives(e[k]) THEN Rank(e, m) + 1 ELSE Rank(e, m)
    BY <2>4, RankIs
  <2>9. R(l + 1) = IF Survives(script[l + 1]) THEN R(l) + 1 ELSE R(l)
    BY RankIs DEF R
  <2>10. R(l) \in Nat /\ Rank(e, m) \in Nat /\ Rank(e, m) = R(l) - R(from - 1)
    BY <2>5, <2>6, RIs, RankIs
  <2>11. Rank(e, k) = R(l + 1) - R(from - 1)
    BY <1>1, <2>7, <2>8, <2>9, <2>10
  <2> QED BY <2>2, <2>6, <2>11
<1>3. \A k \in 0..n : Rank(e, k) = R(from + k - 1) - R(from - 1)
  BY <1>2
<1> QED BY <1>0, <1>3

(* The lines of a hunk are lines of the text, behind those of what precedes. *)
Above(h) == R(h.from - 1)
Tall(h) == R(h.to) - Above(h)

LEMMA PostIs ==
    ASSUME EditInv, NEW h \in Hunks
    PROVE  /\ Above(h) \in Nat /\ Tall(h) \in Nat /\ Above(h) + Tall(h) <= R(N)
           /\ Len(Post(h)) = Tall(h) /\ DOMAIN Post(h) = 1..Tall(h)
           /\ \A i \in 1..Tall(h) : Post(h)[i] = script[Origin(Above(h) + i)]
<1>01. PICK from \in 1..N, to \in 1..N : from = h.from /\ to = h.to /\ from <= to
  BY HunkIs
<1>02. PICK e : e = Entries(h)
  OBVIOUS
<1>03. PICK n \in Nat : n = Length(h) /\ n = to - from + 1
  BY <1>01, EntriesAre DEF Length
<1>0. /\ Listing(e) /\ Len(e) = n /\ N \in Nat
      /\ \A q \in 1..n : e[q] = script[from + q - 1]
      /\ \A k \in 0..n : Rank(e, k) = R(from + k - 1) - R(from - 1)
  BY <1>01, <1>02, <1>03, EntriesAre, RankInHunk, ScriptIs
<1>1. PICK a \in Nat, b \in Nat : a = R(from - 1) /\ b = R(to) /\ a <= b /\ b <= R(N)
  <2>1. from - 1 \in Nat /\ to \in Nat /\ from - 1 <= to /\ to <= N /\ N \in Nat
    <3>1. \A x \in 1..N : x \in Nat /\ x - 1 \in Nat /\ x <= N
      BY <1>0
    <3>2. \A x, y \in 1..N : x <= y => x - 1 <= y
      BY <1>0
    <3> QED BY <1>0, <1>01, <3>1, <3>2
  <2> QED BY <2>1, RIs
<1>2. R(N) \in Nat
  BY <1>0, RIs
<1>3. a = Above(h) /\ b - a = Tall(h) /\ b - a \in Nat /\ a + (b - a) <= R(N)
  BY <1>01, <1>1, <1>2 DEF Above, Tall
<1>4. Rank(e, Len(e)) = b - a
  <2>1. from + n - 1 = to /\ n \in 0..n
    BY <1>01, <1>03
  <2> QED BY <1>0, <1>1, <2>1
<1>5. /\ Len(Kept(e)) = b - a /\ DOMAIN Kept(e) = 1..b - a
      /\ \A i \in 1..b - a : Kept(e)[i] = e[Position(e, i)]
  BY <1>0, <1>4, KeptIs
<1>6. ASSUME NEW i \in 1..b - a PROVE e[Position(e, i)] = script[Origin(a + i)]
  <2>1. PICK q : q = Position(e, i)
    OBVIOUS
  <2>2. q \in 1..n /\ Survives(e[q]) /\ Rank(e, q) = i
    BY <1>0, <1>4, <2>1, PositionIs
  <2>3. PICK p \in 1..N : p = from + q - 1
    BY <1>0, <1>01, <1>03, <2>2
  <2>4. e[q] = script[p] /\ i = R(p) - a
    <3>1. q \in 0..n
      BY <2>2
    <3> QED BY <1>0, <1>1, <2>2, <2>3, <3>1
  <2>5. R(p) \in Nat /\ R(p) = a + i
    <3>1. R(p) \in Nat
      <4>1. \A x \in 1..N : x \in Nat
        BY <1>0
      <4> QED BY <4>1, RIs
    <3> QED BY <1>1, <2>4, <3>1
  <2>6. Origin(R(p)) = p
    BY <2>2, <2>4, RIs
  <2> QED BY <2>1, <2>4, <2>5, <2>6
<1>7. /\ Len(Post(h)) = b - a /\ DOMAIN Post(h) = 1..b - a
      /\ \A i \in 1..b - a : Post(h)[i] = script[Origin(a + i)]
  BY <1>02, <1>5, <1>6 DEF Post
<1> QED BY <1>3, <1>7

LEMMA BodyIs ==
    ASSUME EditInv, NEW h \in Hunks
    PROVE  /\ Body(h) \in Seq(Line) /\ Len(Body(h)) = Tall(h)
           /\ \A i \in 1..Tall(h) : Body(h)[i] = Text[Above(h) + i]
<1>01. PICK a \in Nat, n \in Nat : a = Above(h) /\ n = Tall(h)
  BY PostIs
<1>1. PICK post : a = Above(h) /\ n = Tall(h) /\ post = Post(h)
  BY <1>01
<1>2. /\ a + n <= R(N) /\ R(N) \in Nat /\ DOMAIN post = 1..n
      /\ \A i \in 1..n : post[i] = script[Origin(a + i)]
  BY <1>1, PostIs, RIs, ScriptIs
<1>3. \A i \in 1..n : a + i \in 1..R(N)
  BY <1>2
<1>4. \A i \in 1..n : post[i].line = Text[a + i] /\ post[i].line \in Line
  BY <1>2, <1>3, TextIs, RIs, ScriptIs
<1>5. PICK b : b = [i \in 1..n |-> post[i].line]
  OBVIOUS
<1>6. b \in Seq(Line) /\ Len(b) = n /\ \A i \in 1..n : b[i] = Text[a + i]
  BY <1>4, <1>5
<1>7. Body(h) = b
  BY <1>1, <1>2, <1>5 DEF Body
<1> QED BY <1>1, <1>6, <1>7

(* A hunk that was found was found where it is.                              *)
LEMMA LocateIs ==
    ASSUME EditInv, NEW h \in Hunks, Locate(Text, Body(h)) # 0
    PROVE  Locate(Text, Body(h)) = Above(h) + 1 /\ Tall(h) # 0
<1>01. PICK a \in Nat, n \in Nat : a = Above(h) /\ n = Tall(h)
  BY PostIs
<1>1. PICK b : a = Above(h) /\ n = Tall(h) /\ b = Body(h)
  BY <1>01
<1>2. PICK t : t = Text
  OBVIOUS
<1>3. /\ t \in Seq(Line) /\ a + n <= Len(t) /\ Len(t) \in Nat
      /\ b \in Seq(Line) /\ Len(b) = n /\ \A i \in 1..n : b[i] = t[a + i]
  <2>1. t \in Seq(Line) /\ R(N) <= Len(t)
    BY <1>2, TextIs
  <2>2. a + n <= R(N) /\ R(N) \in Nat
    BY <1>1, PostIs, RIs, ScriptIs
  <2> QED BY <1>1, <1>2, <2>1, <2>2, BodyIs
<1>4. b # <<>> /\ \E i \in Places(t, b) : Places(t, b) = {i} /\ Locate(t, b) = i
  <2>1. Locate(t, b) # 0
    BY <1>1, <1>2
  <2>2. /\ ~(b \in {<<>>, <<Blank>>} \/ \A i \in Places(t, b) : Places(t, b) # {i})
        /\ Locate(t, b) = CHOOSE i \in Places(t, b) : TRUE
    BY <2>1 DEF Locate
  <2>3. PICK i \in Places(t, b) : Places(t, b) = {i}
    BY <2>2
  <2> QED BY <2>2, <2>3
<1>5. n # 0
  BY <1>3, <1>4
<1>6. PICK m \in Nat : m = a + 1 /\ m \in 1..Len(t) /\ m + n - 1 = a + n
  BY <1>3, <1>5
<1>7. SubSeq(t, m, a + n) = b
  <2>1. \A i \in m..a + n : t[i] \in Line
    <3>1. \A i \in m..a + n : i \in 1..Len(t)
      BY <1>3, <1>6
    <3> QED BY <1>3, <3>1
  <2>2. PICK c \in Nat : c = a + n
    OBVIOUS
  <2>3. PICK u : u = SubSeq(t, m, c)
    OBVIOUS
  <2>4. /\ u \in Seq(Line) /\ Len(u) = IF m <= c THEN c - m + 1 ELSE 0
        /\ \A i \in 1..c - m + 1 : u[i] = t[m + i - 1]
    BY <2>1, <2>2, <2>3, SubSeqProperties
  <2>5. c - m + 1 = n /\ m <= c
    BY <1>5, <1>6, <2>2
  <2>6. Len(u) = Len(b) /\ \A i \in 1..n : u[i] = b[i]
    <3>1. \A i \in 1..n : m + i - 1 = a + i
      BY <1>6
    <3> QED BY <1>3, <2>4, <2>5, <3>1
  <2>7. u = b
    BY <1>3, <2>4, <2>6
  <2> QED BY <2>2, <2>3, <2>7
<1>8. m \in Places(t, b)
  BY <1>3, <1>6, <1>7 DEF Places
<1> QED BY <1>1, <1>2, <1>4, <1>5, <1>6, <1>8

-----------------------------------------------------------------------------
(* The spans *)

(* Where a deletion at p has left its mark.                                  *)
Mark(p) == IF R(p) < Len(Text) THEN Starts(Text, R(p) + 1) ELSE Ends(Text, R(p))

(* What the entry at p owns.                                                 *)
Owns(p, s) == \/ script[p].op = "add" /\ s = Content(R(p))
              \/ script[p].op = "del" /\ s = [start |-> Mark(p), end |-> Mark(p)]

(* Entry k of a hunk that was found, and entry p of the script.              *)
LEMMA EntryIs ==
    ASSUME EditInv, NEW h \in Hunks, Tall(h) # 0, NEW k \in 1..Length(h),
           NEW p, p = h.from + k - 1
    PROVE  /\ p \in 1..N /\ Entries(h)[k] = script[p]
           /\ script[p].op = "add" => Above(h) + 1 + Index(h, k - 1) = R(p)
           /\ Boundary(Text, h, Above(h) + 1, k) = Mark(p)
<1>01. PICK from \in 1..N, to \in 1..N : from = h.from /\ to = h.to /\ from <= to
  BY HunkIs
<1>02. PICK n \in Nat : n = Length(h) /\ n = to - from + 1
  BY <1>01, EntriesAre DEF Length
<1>0. N \in Nat /\ \A x \in 1..N : x \in Nat /\ x - 1 \in Nat /\ R(x) \in Nat /\ R(x - 1) \in Nat
  <2>1. N \in Nat
    BY ScriptIs
  <2>2. \A x \in 1..N : x \in Nat /\ x - 1 \in Nat
    BY <2>1
  <2> QED BY <2>1, <2>2, RIs
<1>1. p \in 1..N /\ p <= to /\ Entries(h)[k] = script[p]
  <2>1. k \in 1..n /\ from \in Nat /\ to \in Nat /\ to <= N /\ 1 <= from
    BY <1>0, <1>01, <1>02
  <2>2. p = from + k - 1
    BY <1>01
  <2>3. p \in 1..N /\ p <= to
    BY <1>0, <1>02, <2>1, <2>2
  <2>4. Entries(h)[k] = script[h.from + k - 1]
    BY EntriesAre
  <2> QED BY <2>3, <2>4
<1>2. PICK a \in Nat, m \in Nat, last \in Nat :
         a = Above(h) /\ m = Tall(h) /\ last = a + m /\ last = R(to)
  <2>1. Above(h) \in Nat /\ Tall(h) \in Nat /\ R(to) \in Nat /\ Tall(h) = R(to) - Above(h)
    BY <1>0, <1>01, PostIs DEF Tall
  <2>2. Above(h) + Tall(h) \in Nat /\ Above(h) + Tall(h) = R(to)
    BY <2>1
  <2> QED BY <2>2, <2>1
<1>3. Index(h, k) = R(p) - a /\ Index(h, k - 1) = R(p - 1) - a
  <2>1. k \in 0..n /\ k - 1 \in 0..n /\ from + (k - 1) - 1 = p - 1
    BY <1>01, <1>02, <1>0
  <2>2. a = R(from - 1)
    BY <1>01, <1>2 DEF Above
  <2>3. /\ Rank(Entries(h), k) = R(from + k - 1) - R(from - 1)
        /\ Rank(Entries(h), k - 1) = R(from + (k - 1) - 1) - R(from - 1)
    BY <1>01, <1>02, <2>1, RankInHunk
  <2> QED BY <1>01, <2>1, <2>2, <2>3 DEF Index
<1>4. R(p) \in Nat /\ R(p - 1) \in Nat /\ R(p) <= last /\ 0 < last
  <2>1. R(p) <= R(to)
    <3>1. p \in Nat /\ to \in Nat
      BY <1>0, <1>01, <1>1
    <3> QED BY <1>1, <3>1, RIs
  <2>2. m # 0
    BY <1>2
  <2> QED BY <1>0, <1>1, <1>2, <2>1, <2>2
<1>5. ASSUME script[p].op = "add" PROVE Above(h) + 1 + Index(h, k - 1) = R(p)
  <2>1. PICK q \in Nat : q = p - 1 /\ p = q + 1
    <3>1. p - 1 \in Nat /\ p = (p - 1) + 1
      BY <1>0, <1>1
    <3> QED BY <3>1
  <2>2. R(p) = R(p - 1) + 1
    BY <1>5, <2>1, RankIs DEF R, Survives
  <2> QED BY <1>2, <1>3, <1>4, <2>2
<1>60. PICK t : t = Text
  OBVIOUS
<1>61. PICK l \in Nat : l = Len(t)
  BY <1>60, TextIs DEF Measured, Listing
<1>6. t = Text /\ l = Len(t) /\ Measured(t) /\ last <= l
  <2>1. Measured(t) /\ R(N) <= l
    BY <1>60, <1>61, TextIs
  <2>2. last <= R(N)
    BY <1>2, PostIs
  <2>3. R(N) \in Nat
    BY <1>0, RIs
  <2> QED BY <1>60, <1>61, <2>1, <2>2, <2>3
<1>7. Ends(t, last) < Size(t) <=> last < l
  <2>1. last \in 1..l /\ l \in 1..l
    BY <1>4, <1>6
  <2>2. Size(t) = Ends(t, l)
    BY <1>6 DEF Size
  <2>3. CASE last < l
    <3>1. Ends(t, last) < Starts(t, l)
      BY <1>6, <2>1, <2>3, LinesApart
    <3> QED BY <1>6, <2>1, <2>2, <2>3, <3>1, LineIs
  <2>4. CASE last = l
    BY <1>6, <2>1, <2>2, <2>4, LineIs
  <2> QED BY <1>6, <2>3, <2>4
<1>8. Boundary(t, h, a + 1, k) = Mark(p)
  <2>1. /\ a + 1 + m - 1 = last /\ Len(Post(h)) = m
        /\ Index(h, k) < m <=> R(p) < last
        /\ a + 1 + Index(h, k) = R(p) + 1
    <3>1. PICK r, x : r \in Nat /\ r = R(p) /\ x = Index(h, k) /\ x = r - a
      BY <1>3, <1>4
    <3>2. (a + 1) + m - 1 = last /\ Len(Post(h)) = m
      BY <1>2, PostIs
    <3>3. x < m <=> r < last
      BY <1>2, <3>1
    <3>4. (a + 1) + x = r + 1
      BY <3>1
    <3> QED BY <3>1, <3>2, <3>3, <3>4
  <2>2. Boundary(t, h, a + 1, k) =
          IF R(p) < last THEN Starts(t, R(p) + 1)
          ELSE IF last < l THEN Ends(t, last) + 1
          ELSE Ends(t, last)
    <3>1. Boundary(t, h, a + 1, k) =
            IF Index(h, k) < Len(Post(h)) THEN Starts(t, a + 1 + Index(h, k))
            ELSE IF Ends(t, a + 1 + Len(Post(h)) - 1) < Size(t) THEN Ends(t, a + 1 + Len(Post(h)) - 1) + 1
            ELSE Ends(t, a + 1 + Len(Post(h)) - 1)
      BY DEF Boundary
    <3> QED BY <1>7, <2>1, <3>1
  <2>3. CASE R(p) < last
    <3>1. R(p) < l
      BY <1>4, <1>6, <2>3
    <3> QED BY <1>6, <2>2, <2>3, <3>1 DEF Mark
  <2>4. CASE ~(R(p) < last)
    <3>1. R(p) = last
      BY <1>4, <2>4
    <3>2. CASE last < l
      <4>1. last \in 1..l /\ last + 1 \in 1..l
        BY <1>4, <1>6, <3>2
      <4>2. Starts(t, last + 1) = Ends(t, last) + 1
        BY <1>6, <4>1, LineIs
      <4> QED BY <1>6, <2>2, <2>4, <3>1, <3>2, <4>2 DEF Mark
    <3>3. CASE ~(last < l)
      BY <1>6, <2>2, <2>4, <3>1, <3>3 DEF Mark
    <3> QED BY <3>2, <3>3
  <2> QED BY <2>3, <2>4
<1> QED BY <1>1, <1>2, <1>5, <1>6, <1>8

LEMMA HunkSpansAre ==
    ASSUME EditInv, NEW h \in Hunks, Tall(h) # 0, NEW s
    PROVE  s \in HunkSpans(Text, h, Above(h) + 1) <=> \E p \in h.from..h.to : Owns(p, s)
<1>0. PICK from \in 1..N, to \in 1..N : from = h.from /\ to = h.to /\ from <= to
  BY HunkIs
<1>1. PICK n \in Nat : n = Length(h) /\ n = to - from + 1 /\ DOMAIN Entries(h) = 1..n
  BY <1>0, EntriesAre DEF Length, Listing
<1>2. PICK a \in Nat : a = Above(h) + 1
  BY PostIs
<1>3. ASSUME NEW k \in 1..n, NEW p \in 1..N, p = from + k - 1
      PROVE  Owns(p, s) <=>
               \/ /\ Entries(h)[k].op = "add"
                  /\ s = [start |-> Starts(Text, a + Index(h, k - 1)),
                          end |-> Ends(Text, a + Index(h, k - 1))]
               \/ /\ Entries(h)[k].op = "del"
                  /\ s = [start |-> Boundary(Text, h, a, k), end |-> Boundary(Text, h, a, k)]
  <2>1. /\ Entries(h)[k] = script[p]
        /\ script[p].op = "add" => a + Index(h, k - 1) = R(p)
        /\ Boundary(Text, h, a, k) = Mark(p)
    <3>1. k \in 1..Length(h) /\ p = h.from + k - 1
      BY <1>0, <1>1, <1>3
    <3>2. /\ Entries(h)[k] = script[p]
          /\ script[p].op = "add" => Above(h) + 1 + Index(h, k - 1) = R(p)
          /\ Boundary(Text, h, Above(h) + 1, k) = Mark(p)
      BY <3>1, EntryIs
    <3> QED BY <1>2, <3>2
  <2> QED BY <2>1 DEF Owns, Content
<1>4. s \in HunkSpans(Text, h, a) <=>
        \E k \in 1..n :
           \/ /\ Entries(h)[k].op = "add"
              /\ s = [start |-> Starts(Text, a + Index(h, k - 1)),
                      end |-> Ends(Text, a + Index(h, k - 1))]
           \/ /\ Entries(h)[k].op = "del"
              /\ s = [start |-> Boundary(Text, h, a, k), end |-> Boundary(Text, h, a, k)]
  BY <1>1 DEF HunkSpans
<1>5. N \in Nat
  BY ScriptIs
<1>6. \A k \in 1..n : from + k - 1 \in from..to /\ from + k - 1 \in 1..N
  BY <1>0, <1>1, <1>5
<1>7. \A p \in from..to : p \in 1..N /\ p - from + 1 \in 1..n /\ p = from + (p - from + 1) - 1
  BY <1>0, <1>1, <1>5
<1>8. ASSUME s \in HunkSpans(Text, h, a) PROVE \E p \in from..to : Owns(p, s)
  BY <1>3, <1>4, <1>6, <1>8
<1>9. ASSUME NEW p \in from..to, Owns(p, s) PROVE s \in HunkSpans(Text, h, a)
  <2>1. PICK k \in 1..n : p = from + k - 1 /\ p \in 1..N
    BY <1>7
  <2> QED BY <1>3, <1>4, <1>9, <2>1
<1> QED BY <1>0, <1>2, <1>8, <1>9

(* The spans of a patch whose hunks are all found.                           *)
LEMMA SpansAre ==
    ASSUME EditInv, Exact, NEW s
    PROVE  s \in Spans <=> \E p \in 1..N : Owns(p, s)
<1>1. ASSUME NEW h \in Hunks
      PROVE  s \in HunkSpans(Text, h, Locate(Text, Body(h))) <=> \E p \in h.from..h.to : Owns(p, s)
  <2>1. Locate(Text, Body(h)) = Above(h) + 1 /\ Tall(h) # 0
    BY LocateIs DEF Exact
  <2> QED BY <2>1, HunkSpansAre
<1>2. s \in Spans <=> \E h \in Hunks : \E p \in h.from..h.to : Owns(p, s)
  BY <1>1 DEF Spans
<1>3. ASSUME NEW h \in Hunks, NEW p \in h.from..h.to PROVE p \in 1..N
  BY HunkIs, ScriptIs
<1>4. ASSUME NEW p \in 1..N, Owns(p, s) PROVE \E h \in Hunks : p \in h.from..h.to
  <2>1. Shown(p)
    BY <1>4 DEF Owns, Shown
  <2> QED BY <2>1, HunkOf
<1> QED BY <1>2, <1>3, <1>4

-----------------------------------------------------------------------------
(* What touches *)

LEMMA TouchesIs ==
    ASSUME NEW a \in Int, NEW b \in Int, NEW c \in Int, NEW d \in Int, a < b, c <= d
    PROVE  Touches([start |-> a, end |-> b], [start |-> c, end |-> d])
             <=> IF c = d THEN a <= c /\ c <= b ELSE a < d /\ c < b
<1>1. PICK u, v : u = [start |-> a, end |-> b] /\ v = [start |-> c, end |-> d]
  OBVIOUS
<1>2. u.start = a /\ u.end = b /\ v.start = c /\ v.end = d
  BY <1>1
<1>3. Touches(u, v) <=>
        IF c = d THEN (IF a > c THEN a ELSE c) <= (IF b < d THEN b ELSE d)
        ELSE (IF a > c THEN a ELSE c) < (IF b < d THEN b ELSE d)
  BY <1>2 DEF Touches
<1>4. Touches(u, v) <=> IF c = d THEN a <= c /\ c <= b ELSE a < d /\ c < b
  BY <1>3
<1> QED BY <1>1, <1>4

(* The line i, when it has a code point.                                     *)
LEMMA ContentIs ==
    ASSUME EditInv, NEW i \in 1..R(N)
    PROVE  /\ i \in 1..Len(Text)
           /\ Starts(Text, i) \in Nat /\ Ends(Text, i) \in Nat
           /\ Starts(Text, i) <= Ends(Text, i)
           /\ Width[Text[i]] > 0 => Starts(Text, i) < Ends(Text, i)
<1>1. PICK t : t = Text
  OBVIOUS
<1>2. Measured(t) /\ R(N) <= Len(t) /\ Len(t) \in Nat
  BY <1>1, TextIs DEF Measured, Listing
<1>3. R(N) \in Nat
  BY RIs, ScriptIs
<1>4. i \in 1..Len(t)
  BY <1>2, <1>3
<1>5. /\ Starts(t, i) \in Nat /\ Width[t[i]] \in Nat /\ Ends(t, i) \in Nat
      /\ Ends(t, i) = Starts(t, i) + Width[t[i]] /\ Starts(t, i) <= Ends(t, i)
  BY <1>2, <1>4, LineIs
<1>6. Width[t[i]] > 0 => Starts(t, i) < Ends(t, i)
  BY <1>5
<1> QED BY <1>1, <1>4, <1>5, <1>6

(* Entries without a survivor among them have one rank, and no others do.    *)
LEMMA NoneBetween ==
    ASSUME EditInv, NEW k \in Nat, NEW l \in Nat, k <= l,
           \A q \in k + 1..l : ~Survives(script[q])
    PROVE  R(l) = R(k)
<1> DEFINE T == {x \in Nat : k <= x /\ x <= l /\ R(x) # R(k)}
<1> SUFFICES ASSUME T # {} PROVE FALSE
  OBVIOUS
<1>1. PICK x \in T : \A y \in T : x <= y
  <2>1. T \in SUBSET Nat OBVIOUS
  <2> HIDE DEF T
  <2> QED BY <2>1, Least
<1>2. x \in Nat /\ k <= x /\ x <= l /\ R(x) # R(k)
  OBVIOUS
<1>3. PICK m \in Nat : x = m + 1 /\ k <= m
  <2>1. x # k /\ x - 1 \in Nat /\ x = (x - 1) + 1 /\ k <= x - 1
    BY <1>2
  <2> QED BY <2>1
<1>4. R(m) = R(k)
  <2>1. m \notin T
    BY <1>1, <1>3
  <2> QED BY <1>2, <1>3, <2>1
<1> HIDE DEF T
<1>5. ~Survives(script[m + 1])
  <2>1. m + 1 \in k + 1..l
    BY <1>2, <1>3
  <2> QED BY <2>1
<1>6. R(m + 1) = R(m)
  BY <1>5, RankIs DEF R
<1> QED BY <1>2, <1>3, <1>4, <1>6

-----------------------------------------------------------------------------
(* The theorems *)

LEMMA ChangeIsSo == EditInv => ChangeIsOwned
<1> SUFFICES ASSUME EditInv, Exact, NEW i \in 1..R(N)
             PROVE  /\ Added(i) /\ Width[Text[i]] > 0 => Owned(Content(i))
                    /\ /\ i + 1 \in 1..R(N) /\ DeletedAfter(i)
                       /\ Width[Text[i]] > 0 /\ Width[Text[i + 1]] > 0
                       => Owned(Seam(i))
  BY TextIs DEF ChangeIsOwned
<1>0. PICK o \in 1..N : o = Origin(i) /\ R(o) = i /\ Survives(script[o]) /\ o \in Nat /\ N \in Nat
  <2>1. Origin(i) \in 1..N /\ Survives(script[Origin(i)]) /\ R(Origin(i)) = i
    BY RIs
  <2>2. N \in Nat
    BY ScriptIs
  <2> QED BY <2>1, <2>2
<1>1. ASSUME Added(i), Width[Text[i]] > 0 PROVE Owned(Content(i))
  <2>1. Content(i) \in Spans
    <3>1. Owns(o, Content(i))
      BY <1>0, <1>1 DEF Owns, Added
    <3> QED BY <3>1, SpansAre
  <2>2. PICK a \in Nat, b \in Nat : a = Starts(Text, i) /\ b = Ends(Text, i) /\ a < b
    BY <1>1, ContentIs
  <2>3. Touches([start |-> a, end |-> b], [start |-> a, end |-> b])
    BY <2>2, TouchesIs
  <2> QED BY <2>1, <2>2, <2>3 DEF Owned, Content
<1>2. ASSUME i + 1 \in 1..R(N), DeletedAfter(i) PROVE Owned(Seam(i))
  <2>1. PICK p \in 1..N : /\ script[p].op = "del" /\ p > o
                          /\ \A q \in o + 1..p : ~Survives(script[q])
    <3>1. DOMAIN script = 1..N
      BY ScriptIs DEF Listing, N
    <3> QED BY <1>0, <1>2, <3>1 DEF DeletedAfter
  <2>2. R(p) = i
    <3>1. p \in Nat /\ o <= p
      BY <1>0, <2>1
    <3> QED BY <1>0, <2>1, <3>1, NoneBetween
  <2>3. PICK t : t = Text
    OBVIOUS
  <2>4. i < Len(t) /\ i \in 1..Len(t) /\ i + 1 \in 1..Len(t) /\ Measured(t)
    <3>1. R(N) <= Len(t) /\ Measured(t) /\ Len(t) \in Nat
      BY <2>3, TextIs DEF Measured, Listing
    <3>2. R(N) \in Nat
      BY <1>0, RIs
    <3> QED BY <1>2, <3>1, <3>2
  <2>5. PICK b \in Nat : b = Ends(t, i) /\ Starts(t, i + 1) = b + 1
    BY <2>4, LineIs
  <2>6. PICK c \in Nat : c = b + 1
    OBVIOUS
  <2>7. Mark(p) = c
    BY <2>2, <2>3, <2>4, <2>5, <2>6 DEF Mark
  <2>8. [start |-> c, end |-> c] \in Spans
    <3>1. Owns(p, [start |-> c, end |-> c])
      BY <2>1, <2>7 DEF Owns
    <3> QED BY <3>1, SpansAre
  <2>9. PICK lo \in Int, hi \in Int : lo = b - 1 /\ hi = c + 1
    OBVIOUS
  <2>10. Touches([start |-> lo, end |-> hi], [start |-> c, end |-> c])
    BY <2>6, <2>9, TouchesIs
  <2>11. Seam(i) = [start |-> lo, end |-> hi]
    BY <2>3, <2>5, <2>6, <2>9 DEF Seam
  <2> QED BY <2>8, <2>10, <2>11 DEF Owned
<1> QED BY <1>1, <1>2

LEMMA UnchangedIsSo == EditInv => UnchangedIsLeftAlone
<1> SUFFICES ASSUME EditInv, Exact, NEW i \in 1..R(N),
                    Width[Text[i]] > 0, Owned(Content(i))
             PROVE  Added(i) \/ DeletedBefore(i) \/ (DeletedAfter(i) /\ i = Len(Text))
  BY TextIs DEF UnchangedIsLeftAlone
<1>0. PICK o \in 1..N : o = Origin(i) /\ R(o) = i /\ Survives(script[o]) /\ o \in Nat /\ N \in Nat
  <2>1. Origin(i) \in 1..N /\ Survives(script[Origin(i)]) /\ R(Origin(i)) = i
    BY RIs
  <2>2. N \in Nat
    BY ScriptIs
  <2> QED BY <2>1, <2>2
<1>1. PICK t : t = Text
  OBVIOUS
<1>2. PICK l \in Nat : l = Len(t) /\ Measured(t) /\ R(N) <= l /\ R(N) \in Nat /\ i \in 1..l
  <2>1. R(N) <= Len(t) /\ Measured(t) /\ Len(t) \in Nat
    BY <1>1, TextIs DEF Measured, Listing
  <2>2. R(N) \in Nat
    BY <1>0, RIs
  <2> QED BY <2>1, <2>2
<1>3. PICK a \in Nat, b \in Nat : a = Starts(t, i) /\ b = Ends(t, i) /\ a < b
  BY <1>1, ContentIs
<1>4. PICK s : s \in Spans /\ Touches([start |-> a, end |-> b], s)
  BY <1>1, <1>3 DEF Owned, Content
<1>5. PICK p \in 1..N : Owns(p, s)
  BY <1>4, SpansAre
<1>6. PICK r \in Nat : r = R(p) /\ r <= R(N) /\ p \in Nat
  <2>1. p \in Nat /\ p <= N
    BY <1>0
  <2>2. R(p) \in Nat /\ R(p) <= R(N)
    BY <1>0, <2>1, RIs
  <2> QED BY <2>1, <2>2
<1>7. ASSUME script[p].op = "add", s = Content(R(p)) PROVE Added(i)
  <2>1. Survives(script[p]) /\ r \in 1..R(N) /\ Origin(r) = p
    BY <1>6, <1>7, RIs DEF Survives
  <2>2. CASE r = i
    BY <1>7, <2>1, <2>2 DEF Added
  <2>3. CASE r # i
    <3>1. PICK c \in Nat, d \in Nat : c = Starts(t, r) /\ d = Ends(t, r) /\ c <= d
      BY <1>1, <2>1, ContentIs
    <3>2. IF c = d THEN a <= c /\ c <= b ELSE a < d /\ c < b
      <4>1. s = [start |-> c, end |-> d]
        BY <1>1, <1>6, <1>7, <3>1 DEF Content
      <4> QED BY <1>3, <1>4, <3>1, <4>1, TouchesIs
    <3>3. r \in 1..l
      BY <1>2, <2>1
    <3>4. i < r => b < c
      BY <1>2, <1>3, <3>1, <3>3, LinesApart
    <3>5. r < i => d < a
      BY <1>2, <1>3, <3>1, <3>3, LinesApart
    <3> QED BY <1>3, <2>3, <3>1, <3>2, <3>3, <3>4, <3>5
  <2> QED BY <2>2, <2>3
<1>8. ASSUME script[p].op = "del", s = [start |-> Mark(p), end |-> Mark(p)]
      PROVE  DeletedBefore(i) \/ (DeletedAfter(i) /\ i = l)
  <2>0. ~Survives(script[p]) /\ p # o /\ DOMAIN script = 1..N
    BY <1>0, <1>8, ScriptIs DEF Survives, Listing, N
  <2>1. CASE r < l
    <3>1. PICK j \in 1..l : j = r + 1
      BY <1>2, <2>1
    <3>2. PICK c \in Nat, d \in Nat : c = Starts(t, j) /\ d = Ends(t, j) /\ c <= d
      BY <1>2, LineIs
    <3>3. a <= c /\ c <= b
      <4>1. s = [start |-> c, end |-> c]
        BY <1>1, <1>2, <1>6, <1>8, <2>1, <3>1, <3>2 DEF Mark
      <4> QED BY <1>3, <1>4, <3>2, <4>1, TouchesIs
    <3>4. (i < j => b < c) /\ (j < i => d < a)
      BY <1>2, <1>3, <3>2, LinesApart
    <3>5. j = i
      BY <1>2, <3>2, <3>3, <3>4, <1>3
    <3>6. p < o
      <4>1. o <= p => R(o) <= R(p)
        BY <1>0, <1>6, RIs
      <4> QED BY <1>0, <1>6, <3>1, <3>5, <4>1
    <3>7. ASSUME NEW q \in p..o - 1, Survives(script[q]) PROVE FALSE
      <4>1. q \in Nat /\ p <= q /\ q < o /\ q # p
        BY <1>0, <1>6, <2>0, <3>7
      <4>2. R(p) < R(q) /\ R(q) < R(o) /\ R(q) \in Nat
        BY <1>0, <1>6, <3>7, <4>1, RIs
      <4> QED BY <1>0, <1>6, <3>1, <3>5, <4>2
    <3>8. DeletedBefore(i)
      BY <1>0, <1>8, <2>0, <3>6, <3>7 DEF DeletedBefore
    <3> QED BY <3>8
  <2>2. CASE ~(r < l)
    <3>1. r = l /\ l \in 1..l
      BY <1>2, <1>6, <2>2
    <3>2. PICK c \in Nat, d \in Nat : c = Starts(t, l) /\ d = Ends(t, l) /\ c <= d
      BY <1>2, <3>1, LineIs
    <3>3. a <= d /\ d <= b
      <4>1. s = [start |-> d, end |-> d]
        BY <1>1, <1>2, <1>6, <1>8, <2>2, <3>1, <3>2 DEF Mark
      <4> QED BY <1>3, <1>4, <3>2, <4>1, TouchesIs
    <3>4. i < l => b < c
      BY <1>2, <1>3, <3>1, <3>2, LinesApart
    <3>5. i = l
      BY <1>2, <1>3, <3>2, <3>3, <3>4
    <3>6. p > o
      <4>1. p < o => R(p) < R(o)
        BY <1>0, <1>6, RIs
      <4> QED BY <1>0, <1>6, <2>0, <3>1, <3>5, <4>1
    <3>7. ASSUME NEW q \in o + 1..p, Survives(script[q]) PROVE FALSE
      <4>1. q \in Nat /\ o < q /\ q <= p
        BY <1>0, <1>6
      <4>2. R(o) < R(q) /\ R(q) <= R(p) /\ R(q) \in Nat
        BY <1>0, <1>6, <3>7, <4>1, RIs
      <4> QED BY <1>0, <1>6, <3>1, <3>5, <4>2
    <3>8. DeletedAfter(i)
      BY <1>0, <1>8, <2>0, <3>6, <3>7 DEF DeletedAfter
    <3> QED BY <3>5, <3>8
  <2> QED BY <2>1, <2>2
<1> QED BY <1>1, <1>2, <1>5, <1>7, <1>8 DEF Owns

(* Of an edit of any length, in a file of lines of any width, no change      *)
(* escapes the spans that run_hook_codex derives when every hunk is located: *)
(* each added line, and each seam a deletion has made, is owned.             *)
THEOREM ChangeHolds == Spec => []ChangeIsOwned
BY EditHolds, ChangeIsSo, PTL

(* And no unchanged line is taken for a changed one: what touches a span of  *)
(* run_hook_codex was added, or a deletion ended right before it, or ended   *)
(* the text behind it.                                                      *)
THEOREM UnchangedHolds == Spec => []UnchangedIsLeftAlone
BY EditHolds, UnchangedIsSo, PTL
==============================================================================
