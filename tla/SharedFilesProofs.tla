-------------------------- MODULE SharedFilesProofs --------------------------
(***************************************************************************)
(* hooks.json and AGENTS.md, for documents and texts of any length: merging  *)
(* and splicing keep what is the owner's, a second run finds nothing to do,  *)
(* an uninstall undoes an install, and a write saves what it replaces.       *)
(*                                                                         *)
(* What a repeated operation does to a sequence is an induction.  The        *)
(* library's induction theorems take a predicate, which the provers cannot  *)
(* supply; the induction here is over a set (SeqInduct), and rests on the    *)
(* least element of a set of natural numbers.                               *)
(***************************************************************************)
EXTENDS SharedFiles, TLAPS, WellFoundedInduction, SequenceTheorems

-----------------------------------------------------------------------------
(* Induction *)

LEMMA Least == ASSUME NEW T \in SUBSET Nat, T # {} PROVE \E x \in T : \A y \in T : x <= y
<1> DEFINE R == OpToRel(<,Nat)
<1>1. IsWellFoundedOn(R, Nat)
  BY NatLessThanWellFounded
<1>2. \E x \in T : \A y \in T : ~(<<y, x>> \in R)
  <2> HIDE DEF R
  <2> QED BY <1>1, WFMin, Zenon
<1>3. \A x, y \in T : ~(<<y,x>> \in R) => x <= y
  BY DEF OpToRel
<1> QED BY <1>2, <1>3

Flattens(f, ss, n) == f = [i \in 1..n |-> IF i = 1 THEN ss[i] ELSE f[i-1] \o ss[i]]

LEMMA FlattenExists == ASSUME NEW ss, NEW n \in Nat PROVE \E f : Flattens(f, ss, n)
<1> DEFINE T == {k \in Nat : ~ \E f : Flattens(f, ss, k)}
<1> SUFFICES T = {} 
  OBVIOUS
<1> SUFFICES ASSUME T # {} PROVE FALSE
  OBVIOUS
<1>1. PICK k \in T : \A y \in T : k <= y
  BY Least
<1>2. CASE k = 0
  <2>1. Flattens([i \in 1..0 |-> <<>>], ss, 0)
    BY DEF Flattens
  <2> QED BY <1>1, <1>2, <2>1
<1>3. CASE k # 0
  <2>1. k - 1 \in Nat /\ k-1 \notin T
    BY <1>1, <1>3
  <2>2. PICK g : Flattens(g, ss, k-1)
    BY <2>1
  <2> DEFINE h == [i \in 1..k |-> IF i < k THEN g[i] ELSE IF k = 1 THEN ss[1] ELSE g[k-1] \o ss[k]]
  <2>3. Flattens(h, ss, k)
    <3>1. h = [i \in 1..k |-> h[i]] OBVIOUS
    <3>2. ASSUME NEW i \in 1..k PROVE h[i] = IF i = 1 THEN ss[i] ELSE h[i-1] \o ss[i]
      <4>1. CASE i < k
        <5>1. i \in 1..k-1 /\ h[i] = g[i] /\ (i # 1 => i-1 \in 1..k /\ i-1 < k /\ h[i-1] = g[i-1])
          BY <4>1, <1>1, <1>3
        <5>2. g[i] = IF i = 1 THEN ss[i] ELSE g[i-1] \o ss[i]
          BY <5>1, <2>2 DEF Flattens
        <5> QED BY <5>1, <5>2
      <4>2. CASE i = k
        <5>1. k # 1 => k-1 \in 1..k /\ k-1 < k /\ h[k-1] = g[k-1]
          BY <1>1, <1>3
        <5>2. h[k] = IF k = 1 THEN ss[1] ELSE g[k-1] \o ss[k]
          BY <4>2
        <5> HIDE DEF h
        <5> QED BY <5>1, <5>2, <4>2
      <4> QED BY <4>1, <4>2
    <3> HIDE DEF h
    <3> QED BY <3>1, <3>2 DEF Flattens
  <2> QED BY <2>3, <1>1 
<1> QED BY <1>2, <1>3

Agree(ss, tt, n) == \A i \in 1..n : ss[i] = tt[i]

LEMMA FlattenAgree == ASSUME NEW ss, NEW tt, NEW n \in Nat, NEW m \in Nat, n <= m, Agree(ss, tt, n),
     NEW f, NEW g, Flattens(f, ss, n), Flattens(g, tt, m)
     PROVE Agree(f, g, n)
<1> USE DEF Agree
<1> DEFINE T == {k \in Nat : k \in 1..n /\ f[k] # g[k]}
<1> SUFFICES T = {} 
  OBVIOUS
<1> SUFFICES ASSUME T # {} PROVE FALSE
  OBVIOUS
<1>1. PICK k \in T : \A y \in T : k <= y
  BY Least
<1>2. k \in 1..n /\ k \in 1..m /\ f[k] # g[k] /\ ss[k] = tt[k]
  OBVIOUS
<1>3. /\ f[k] = IF k = 1 THEN ss[k] ELSE f[k-1] \o ss[k]
      /\ g[k] = IF k = 1 THEN tt[k] ELSE g[k-1] \o tt[k]
  BY <1>2 DEF Flattens
<1>4. CASE k = 1
  BY <1>2, <1>3, <1>4
<1>5. CASE k # 1
  <2>1. k-1 \in Nat /\ k-1 \in 1..n /\ k - 1 \notin T
    BY <1>1, <1>2, <1>5
  <2>2. f[k-1] = g[k-1]
    BY <2>1
  <2> QED BY <1>2, <1>3, <1>5, <2>2
<1> QED BY <1>4, <1>5

LEMMA FlattenIs == ASSUME NEW ss, Len(ss) \in Nat, Len(ss) # 0, NEW f, Flattens(f, ss, Len(ss))
   PROVE  FlattenSeq(ss) = f[Len(ss)]
<1> DEFINE g == CHOOSE g : Flattens(g, ss, Len(ss))
<1>1. Flattens(g, ss, Len(ss))
  BY Zenon
<1>2. FlattenSeq(ss) = g[Len(ss)]
  BY DEF FlattenSeq, Flattens
<1>3. g[Len(ss)] = f[Len(ss)]
  <2> HIDE DEF g
  <2>0. PICK n \in Nat : n = Len(ss)
    OBVIOUS
  <2>1. \A i \in 1..n : g[i] = f[i]
    <3>1. Flattens(f, ss, n) /\ Flattens(g, ss, n) /\ n <= n /\ Agree(ss, ss, n)
      BY <1>1, <2>0 DEF Agree
    <3> QED BY <3>1, FlattenAgree DEF Agree
  <2> QED BY <2>0, <2>1
<1> QED BY <1>2, <1>3

LEMMA Greatest ==
    ASSUME NEW T \in SUBSET Nat, NEW n \in Nat, \A x \in T : x <= n, T # {}
    PROVE  \E x \in T : \A y \in T : x >= y
<1> DEFINE U == {n - x : x \in T}
<1>1. U \in SUBSET Nat /\ U # {}
  <2>1. \A x \in T : n - x \in Nat
    OBVIOUS
  <2> QED BY <2>1
<1>2. PICK u \in U : \A v \in U : u <= v
  <2> HIDE DEF U
  <2> QED BY <1>1, Least
<1>3. PICK x \in T : u = n - x
  OBVIOUS
<1>4. ASSUME NEW y \in T PROVE x >= y
  BY <1>2, <1>3
<1> QED BY <1>4

LEMMA SeqInduct ==
    ASSUME NEW S, NEW A, <<>> \in A,
           \A s \in Seq(S), x \in S : s \in A => Append(s, x) \in A
    PROVE  \A s \in Seq(S) : s \in A
<1> DEFINE T == {n \in Nat : \E s \in Seq(S) : Len(s) = n /\ s \notin A}
<1>1. T = {}
  <2> SUFFICES ASSUME T # {} PROVE FALSE
    OBVIOUS
  <2>1. PICK n \in T : \A m \in T : n <= m
    BY Least
  <2>2. PICK s \in Seq(S) : Len(s) = n /\ s \notin A
    OBVIOUS
  <2>3. s # <<>>
    BY <2>2
  <2>4. PICK t \in Seq(S), x \in S : s = Append(t, x)
    BY <2>3, SequenceEmptyOrAppend
  <2>5. Len(t) \in Nat /\ Len(t) < n
    BY <2>2, <2>4, AppendProperties
  <2>6. t \in A
    BY <2>1, <2>5
  <2> QED BY <2>2, <2>4, <2>6
<1> QED BY <1>1

LEMMA FlattenEmpty == FlattenSeq(<<>>) = <<>>
BY DEF FlattenSeq

LEMMA FlattenOne == ASSUME NEW S, NEW s \in Seq(S) PROVE FlattenSeq(<<s>>) = s
<1>1. PICK f : Flattens(f, <<s>>, 1)
  BY FlattenExists
<1>2. f[1] = s
  BY <1>1 DEF Flattens
<1>3. Len(<<s>>) = 1 /\ Len(<<s>>) \in Nat /\ Len(<<s>>) # 0 /\ Flattens(f, <<s>>, Len(<<s>>))
  BY <1>1
<1>4. FlattenSeq(<<s>>) = f[Len(<<s>>)]
  BY <1>3, FlattenIs
<1> QED BY <1>2, <1>3, <1>4

LEMMA FlattenAppend ==
    ASSUME NEW S, NEW ss \in Seq(Seq(S)), NEW s \in Seq(S)
    PROVE  FlattenSeq(Append(ss, s)) = FlattenSeq(ss) \o s
<1> DEFINE tt == Append(ss, s)  n == Len(ss)
<1>0. n \in Nat /\ tt \in Seq(Seq(S)) /\ Len(tt) = n + 1 /\ tt[n + 1] = s /\ \A i \in 1..n : tt[i] = ss[i]
  BY AppendProperties
<1>1. CASE n = 0
  <2>1. ss = <<>> /\ tt = <<s>>
    BY <1>1
  <2>2. FlattenSeq(tt) = s /\ FlattenSeq(ss) = <<>>
    BY <2>1, FlattenOne, FlattenEmpty
  <2> QED BY <2>2, ConcatEmptySeq
<1>2. CASE n # 0
  <2>0. n + 1 \in Nat /\ n <= n + 1 /\ n + 1 # 0 /\ n \in 1..n /\ n + 1 \in 1..n+1 /\ (n + 1) - 1 = n
    BY <1>0, <1>2
  <2>1. PICK f : Flattens(f, tt, n + 1)
    <3> HIDE DEF tt, n
    <3> QED BY <2>0, FlattenExists
  <2>2. PICK g : Flattens(g, ss, n)
    BY <1>0, FlattenExists
  <2>3. g[n] = f[n]
    <3> HIDE DEF tt, n
    <3>0. n \in Nat /\ n + 1 \in Nat /\ \A i \in 1..n : ss[i] = tt[i]
      BY <1>0, <2>0
    <3>1. \A i \in 1..n : g[i] = f[i]
      <4>1. PICK k \in Nat, m \in Nat : k = n /\ m = n + 1
        BY <3>0
      <4>2. Flattens(f, tt, m) /\ Flattens(g, ss, k) /\ k <= m /\ Agree(ss, tt, k)
        BY <2>1, <2>2, <3>0, <2>0, <4>1 DEF Agree
      <4>3. Agree(g, f, k)
        BY <4>2, FlattenAgree
      <4> QED BY <4>1, <4>3 DEF Agree
    <3> QED BY <3>1, <2>0
  <2>4. f[n + 1] = f[n] \o s
    <3> HIDE DEF tt, n
    <3>1. f[n + 1] = IF n + 1 = 1 THEN tt[n + 1] ELSE f[(n + 1) - 1] \o tt[n + 1]
      BY <2>1, <2>0 DEF Flattens
    <3>2. n + 1 # 1
      BY <1>0, <1>2
    <3> QED BY <3>1, <3>2, <2>0, <1>0
  <2>5. FlattenSeq(tt) = f[n + 1] /\ FlattenSeq(ss) = g[n]
    <3> HIDE DEF tt
    <3>1. FlattenSeq(tt) = f[n + 1]
      <4>1. Len(tt) = n + 1 /\ Len(tt) \in Nat /\ Len(tt) # 0 /\ Flattens(f, tt, Len(tt))
        BY <2>1, <2>0, <1>0
      <4> QED BY <4>1, FlattenIs
    <3>2. FlattenSeq(ss) = g[n]
      <4>1. Len(ss) = n /\ Len(ss) \in Nat /\ Len(ss) # 0 /\ Flattens(g, ss, Len(ss))
        BY <2>2, <1>0, <1>2 DEF n
      <4> QED BY <4>1, FlattenIs
    <3> QED BY <3>1, <3>2
  <2> QED BY <2>3, <2>4, <2>5
<1> QED BY <1>1, <1>2

Flat(e, s) == FlattenSeq([i \in DOMAIN s |-> e[s[i]]])
Maps(e, S, X) == e \in [S -> Seq(X)]

LEMMA MapsTo ==
    ASSUME NEW e, NEW S, NEW X, Maps(e, S, X), NEW x \in S
    PROVE  e[x] \in Seq(X)
BY DEF Maps

LEMMA FlatEmpty == ASSUME NEW e PROVE Flat(e, <<>>) = <<>>
<1>1. [i \in DOMAIN <<>> |-> e[<<>>[i]]] = <<>>
  OBVIOUS
<1> QED BY <1>1, FlattenEmpty DEF Flat

LEMMA FlatAppend ==
    ASSUME NEW S, NEW X, NEW e, Maps(e, S, X), NEW s \in Seq(S), NEW x \in S
    PROVE  Flat(e, Append(s, x)) = Flat(e, s) \o e[x]
<1> DEFINE t == Append(s, x)
           ss == [i \in DOMAIN s |-> e[s[i]]]
           tt == [i \in DOMAIN t |-> e[t[i]]]
<1>1. ss \in Seq(Seq(X)) /\ Len(ss) = Len(s)
  <2>1. \A i \in DOMAIN s : e[s[i]] \in Seq(X)
    BY MapsTo
  <2>2. DOMAIN s = 1..Len(s) /\ Len(s) \in Nat
    OBVIOUS
  <2>3. ss \in [1..Len(s) -> Seq(X)]
    BY <2>1, <2>2
  <2> QED BY <2>2, <2>3
<1>2. e[x] \in Seq(X)
  BY MapsTo
<1>3. tt = Append(ss, e[x])
  OBVIOUS
<1> HIDE DEF ss, tt
<1>4. FlattenSeq(tt) = FlattenSeq(ss) \o e[x]
  BY <1>1, <1>2, <1>3, FlattenAppend
<1> QED BY <1>4 DEF Flat, ss, tt

LEMMA FlatType ==
    ASSUME NEW S, NEW X, NEW e, Maps(e, S, X)
    PROVE  \A s \in Seq(S) : Flat(e, s) \in Seq(X)
<1> DEFINE A == {s \in Seq(S) : Flat(e, s) \in Seq(X)}
<1>1. <<>> \in A
  <2>1. Flat(e, <<>>) = <<>> /\ <<>> \in Seq(X) /\ <<>> \in Seq(S)
    BY FlatEmpty
  <2> QED BY <2>1
<1>2. ASSUME NEW s \in Seq(S), NEW x \in S, s \in A
      PROVE  Append(s, x) \in A
  <2>1. Flat(e, Append(s, x)) = Flat(e, s) \o e[x]
    BY FlatAppend
  <2>2. Flat(e, s) \in Seq(X) /\ e[x] \in Seq(X)
    BY <1>2, MapsTo
  <2>3. Flat(e, s) \o e[x] \in Seq(X)
    BY <2>2, ConcatProperties
  <2>4. Append(s, x) \in Seq(S) /\ Flat(e, Append(s, x)) \in Seq(X)
    BY <2>1, <2>3
  <2> QED BY <2>4
<1>3. \A s \in Seq(S) : s \in A
  <2> HIDE DEF A
  <2> QED BY <1>1, <1>2, SeqInduct
<1> QED BY <1>3

LEMMA FlatOne ==
    ASSUME NEW S, NEW X, NEW e, Maps(e, S, X), NEW x \in S
    PROVE  Flat(e, <<x>>) = e[x]
<1>1. <<x>> = Append(<<>>, x) /\ <<>> \in Seq(S) /\ e[x] \in Seq(X)
  BY MapsTo
<1>2. Flat(e, <<x>>) = <<>> \o e[x]
  BY <1>1, FlatAppend, FlatEmpty
<1> QED BY <1>1, <1>2, ConcatEmptySeq

LEMMA FlatConcat ==
    ASSUME NEW S, NEW X, NEW e, Maps(e, S, X), NEW s \in Seq(S)
    PROVE  \A t \in Seq(S) : Flat(e, s \o t) = Flat(e, s) \o Flat(e, t)
<1> DEFINE A == {t \in Seq(S) : Flat(e, s \o t) = Flat(e, s) \o Flat(e, t)}
<1>1. <<>> \in A
  <2>1. Flat(e, s) \in Seq(X)
    BY FlatType
  <2> QED BY <2>1, FlatEmpty, ConcatEmptySeq
<1>2. ASSUME NEW t \in Seq(S), NEW x \in S, t \in A
      PROVE  Append(t, x) \in A
  <2>1. s \o Append(t, x) = Append(s \o t, x) /\ s \o t \in Seq(S)
    OBVIOUS
  <2>2. /\ Flat(e, Append(s \o t, x)) = Flat(e, s \o t) \o e[x]
        /\ Flat(e, Append(t, x)) = Flat(e, t) \o e[x]
    BY <2>1, FlatAppend
  <2>3. Flat(e, s) \in Seq(X) /\ Flat(e, t) \in Seq(X) /\ e[x] \in Seq(X)
    BY FlatType, MapsTo
  <2>4. Flat(e, s) \o (Flat(e, t) \o e[x]) = (Flat(e, s) \o Flat(e, t)) \o e[x]
    <3> DEFINE u == Flat(e, s)  v == Flat(e, t)  w == e[x]
    <3>1. u \in Seq(X) /\ v \in Seq(X) /\ w \in Seq(X)
      BY <2>3
    <3> HIDE DEF u, v, w
    <3>2. u \o (v \o w) = (u \o v) \o w
      BY <3>1
    <3> QED BY <3>2 DEF u, v, w
  <2>5. Flat(e, s \o t) = Flat(e, s) \o Flat(e, t)
    BY <1>2
  <2>6. Flat(e, s \o Append(t, x)) = Flat(e, s) \o Flat(e, Append(t, x))
    BY <2>1, <2>2, <2>4, <2>5
  <2>7. Append(t, x) \in Seq(S)
    OBVIOUS
  <2> QED BY <2>6, <2>7
<1>3. \A t \in Seq(S) : t \in A
  <2> HIDE DEF A
  <2> QED BY <1>1, <1>2, SeqInduct
<1> QED BY <1>3
(* One more pass changes nothing the first one did not.                      *)
LEMMA FlatFlat ==
    ASSUME NEW S, NEW X, NEW e, Maps(e, S, S), NEW g, Maps(g, S, X),
           \A x \in S : Flat(g, e[x]) = g[x]
    PROVE  \A s \in Seq(S) : Flat(g, Flat(e, s)) = Flat(g, s)
<1> DEFINE A == {s \in Seq(S) : Flat(g, Flat(e, s)) = Flat(g, s)}
<1>1. <<>> \in A
  <2>1. <<>> \in Seq(S) /\ Flat(g, Flat(e, <<>>)) = Flat(g, <<>>)
    BY FlatEmpty
  <2> QED BY <2>1
<1>2. ASSUME NEW s \in Seq(S), NEW x \in S, s \in A
      PROVE  Append(s, x) \in A
  <2>1. Flat(e, s) \in Seq(S) /\ e[x] \in Seq(S)
    BY FlatType, MapsTo
  <2>2. Flat(e, Append(s, x)) = Flat(e, s) \o e[x]
    BY FlatAppend
  <2>3. Flat(g, Flat(e, s) \o e[x]) = Flat(g, Flat(e, s)) \o Flat(g, e[x])
    BY <2>1, FlatConcat
  <2>4. Flat(g, Append(s, x)) = Flat(g, s) \o g[x]
    BY FlatAppend
  <2>5. Flat(g, Flat(e, s)) = Flat(g, s) /\ Flat(g, e[x]) = g[x]
    BY <1>2
  <2>6. Flat(g, Flat(e, Append(s, x))) = Flat(g, Append(s, x))
    BY <2>2, <2>3, <2>4, <2>5
  <2>7. Append(s, x) \in Seq(S)
    OBVIOUS
  <2> QED BY <2>6, <2>7
<1>3. \A s \in Seq(S) : s \in A
  <2> HIDE DEF A
  <2> QED BY <1>1, <1>2, SeqInduct
<1> QED BY <1>3

LEMMA FlatUnits ==
    ASSUME NEW S
    PROVE  \A s \in Seq(S) : Flat([x \in S |-> <<x>>], s) = s
<1> DEFINE e == [x \in S |-> <<x>>]
           A == {s \in Seq(S) : Flat(e, s) = s}
<1>0. Maps(e, S, S)
  BY DEF Maps
<1>1. <<>> \in A
  <2>1. <<>> \in Seq(S) /\ Flat(e, <<>>) = <<>>
    BY FlatEmpty
  <2> QED BY <2>1
<1>2. ASSUME NEW s \in Seq(S), NEW x \in S, s \in A
      PROVE  Append(s, x) \in A
  <2>1. Flat(e, Append(s, x)) = Flat(e, s) \o e[x]
    <3> HIDE DEF e
    <3> QED BY <1>0, FlatAppend
  <2>2. Flat(e, s) = s /\ e[x] = <<x>> /\ Append(s, x) = s \o <<x>> /\ Append(s, x) \in Seq(S)
    BY <1>2
  <2> QED BY <2>1, <2>2
<1>3. \A s \in Seq(S) : s \in A
  <2> HIDE DEF A
  <2> QED BY <1>1, <1>2, SeqInduct
<1> QED BY <1>3

-----------------------------------------------------------------------------
(* hooks.json *)

Command == KitCommand \cup OtherCommand
Entry == Block \cup {OddBlock}
Free == {b \in Entry : ~HasOwned(b)}
OtherPart == Entry \cup ({ApplyPatch, "other"} \X Command)

(* The four passes as functions of an entry or a block. *)
KeptOf(b) == [h \in Command |-> IF Owned(b, h) THEN <<>> ELSE <<h>>]
PairOf(b) == [h \in Command |->
                 IF b.matcher = ApplyPatch /\ h \in KitCommand THEN <<>>
                 ELSE << <<b.matcher, h>> >>]
RemainsOf == [b \in Entry |-> Remains(b)]
OthersOf == [b \in Entry |-> OthersIn(b)]

LEMMA BlockFacts ==
    ASSUME NEW b \in Block
    PROVE  /\ b.hooks \in Seq(Command) /\ b.matcher \in {ApplyPatch, "other"}
           /\ b \in Entry /\ b # OddBlock
           /\ \A s \in Seq(Command) :
                 /\ [b EXCEPT !.hooks = s] \in Block
                 /\ [b EXCEPT !.hooks = s].hooks = s
                 /\ [b EXCEPT !.hooks = s].matcher = b.matcher
BY OddAssumption DEF Block, Entry, Command

LEMMA OwnedInMeans ==
    ASSUME NEW b \in Block
    PROVE  OwnedIn(b) = {h \in KitCommand :
                            b.matcher = ApplyPatch /\ \E j \in 1..Len(b.hooks) : b.hooks[j] = h}
BY BlockFacts DEF OwnedIn, Owned, Contains

(* What is kept of a block's hooks is nobody's of the kit. *)
LEMMA KeptIs ==
    ASSUME NEW b \in Block
    PROVE  /\ Kept(b) = Flat(KeptOf(b), b.hooks)
           /\ Kept(b) \in Seq({h \in Command : ~Owned(b, h)})
           /\ Kept(b) \in Seq(Command)
<1> DEFINE X == {h \in Command : ~Owned(b, h)}
<1>1. b.hooks \in Seq(Command)
  BY BlockFacts
<1>2. [j \in DOMAIN b.hooks |-> IF Owned(b, b.hooks[j]) THEN <<>> ELSE <<b.hooks[j]>>]
         = [j \in DOMAIN b.hooks |-> KeptOf(b)[b.hooks[j]]]
  BY <1>1 DEF KeptOf
<1>3. Maps(KeptOf(b), Command, X)
  <2>1. ASSUME NEW h \in Command
        PROVE  (IF Owned(b, h) THEN <<>> ELSE <<h>>) \in Seq(X)
    <3>1. CASE Owned(b, h)
      BY <3>1
    <3>2. CASE ~Owned(b, h)
      <4>1. h \in X
        BY <3>2
      <4> HIDE DEF X
      <4> QED BY <3>2, <4>1
    <3> QED BY <3>1, <3>2
  <2> HIDE DEF X
  <2> QED BY <2>1 DEF KeptOf, Maps
<1>4. Flat(KeptOf(b), b.hooks) \in Seq(X)
  <2> HIDE DEF X
  <2> QED BY <1>1, <1>3, FlatType
<1>5. Kept(b) = Flat(KeptOf(b), b.hooks)
  BY <1>2 DEF Kept, Flat
<1>6. \A s \in Seq(X) : s \in Seq(Command)
  OBVIOUS
<1> QED BY <1>4, <1>5, <1>6

LEMMA RemainsIs ==
    ASSUME NEW b \in Entry
    PROVE  /\ Remains(b) \in Seq(Free) /\ Remains(b) \in Seq(Entry)
           /\ ~HasOwned(b) => Remains(b) = <<b>>
<1>1. CASE ~HasOwned(b)
  BY <1>1 DEF Remains, Free
<1>2. CASE HasOwned(b)
  <2>1. b \in Block
    BY <1>2 DEF HasOwned, OwnedIn, Entry
  <2> DEFINE c == [b EXCEPT !.hooks = Kept(b)]
  <2>2. c \in Block /\ c.hooks = Kept(b) /\ c.matcher = b.matcher
    BY <2>1, KeptIs, BlockFacts
  <2>3. ~HasOwned(c)
    <3>1. \A j \in 1..Len(Kept(b)) : ~Owned(b, Kept(b)[j])
      <4> DEFINE X == {h \in Command : ~Owned(b, h)}
      <4>1. Kept(b) \in Seq(X)
        BY <2>1, KeptIs
      <4>2. \A j \in 1..Len(Kept(b)) : Kept(b)[j] \in X
        <5> HIDE DEF X
        <5> QED BY <4>1
      <4> QED BY <4>2
    <3>2. OwnedIn(c) = {h \in KitCommand :
                           c.matcher = ApplyPatch /\ \E j \in 1..Len(c.hooks) : c.hooks[j] = h}
      <4> HIDE DEF c
      <4> QED BY <2>2, OwnedInMeans
    <3> HIDE DEF c
    <3> QED BY <2>2, <3>1, <3>2 DEF HasOwned, Owned
  <2>4. c \in Free
    BY <2>2, <2>3 DEF Free, Entry
  <2>5. Remains(b) \in {<<>>, <<c>>}
    BY <1>2 DEF Remains
  <2>6. c \in Entry
    BY <2>4 DEF Free
  <2> HIDE DEF c
  <2>7. <<>> \in Seq(Free) /\ <<>> \in Seq(Entry) /\ <<c>> \in Seq(Free) /\ <<c>> \in Seq(Entry)
    BY <2>4, <2>6
  <2> QED BY <1>2, <2>5, <2>7
<1> QED BY <1>1, <1>2

LEMMA StripIs ==
    ASSUME NEW doc \in Doc
    PROVE  /\ Strip(doc) = Flat(RemainsOf, doc)
           /\ Strip(doc) \in Seq(Free) /\ Strip(doc) \in Doc
<1>1. doc \in Seq(Entry)
  BY DEF Doc, Entry
<1>2. [i \in DOMAIN doc |-> Remains(doc[i])] = [i \in DOMAIN doc |-> RemainsOf[doc[i]]]
  BY <1>1 DEF RemainsOf
<1>3. Strip(doc) = Flat(RemainsOf, doc)
  BY <1>2 DEF Strip, Flat
<1>4. Maps(RemainsOf, Entry, Free)
  BY RemainsIs DEF RemainsOf, Maps
<1>5. Flat(RemainsOf, doc) \in Seq(Free)
  BY <1>1, <1>4, FlatType
<1>6. \A s \in Seq(Free) : s \in Doc
  BY DEF Doc, Free, Entry
<1> QED BY <1>3, <1>5, <1>6

LEMMA NoneOwned ==
    ASSUME NEW doc \in Doc
    PROVE  OwnedCommands(doc) = {} <=> doc \in Seq(Free)
<1>1. doc \in Seq(Entry) /\ \A i \in DOMAIN doc : OwnedIn(doc[i]) \subseteq KitCommand
  BY DEF Doc, Entry, OwnedIn
<1>2. OwnedCommands(doc) = {} <=> \A i \in DOMAIN doc : ~HasOwned(doc[i])
  BY <1>1 DEF OwnedCommands, HasOwned
<1>3. doc \in Seq(Free) <=> \A i \in DOMAIN doc : doc[i] \in Free
  BY <1>1 DEF Free
<1> QED BY <1>1, <1>2, <1>3 DEF Free

(* A document that holds nothing of the kit's is not touched. *)
LEMMA StripNothing ==
    ASSUME NEW doc \in Doc, OwnedCommands(doc) = {}
    PROVE  Strip(doc) = doc
<1>1. doc \in Seq(Free)
  BY NoneOwned
<1>2. \A b \in Free : Remains(b) = <<b>>
  BY RemainsIs DEF Free
<1>3. [i \in DOMAIN doc |-> Remains(doc[i])]
         = [i \in DOMAIN doc |-> [b \in Free |-> <<b>>][doc[i]]]
  BY <1>1, <1>2
<1> QED BY <1>1, <1>3, FlatUnits DEF Strip, Flat

LEMMA StripOnce ==
    ASSUME NEW doc \in Doc
    PROVE  OwnedCommands(Strip(doc)) = {} /\ Strip(Strip(doc)) = Strip(doc)
BY StripIs, NoneOwned, StripNothing

(* What a block holds of other people's hooks, as a flattening. *)
LEMMA OthersInIs ==
    ASSUME NEW b \in Block
    PROVE  /\ Maps(PairOf(b), Command, OtherPart)
           /\ b.hooks # <<>> => OthersIn(b) = Flat(PairOf(b), b.hooks)
<1>1. b.hooks \in Seq(Command) /\ b.matcher \in {ApplyPatch, "other"} /\ b # OddBlock
  BY BlockFacts
<1>2. Maps(PairOf(b), Command, OtherPart)
  <2>1. ASSUME NEW h \in Command
        PROVE  (IF b.matcher = ApplyPatch /\ h \in KitCommand THEN <<>>
                ELSE << <<b.matcher, h>> >>) \in Seq(OtherPart)
    <3>1. <<b.matcher, h>> \in OtherPart
      BY <1>1 DEF OtherPart
    <3>2. << <<b.matcher, h>> >> \in Seq(OtherPart) /\ <<>> \in Seq(OtherPart)
      BY <3>1
    <3> QED BY <3>2
  <2> QED BY <2>1 DEF PairOf, Maps
<1>3. [j \in DOMAIN b.hooks |->
          IF b.matcher = ApplyPatch /\ b.hooks[j] \in KitCommand THEN <<>>
          ELSE << <<b.matcher, b.hooks[j]>> >>]
         = [j \in DOMAIN b.hooks |-> PairOf(b)[b.hooks[j]]]
  BY <1>1 DEF PairOf
<1> QED BY <1>1, <1>2, <1>3 DEF OthersIn, Flat

LEMMA OthersType ==
    /\ Maps(OthersOf, Entry, OtherPart)
    /\ \A doc \in Doc : OthersHooks(doc) = Flat(OthersOf, doc)
<1>1. ASSUME NEW b \in Entry
      PROVE  OthersIn(b) \in Seq(OtherPart)
  <2>1. CASE b = OddBlock \/ b.hooks = <<>>
    <3>1. b \in OtherPart
      BY DEF OtherPart
    <3> QED BY <2>1, <3>1 DEF OthersIn
  <2>2. CASE b # OddBlock /\ b.hooks # <<>>
    <3>1. b \in Block /\ b.hooks \in Seq(Command)
      BY <2>2, BlockFacts DEF Entry
    <3> QED BY <3>1, <2>2, OthersInIs, FlatType
  <2> QED BY <2>1, <2>2
<1>2. ASSUME NEW doc \in Doc
      PROVE  OthersHooks(doc) = Flat(OthersOf, doc)
  <2>1. doc \in Seq(Entry)
    BY DEF Doc, Entry
  <2>2. [i \in DOMAIN doc |-> OthersIn(doc[i])] = [i \in DOMAIN doc |-> OthersOf[doc[i]]]
    BY <2>1 DEF OthersOf
  <2> QED BY <2>2 DEF OthersHooks, Flat
<1> QED BY <1>1, <1>2 DEF OthersOf, Maps

(* The block the kit appends: owned, and nothing else in it. *)
LEMMA NewBlockIs ==
    ASSUME NEW command \in KitCommand
    PROVE  LET b == NewBlock(command)
           IN  /\ b \in Block /\ b \in Entry
               /\ OwnedIn(b) = {command}
               /\ Remains(b) = <<>>
               /\ OthersIn(b) = <<>>
<1> DEFINE b == NewBlock(command)
<1>1. b \in Block /\ b.matcher = ApplyPatch /\ b.hooks = <<command>> /\ b # OddBlock /\ b \in Entry
  <2>1. <<command>> \in Seq(KitCommand \cup OtherCommand)
    OBVIOUS
  <2>2. b \in Block /\ b.matcher = ApplyPatch /\ b.hooks = <<command>>
    BY <2>1 DEF NewBlock, Block
  <2> HIDE DEF b
  <2> QED BY <2>2, OddAssumption DEF Entry
<1> HIDE DEF b
<1>2. OwnedIn(b) = {command}
  BY <1>1, OwnedInMeans
<1>3. command \in Command /\ <<>> \in Seq(Command)
  BY DEF Command
<1>4. Kept(b) = <<>>
  <2>1. [j \in DOMAIN b.hooks |-> IF Owned(b, b.hooks[j]) THEN <<>> ELSE <<b.hooks[j]>>] = << <<>> >>
    BY <1>1 DEF Owned
  <2> QED BY <2>1, <1>3, FlattenOne DEF Kept
<1>5. OthersIn(b) = <<>>
  <2>1. [j \in DOMAIN b.hooks |->
            IF b.matcher = ApplyPatch /\ b.hooks[j] \in KitCommand THEN <<>>
            ELSE << <<b.matcher, b.hooks[j]>> >>] = << <<>> >>
    BY <1>1
  <2>2. b.hooks # <<>>
    BY <1>1
  <2> QED BY <1>1, <2>1, <2>2, <1>3, FlattenOne DEF OthersIn
<1>6. Remains(b) = <<>>
  BY <1>2, <1>4 DEF Remains, HasOwned
<1> QED BY <1>1, <1>2, <1>5, <1>6 DEF b

(* Bringing a block up to date keeps its shape and everybody else's hooks. *)
LEMMA UpdatedIs ==
    ASSUME NEW b \in Entry, NEW command \in KitCommand
    PROVE  /\ Updated(b, command) \in Entry
           /\ OwnedIn(Updated(b, command)) = IF HasOwned(b) THEN {command} ELSE {}
           /\ OthersIn(Updated(b, command)) = OthersIn(b)
<1>1. CASE ~HasOwned(b)
  BY <1>1 DEF Updated, HasOwned
<1>2. CASE HasOwned(b)
  <2>1. b \in Block /\ b # OddBlock
    BY <1>2 DEF HasOwned, OwnedIn, Entry
  <2> DEFINE hooks == [j \in DOMAIN b.hooks |-> IF Owned(b, b.hooks[j]) THEN command ELSE b.hooks[j]]
             c == [b EXCEPT !.hooks = hooks]
  <2>2. b.hooks \in Seq(Command) /\ command \in Command
    BY <2>1, BlockFacts DEF Command
  <2>3. hooks \in Seq(Command) /\ Len(hooks) = Len(b.hooks) /\ DOMAIN hooks = DOMAIN b.hooks
    BY <2>2
  <2>4. Updated(b, command) = c
    BY <1>2 DEF Updated
  <2>5. c \in Block /\ c.hooks = hooks /\ c.matcher = b.matcher
    <3> HIDE DEF hooks
    <3> QED BY <2>1, <2>3, BlockFacts
  <2>6. PICK h \in KitCommand : b.matcher = ApplyPatch /\ \E j \in 1..Len(b.hooks) : b.hooks[j] = h
    BY <1>2, <2>1, OwnedInMeans DEF HasOwned
  <2>7. \A j \in 1..Len(b.hooks) : hooks[j] = IF b.hooks[j] \in KitCommand THEN command ELSE b.hooks[j]
    BY <2>6, <2>2 DEF Owned
  <2>8. OwnedIn(c) = {command}
    <3> HIDE DEF hooks, c
    <3>1. OwnedIn(c) = {g \in KitCommand :
                           c.matcher = ApplyPatch /\ \E j \in 1..Len(c.hooks) : c.hooks[j] = g}
      BY <2>5, OwnedInMeans
    <3> QED BY <3>1, <2>5, <2>6, <2>7, <2>3
  <2>9. OthersIn(c) = OthersIn(b)
    <3>1. b.hooks # <<>> /\ c.hooks # <<>> /\ c # OddBlock
      <4> HIDE DEF hooks, c
      <4> QED BY <2>2, <2>3, <2>5, <2>6, BlockFacts
    <3>2. [j \in DOMAIN b.hooks |->
              IF b.matcher = ApplyPatch /\ b.hooks[j] \in KitCommand THEN <<>>
              ELSE << <<b.matcher, b.hooks[j]>> >>]
          = [j \in DOMAIN c.hooks |->
              IF c.matcher = ApplyPatch /\ c.hooks[j] \in KitCommand THEN <<>>
              ELSE << <<c.matcher, c.hooks[j]>> >>]
      <4> HIDE DEF hooks, c
      <4> QED BY <2>2, <2>3, <2>5, <2>6, <2>7
    <3> HIDE DEF hooks, c
    <3> QED BY <2>1, <3>1, <3>2 DEF OthersIn
  <2> HIDE DEF c
  <2> QED BY <1>2, <2>4, <2>5, <2>8, <2>9, BlockFacts
<1> QED BY <1>1, <1>2

(* A merge leaves one owned command, the one it was to install, and other    *)
(* people's hooks as they were.                                             *)
LEMMA MergeIs ==
    ASSUME NEW doc \in Doc, NEW command \in KitCommand
    PROVE  /\ Merge(doc, command) \in Doc
           /\ OwnedCommands(Merge(doc, command)) = {command}
           /\ OthersHooks(Merge(doc, command)) = OthersHooks(doc)
<1>1. doc \in Seq(Entry)
  BY DEF Doc, Entry
<1>2. CASE OwnedCommands(doc) = {}
  <2> DEFINE b == NewBlock(command)
  <2>1. /\ b \in Entry /\ OwnedIn(b) = {command} /\ OthersIn(b) = <<>>
    BY NewBlockIs
  <2>2. Merge(doc, command) = Append(doc, b)
    BY <1>2 DEF Merge
  <2> HIDE DEF b
  <2>3. Append(doc, b) \in Doc
    BY <1>1, <2>1 DEF Doc, Entry
  <2>4. OwnedCommands(Append(doc, b)) = {command}
    <3>1. \A i \in DOMAIN doc : OwnedIn(doc[i]) = {}
      BY <1>2 DEF OwnedCommands, OwnedIn
    <3>2. ASSUME NEW i \in DOMAIN Append(doc, b)
          PROVE  OwnedIn(Append(doc, b)[i]) = IF i = Len(doc) + 1 THEN {command} ELSE {}
      <4>1. Append(doc, b)[i] = IF i = Len(doc) + 1 THEN b ELSE doc[i]
        BY <1>1
      <4>2. i # Len(doc) + 1 => i \in DOMAIN doc
        BY <1>1
      <4> QED BY <4>1, <4>2, <3>1, <2>1
    <3>3. Len(doc) + 1 \in DOMAIN Append(doc, b)
      BY <1>1
    <3> QED BY <3>2, <3>3 DEF OwnedCommands
  <2>5. OthersHooks(Append(doc, b)) = OthersHooks(doc)
    <3>1. OthersOf[b] = <<>>
      BY <2>1 DEF OthersOf
    <3>2. Flat(OthersOf, Append(doc, b)) = Flat(OthersOf, doc) \o OthersOf[b]
      BY <1>1, <2>1, OthersType, FlatAppend
    <3>3. Flat(OthersOf, doc) \in Seq(OtherPart)
      BY <1>1, OthersType, FlatType
    <3>4. Flat(OthersOf, Append(doc, b)) = Flat(OthersOf, doc)
      BY <3>1, <3>2, <3>3
    <3> QED BY <3>4, <2>3, OthersType
  <2> QED BY <2>2, <2>3, <2>4, <2>5
<1>3. CASE OwnedCommands(doc) # {}
  <2> DEFINE new == [i \in DOMAIN doc |-> Updated(doc[i], command)]
  <2>1. Merge(doc, command) = new
    BY <1>3 DEF Merge
  <2>2. \A i \in DOMAIN doc : doc[i] \in Entry
    BY <1>1
  <2>3. \A i \in DOMAIN doc :
           /\ new[i] \in Entry /\ OthersIn(new[i]) = OthersIn(doc[i])
           /\ OwnedIn(new[i]) = IF HasOwned(doc[i]) THEN {command} ELSE {}
    BY <2>2, UpdatedIs
  <2>4. DOMAIN new = DOMAIN doc /\ new \in Seq(Entry)
    BY <2>3, <1>1
  <2> HIDE DEF new
  <2>5. OwnedCommands(new) = {command}
    <3>1. PICK i \in DOMAIN doc : HasOwned(doc[i])
      BY <1>3 DEF OwnedCommands, HasOwned
    <3> QED BY <3>1, <2>3, <2>4 DEF OwnedCommands
  <2>6. [i \in DOMAIN new |-> OthersIn(new[i])] = [i \in DOMAIN doc |-> OthersIn(doc[i])]
    BY <2>3, <2>4
  <2>7. new \in Doc
    BY <2>4 DEF Doc, Entry
  <2> QED BY <2>1, <2>5, <2>6, <2>7 DEF OthersHooks
<1> QED BY <1>2, <1>3

(* The hook that is written where there was no hooks.json. *)
LEMMA FreshHook ==
    ASSUME NEW command \in KitCommand
    PROVE  /\ <<NewBlock(command)>> \in Doc
           /\ OwnedCommands(<<NewBlock(command)>>) = {command}
           /\ OthersHooks(<<NewBlock(command)>>) = <<>>
<1> DEFINE b == NewBlock(command)
<1>1. b \in Entry /\ OwnedIn(b) = {command} /\ OthersIn(b) = <<>>
  BY NewBlockIs
<1> HIDE DEF b
<1>2. <<b>> \in Doc
  BY <1>1 DEF Doc, Entry
<1>3. OwnedCommands(<<b>>) = {command}
  BY <1>1 DEF OwnedCommands
<1>4. [i \in DOMAIN <<b>> |-> OthersIn(<<b>>[i])] = << <<>> >>
  BY <1>1
<1>5. <<>> \in Seq(Entry)
  OBVIOUS
<1>6. OthersHooks(<<b>>) = <<>>
  BY <1>4, <1>5, FlattenOne DEF OthersHooks
<1> QED BY <1>2, <1>3, <1>6 DEF b

(* An uninstall takes away what an install appended. *)
LEMMA StripMerge ==
    ASSUME NEW doc \in Doc, NEW command \in KitCommand, OwnedCommands(doc) = {}
    PROVE  Strip(Merge(doc, command)) = doc
<1> DEFINE b == NewBlock(command)
<1>1. b \in Entry /\ Remains(b) = <<>>
  BY NewBlockIs
<1>2. Merge(doc, command) = Append(doc, b)
  BY DEF Merge
<1> HIDE DEF b
<1>3. doc \in Seq(Entry) /\ Append(doc, b) \in Doc
  BY <1>1 DEF Doc, Entry
<1>4. Maps(RemainsOf, Entry, Free) /\ RemainsOf[b] = <<>>
  BY <1>1, RemainsIs DEF RemainsOf, Maps
<1>5. Flat(RemainsOf, Append(doc, b)) = Flat(RemainsOf, doc) \o RemainsOf[b]
  BY <1>1, <1>3, <1>4, FlatAppend
<1>6. Flat(RemainsOf, doc) = doc /\ Strip(Append(doc, b)) = Flat(RemainsOf, Append(doc, b))
  BY <1>3, StripIs, StripNothing
<1>7. doc \o <<>> = doc
  BY <1>3
<1> QED BY <1>2, <1>4, <1>5, <1>6, <1>7

(* An uninstall leaves other people's hooks as they were. *)
LEMMA OthersRemain ==
    ASSUME NEW b \in Entry
    PROVE  Flat(OthersOf, Remains(b)) = OthersIn(b)
<1>0. Maps(OthersOf, Entry, OtherPart) /\ OthersOf[b] = OthersIn(b)
  BY OthersType DEF OthersOf
<1>1. CASE ~HasOwned(b)
  BY <1>0, <1>1, FlatOne DEF Remains
<1>2. CASE HasOwned(b)
  <2>1. b \in Block /\ b # OddBlock
    BY <1>2 DEF HasOwned, OwnedIn, Entry
  <2>2. b.matcher = ApplyPatch /\ b.hooks \in Seq(Command) /\ b.hooks # <<>>
    BY <1>2, <2>1, BlockFacts, OwnedInMeans DEF HasOwned
  <2>3. Maps(KeptOf(b), Command, Command)
    <3>1. \A h \in Command : <<h>> \in Seq(Command) /\ <<>> \in Seq(Command)
      OBVIOUS
    <3> QED BY <3>1 DEF KeptOf, Maps
  <2>4. Maps(PairOf(b), Command, OtherPart)
    BY <2>1, OthersInIs
  <2>5. ASSUME NEW h \in Command
        PROVE  Flat(PairOf(b), KeptOf(b)[h]) = PairOf(b)[h]
    <3>1. CASE Owned(b, h)
      <4>1. KeptOf(b)[h] = <<>> /\ PairOf(b)[h] = <<>>
        BY <3>1 DEF KeptOf, PairOf, Owned
      <4> QED BY <4>1, FlatEmpty
    <3>2. CASE ~Owned(b, h)
      <4>1. KeptOf(b)[h] = <<h>>
        BY <3>2 DEF KeptOf
      <4> QED BY <4>1, <2>4, FlatOne
    <3> QED BY <3>1, <3>2
  <2>6. Flat(PairOf(b), Kept(b)) = OthersIn(b)
    <3>1. Flat(PairOf(b), Flat(KeptOf(b), b.hooks)) = Flat(PairOf(b), b.hooks)
      BY <2>2, <2>3, <2>4, <2>5, FlatFlat
    <3> QED BY <3>1, <2>1, <2>2, KeptIs, OthersInIs
  <2>7. CASE Kept(b) = <<>>
    <3>1. Remains(b) = <<>>
      BY <1>2, <2>7 DEF Remains
    <3> QED BY <3>1, <2>6, <2>7, FlatEmpty
  <2>8. CASE Kept(b) # <<>>
    <3> DEFINE c == [b EXCEPT !.hooks = Kept(b)]
    <3>1. Remains(b) = <<c>>
      BY <1>2, <2>8 DEF Remains
    <3>2. c \in Block /\ c.hooks = Kept(b) /\ c.matcher = b.matcher
      BY <2>1, KeptIs, BlockFacts
    <3> HIDE DEF c
    <3>3. c \in Entry /\ PairOf(c) = PairOf(b) /\ OthersOf[c] = OthersIn(c)
      BY <3>2, BlockFacts DEF PairOf, OthersOf
    <3>4. OthersIn(c) = Flat(PairOf(b), Kept(b))
      BY <3>2, <3>3, <2>8, OthersInIs
    <3> QED BY <1>0, <3>1, <3>3, <3>4, <2>6, FlatOne
  <2> QED BY <2>7, <2>8
<1> QED BY <1>1, <1>2

LEMMA OthersStrip ==
    ASSUME NEW doc \in Doc
    PROVE  OthersHooks(Strip(doc)) = OthersHooks(doc)
<1>1. doc \in Seq(Entry)
  BY DEF Doc, Entry
<1>2. Maps(RemainsOf, Entry, Entry)
  BY RemainsIs DEF RemainsOf, Maps
<1>3. Maps(OthersOf, Entry, OtherPart)
  BY OthersType
<1>4. \A b \in Entry : Flat(OthersOf, RemainsOf[b]) = OthersOf[b]
  BY OthersRemain DEF RemainsOf, OthersOf
<1>5. Flat(OthersOf, Flat(RemainsOf, doc)) = Flat(OthersOf, doc)
  BY <1>1, <1>2, <1>3, <1>4, FlatFlat
<1> QED BY <1>5, StripIs, OthersType

-----------------------------------------------------------------------------
(* AGENTS.md *)

Plain == Token \ {Open, Close}
Newlines == Seq({NL})

(* Where the text ends before its newlines at the end, and where it starts   *)
(* after those at the start.                                                *)
EndsAt(t, n) == n \in 0..Len(t) /\ (n = 0 \/ t[n] # NL) /\ \A j \in n+1..Len(t) : t[j] = NL
StartsAt(t, n) ==
    n \in 1..Len(t)+1 /\ (n = Len(t) + 1 \/ t[n] # NL) /\ \A j \in 1..n-1 : t[j] = NL

LEMMA RStripAt ==
    ASSUME NEW t \in Seq(Token)
    PROVE  \E n : EndsAt(t, n) /\ RStrip(t) = SubSeq(t, 1, n)
<1> DEFINE I == {i \in 1..Len(t) : t[i] # NL}
           n == SelectLastInSeq(t, LAMBDA c : c # NL)
<1>1. n = IF I # {} THEN Max(I) ELSE 0
  BY DEF SelectLastInSeq
<1>2. EndsAt(t, n)
  <2>1. CASE I = {}
    <3>1. \A j \in 1..Len(t) : t[j] = NL
      BY <2>1
    <3>2. n = 0
      BY <1>1, <2>1
    <3> HIDE DEF n
    <3> QED BY <3>1, <3>2 DEF EndsAt
  <2>2. CASE I # {}
    <3>1. \E x \in I : \A y \in I : x >= y
      <4>1. I \in SUBSET Nat /\ \A x \in I : x <= Len(t)
        OBVIOUS
      <4>2. Len(t) \in Nat
        OBVIOUS
      <4> HIDE DEF I
      <4> QED BY <4>1, <4>2, <2>2, Greatest
    <3>2. n \in I /\ \A y \in I : n >= y
      <4> HIDE DEF I
      <4> QED BY <3>1, <1>1, <2>2 DEF Max
    <3>3. n \in 1..Len(t) /\ t[n] # NL
      BY <3>2
    <3>4. ASSUME NEW j \in n+1..Len(t) PROVE t[j] = NL
      <4>0. PICK m \in 1..Len(t) : m = n
        <5> HIDE DEF n
        <5> QED BY <3>3
      <4>1. j \in 1..Len(t) /\ ~(m >= j)
        BY <3>3, <4>0
      <4>2. j \notin I
        BY <4>0, <4>1, <3>2
      <4> QED BY <4>1, <4>2
    <3> HIDE DEF n
    <3> QED BY <3>3, <3>4 DEF EndsAt
  <2> QED BY <2>1, <2>2
<1> HIDE DEF n
<1> QED BY <1>2 DEF RStrip, n

LEMMA LStripAt ==
    ASSUME NEW t \in Seq(Token)
    PROVE  \E n : StartsAt(t, n) /\ LStrip(t) = SubSeq(t, n, Len(t))
<1> DEFINE I == {i \in 1..Len(t) : t[i] # NL}
           n == SelectInSeq(t, LAMBDA c : c # NL)
<1>1. n = IF I # {} THEN Min(I) ELSE 0
  BY DEF SelectInSeq
<1>2. LStrip(t) = IF n = 0 THEN <<>> ELSE SubSeq(t, n, Len(t))
  BY DEF LStrip
<1>3. CASE I = {}
  <2>1. \A j \in 1..Len(t) : t[j] = NL
    BY <1>3
  <2>2. LStrip(t) = <<>>
    BY <1>1, <1>2, <1>3
  <2>3. StartsAt(t, Len(t) + 1)
    BY <2>1 DEF StartsAt
  <2>4. SubSeq(t, Len(t) + 1, Len(t)) = <<>>
    OBVIOUS
  <2> QED BY <2>2, <2>3, <2>4
<1>4. CASE I # {}
  <2>1. \E x \in I : \A y \in I : x <= y
    <3>1. I \in SUBSET Nat
      OBVIOUS
    <3> HIDE DEF I
    <3> QED BY <3>1, <1>4, Least
  <2>2. n \in I /\ \A y \in I : n <= y
    <3> HIDE DEF I
    <3> QED BY <2>1, <1>1, <1>4 DEF Min
  <2>3. n \in 1..Len(t) /\ t[n] # NL
    BY <2>2
  <2>4. ASSUME NEW j \in 1..n-1 PROVE t[j] = NL
    <3>0. PICK m \in 1..Len(t) : m = n
      <4> HIDE DEF n
      <4> QED BY <2>3
    <3>1. j \in 1..Len(t) /\ ~(m <= j)
      BY <2>3, <3>0
    <3>2. j \notin I
      BY <3>0, <3>1, <2>2
    <3> QED BY <3>1, <3>2
  <2> HIDE DEF n
  <2>5. StartsAt(t, n)
    BY <2>3, <2>4 DEF StartsAt
  <2> QED BY <2>3, <2>5, <1>2
<1> QED BY <1>3, <1>4

(* The newlines at an end of a text do not matter to the strip, and what is  *)
(* stripped once stays as it is.                                            *)
LEMMA RStripOver ==
    ASSUME NEW t \in Seq(Token), NEW z \in Newlines
    PROVE  RStrip(t \o z) = RStrip(t)
<1> DEFINE u == t \o z
<1>1. u \in Seq(Token) /\ Len(u) = Len(t) + Len(z) /\ z \in Seq(Token) /\ Len(t) \in Nat /\ Len(z) \in Nat
  BY DEF Token, Newlines
<1>2. /\ \A j \in 1..Len(t) : u[j] = t[j]
      /\ \A j \in Len(t)+1..Len(u) : u[j] = NL
  BY <1>1 DEF Newlines
<1>3. PICK n : EndsAt(t, n) /\ RStrip(t) = SubSeq(t, 1, n)
  BY RStripAt
<1>4. PICK m : EndsAt(u, m) /\ RStrip(u) = SubSeq(u, 1, m)
  <2> HIDE DEF u
  <2> QED BY <1>1, RStripAt
<1> HIDE DEF u
<1>5. m = n
  <2>1. n \in 0..Len(t) /\ m \in 0..Len(u)
    BY <1>3, <1>4 DEF EndsAt
  <2>2. m <= Len(t)
    BY <2>1, <1>1, <1>2, <1>4 DEF EndsAt
  <2>3. ~(n < m)
    <3> SUFFICES ASSUME n < m PROVE FALSE
      OBVIOUS
    <3>1. t[m] = NL /\ u[m] # NL /\ u[m] = t[m]
      BY <2>1, <2>2, <1>1, <1>2, <1>3, <1>4 DEF EndsAt
    <3> QED BY <3>1
  <2>4. ~(m < n)
    <3> SUFFICES ASSUME m < n PROVE FALSE
      OBVIOUS
    <3>1. t[n] # NL /\ u[n] = NL /\ u[n] = t[n]
      BY <2>1, <1>1, <1>2, <1>3, <1>4 DEF EndsAt
    <3> QED BY <3>1
  <2> QED BY <2>1, <2>3, <2>4, <1>1
<1>6. SubSeq(u, 1, n) = SubSeq(t, 1, n)
  <2>1. n \in 0..Len(t)
    BY <1>3 DEF EndsAt
  <2> QED BY <2>1, <1>1, <1>2
<1> QED BY <1>3, <1>4, <1>5, <1>6 DEF u

LEMMA LStripOver ==
    ASSUME NEW t \in Seq(Token), NEW z \in Newlines
    PROVE  LStrip(z \o t) = LStrip(t)
<1> DEFINE u == z \o t
<1>1. u \in Seq(Token) /\ Len(u) = Len(z) + Len(t) /\ z \in Seq(Token) /\ Len(t) \in Nat /\ Len(z) \in Nat
  BY DEF Token, Newlines
<1>2. /\ \A j \in 1..Len(z) : u[j] = NL
      /\ \A j \in 1..Len(t) : u[j + Len(z)] = t[j]
  BY <1>1 DEF Newlines
<1>3. PICK n : StartsAt(t, n) /\ LStrip(t) = SubSeq(t, n, Len(t))
  BY LStripAt
<1>4. PICK m : StartsAt(u, m) /\ LStrip(u) = SubSeq(u, m, Len(u))
  <2> HIDE DEF u
  <2> QED BY <1>1, LStripAt
<1> HIDE DEF u
<1>5. m = n + Len(z)
  <2>0. n \in 1..Len(t)+1 /\ m \in 1..Len(u)+1
    BY <1>3, <1>4 DEF StartsAt
  <2>1. m > Len(z)
    <3> SUFFICES ASSUME m <= Len(z) PROVE FALSE
      BY <2>0, <1>1
    <3> QED BY <2>0, <1>1, <1>2, <1>4 DEF StartsAt
  <2>2. PICK k \in 1..Len(t)+1 : m = k + Len(z)
    <3>1. m - Len(z) \in 1..Len(t)+1 /\ m = (m - Len(z)) + Len(z)
      BY <2>0, <2>1, <1>1
    <3> QED BY <3>1
  <2>3. k # Len(t) + 1 => t[k] # NL
    <3> SUFFICES ASSUME k # Len(t) + 1 PROVE t[k] # NL
      OBVIOUS
    <3>1. k \in 1..Len(t) /\ u[k + Len(z)] = t[k] /\ m # Len(u) + 1
      BY <2>2, <1>1, <1>2
    <3> QED BY <3>1, <2>2, <1>4 DEF StartsAt
  <2>4. ASSUME NEW j \in 1..k-1 PROVE t[j] = NL
    <3>1. j \in 1..Len(t) /\ u[j + Len(z)] = t[j] /\ j + Len(z) \in 1..m-1
      BY <2>2, <1>1, <1>2
    <3> QED BY <3>1, <1>4 DEF StartsAt
  <2>5. k = n
    BY <2>0, <2>3, <2>4, <1>1, <1>3 DEF StartsAt
  <2> QED BY <2>2, <2>5
<1>6. SubSeq(u, m, Len(u)) = SubSeq(t, n, Len(t))
  <2>1. n \in 1..Len(t)+1
    BY <1>3 DEF StartsAt
  <2> QED BY <2>1, <1>1, <1>2, <1>5
<1> QED BY <1>3, <1>4, <1>6 DEF u

LEMMA RStripSplit ==
    ASSUME NEW t \in Seq(Token)
    PROVE  \E z \in Newlines : t = RStrip(t) \o z
<1>1. PICK n : EndsAt(t, n) /\ RStrip(t) = SubSeq(t, 1, n)
  BY RStripAt
<1>2. n \in 0..Len(t) /\ \A j \in n+1..Len(t) : t[j] = NL
  BY <1>1 DEF EndsAt
<1>3. SubSeq(t, n+1, Len(t)) \in Newlines
  BY <1>2 DEF Newlines
<1>4. SubSeq(t, 1, n) \o SubSeq(t, n+1, Len(t)) = t
  <2>1. 1 \in 1..Len(t)+1 /\ n \in 1-1..Len(t) /\ Len(t) \in n..Len(t)
    BY <1>2
  <2> QED BY <2>1, ConcatAdjacentSubSeq, SubSeqFull
<1> QED BY <1>1, <1>3, <1>4

LEMMA LStripSplit ==
    ASSUME NEW t \in Seq(Token)
    PROVE  \E z \in Newlines : t = z \o LStrip(t)
<1>1. PICK n : StartsAt(t, n) /\ LStrip(t) = SubSeq(t, n, Len(t))
  BY LStripAt
<1>2. n \in 1..Len(t)+1 /\ \A j \in 1..n-1 : t[j] = NL
  BY <1>1 DEF StartsAt
<1>3. SubSeq(t, 1, n-1) \in Newlines
  BY <1>2 DEF Newlines
<1>4. SubSeq(t, 1, n-1) \o SubSeq(t, n, Len(t)) = t
  <2>1. PICK m \in 0..Len(t) : n = m + 1 /\ n - 1 = m
    <3>1. n - 1 \in 0..Len(t) /\ n = (n - 1) + 1
      BY <1>2
    <3> QED BY <3>1
  <2>2. 1 \in 1..Len(t)+1 /\ m \in 1-1..Len(t) /\ Len(t) \in m..Len(t)
    BY <2>1
  <2> QED BY <2>1, <2>2, ConcatAdjacentSubSeq, SubSeqFull
<1> QED BY <1>1, <1>3, <1>4

LEMMA StripTypes ==
    ASSUME NEW X \in SUBSET Token, NEW t \in Seq(X)
    PROVE  RStrip(t) \in Seq(X) /\ LStrip(t) \in Seq(X)
<1>0. t \in Seq(Token)
  OBVIOUS
<1>1. PICK n : EndsAt(t, n) /\ RStrip(t) = SubSeq(t, 1, n)
  BY <1>0, RStripAt
<1>2. PICK m : StartsAt(t, m) /\ LStrip(t) = SubSeq(t, m, Len(t))
  BY <1>0, LStripAt
<1>3. n \in 0..Len(t) /\ m \in 1..Len(t)+1
  BY <1>1, <1>2 DEF EndsAt, StartsAt
<1>4. SubSeq(t, 1, n) \in Seq(X) /\ SubSeq(t, m, Len(t)) \in Seq(X)
  BY <1>3
<1> QED BY <1>1, <1>2, <1>4

LEMMA StripTwice ==
    ASSUME NEW t \in Seq(Token)
    PROVE  RStrip(RStrip(t)) = RStrip(t) /\ LStrip(LStrip(t)) = LStrip(t)
<1>1. RStrip(t) \in Seq(Token) /\ LStrip(t) \in Seq(Token)
  BY StripTypes
<1>2. PICK z \in Newlines : t = RStrip(t) \o z
  BY RStripSplit
<1>3. PICK y \in Newlines : t = y \o LStrip(t)
  BY LStripSplit
<1>4. RStrip(RStrip(t) \o z) = RStrip(RStrip(t)) /\ LStrip(y \o LStrip(t)) = LStrip(LStrip(t))
  BY <1>1, RStripOver, LStripOver
<1> QED BY <1>2, <1>3, <1>4

(* One pair of sentinels in order, at i and k. *)
Parsed(t, i, k) ==
    /\ i \in 1..Len(t) /\ k \in 1..Len(t) /\ i < k
    /\ \A j \in 1..Len(t) : (t[j] = Open <=> j = i) /\ (t[j] = Close <=> j = k)

LEMMA FirstIs ==
    ASSUME NEW t \in Seq(Token), NEW c, NEW i \in 1..Len(t),
           \A j \in 1..Len(t) : t[j] = c <=> j = i
    PROVE  First(t, c) = i
<1> DEFINE I == {j \in 1..Len(t) : t[j] = c}
<1>1. First(t, c) = IF I # {} THEN Min(I) ELSE 0
  BY DEF First, SelectInSeq
<1>2. I = {i}
  OBVIOUS
<1> HIDE DEF I
<1>3. Min(I) = i
  BY <1>2 DEF Min
<1> QED BY <1>1, <1>2, <1>3

LEMMA ParsedFirst ==
    ASSUME NEW t \in Seq(Token), NEW i, NEW k, Parsed(t, i, k)
    PROVE  First(t, Open) = i /\ First(t, Close) = k
BY FirstIs DEF Parsed

LEMMA WellFormedParsed ==
    ASSUME NEW t \in Seq(Token)
    PROVE  WellFormed(t) /\ HasBlock(t) <=> \E i, k : Parsed(t, i, k)
<1>0. DOMAIN t = 1..Len(t)
  OBVIOUS
<1>1. ASSUME WellFormed(t), HasBlock(t)
      PROVE  \E i, k : Parsed(t, i, k)
  <2>1. Once(t, Open) /\ Once(t, Close) /\ First(t, Open) < First(t, Close)
    BY <1>1 DEF WellFormed, HasBlock
  <2>2. PICK i \in 1..Len(t) : {j \in DOMAIN t : t[j] = Open} = {i}
    BY <2>1, <1>0 DEF Once
  <2>3. PICK k \in 1..Len(t) : {j \in DOMAIN t : t[j] = Close} = {k}
    BY <2>1, <1>0 DEF Once
  <2>4. \A j \in 1..Len(t) : (t[j] = Open <=> j = i) /\ (t[j] = Close <=> j = k)
    BY <2>2, <2>3, <1>0
  <2>5. First(t, Open) = i /\ First(t, Close) = k
    BY <2>4, FirstIs
  <2>6. Parsed(t, i, k)
    BY <2>1, <2>4, <2>5 DEF Parsed
  <2> QED BY <2>6
<1>2. ASSUME NEW i, NEW k, Parsed(t, i, k)
      PROVE  WellFormed(t) /\ HasBlock(t)
  <2>1. First(t, Open) = i /\ First(t, Close) = k
    BY <1>2, ParsedFirst
  <2>2. Once(t, Open) /\ Once(t, Close)
    <3>1. {j \in DOMAIN t : t[j] = Open} = {i} /\ {j \in DOMAIN t : t[j] = Close} = {k}
      BY <1>0, <1>2 DEF Parsed
    <3>2. i \in DOMAIN t /\ k \in DOMAIN t
      BY <1>0, <1>2 DEF Parsed
    <3> QED BY <3>1, <3>2 DEF Once
  <2>3. i < k /\ HasBlock(t)
    BY <1>2 DEF Parsed, HasBlock, Contains
  <2> QED BY <2>1, <2>2, <2>3 DEF WellFormed
<1> QED BY <1>1, <1>2

Joins(w, u, v) ==
    /\ Len(w) = Len(u) + Len(v)
    /\ \A j \in 1..Len(u) : w[j] = u[j]
    /\ \A j \in 1..Len(v) : w[Len(u) + j] = v[j]

LEMMA ConcatAt ==
    ASSUME NEW S, NEW u \in Seq(S), NEW v \in Seq(S)
    PROVE  u \o v \in Seq(S) /\ Joins(u \o v, u, v)
<1>1. \A j \in 1..Len(v) : Len(u) + j \in 1..Len(u) + Len(v) /\ (Len(u) + j) - Len(u) = j /\ Len(u) + j > Len(u)
  OBVIOUS
<1> QED BY <1>1, ConcatProperties DEF Joins

(* What stands around a block is free of sentinels. *)
LEMMA AroundParsed ==
    ASSUME NEW t \in Seq(Token), NEW i, NEW k, Parsed(t, i, k)
    PROVE  /\ Before(t) = SubSeq(t, 1, i - 1) /\ Before(t) \in Seq(Plain)
           /\ After(t) = LStrip(SubSeq(t, k + 1, Len(t)))
           /\ SubSeq(t, k + 1, Len(t)) \in Seq(Plain)
           /\ After(t) \in Seq(Plain)
<1>1. First(t, Open) = i /\ First(t, Close) = k
  BY ParsedFirst
<1>2. i \in 1..Len(t) /\ k \in 1..Len(t) /\ i < k
  BY DEF Parsed
<1>3. SubSeq(t, 1, i - 1) \in Seq(Plain)
  <2>1. \A j \in 1..i-1 : t[j] \in Plain
    BY <1>2 DEF Parsed, Plain
  <2> QED BY <1>2, <2>1
<1>4. SubSeq(t, k + 1, Len(t)) \in Seq(Plain)
  <2>1. \A j \in k+1..Len(t) : t[j] \in Plain
    BY <1>2 DEF Parsed, Plain
  <2> QED BY <1>2, <2>1
<1>5. LStrip(SubSeq(t, k + 1, Len(t))) \in Seq(Plain)
  <2>1. PICK s \in Seq(Plain) : s = SubSeq(t, k + 1, Len(t))
    BY <1>4
  <2>2. LStrip(s) \in Seq(Plain)
    BY StripTypes DEF Plain
  <2> QED BY <2>1, <2>2
<1> QED BY <1>1, <1>3, <1>4, <1>5 DEF Before, After

(* A block between two texts without sentinels is found where it stands. *)
LEMMA BlockBetween ==
    ASSUME NEW p \in Seq(Plain), NEW s \in Seq(Plain), NEW body \in Body
    PROVE  LET t == p \o Snippet(body) \o s
           IN  /\ t \in Seq(Token)
               /\ \E i, k : Parsed(t, i, k)
               /\ SubSeq(t, 1, First(t, Open) - 1) = p
               /\ SubSeq(t, First(t, Close) + 1, Len(t)) = <<NL>> \o s
               /\ Before(t) = p
               /\ After(t) = LStrip(s)
<1> DEFINE n == Snippet(body)
           t == p \o n \o s
           l == Len(p)
<1>1. /\ n \in Seq(Token) /\ Len(n) = 6
      /\ n[1] = Open /\ n[2] = NL /\ n[3] = body /\ n[4] = NL /\ n[5] = Close /\ n[6] = NL
  BY DEF Snippet, Token
<1>2. /\ body # Open /\ body # Close /\ NL # Open /\ NL # Close /\ Open # Close
      /\ NL \in Plain
  BY TokenAssumption DEF Plain, Token
<1>3. p \in Seq(Token) /\ s \in Seq(Token) /\ l \in Nat /\ Len(s) \in Nat
  BY DEF Plain
<1> HIDE DEF n
<1>4. /\ t \in Seq(Token) /\ Len(t) = l + 6 + Len(s)
      /\ \A j \in 1..l : t[j] = p[j]
      /\ \A j \in 1..6 : t[l + j] = n[j]
      /\ \A j \in 1..Len(s) : t[l + 6 + j] = s[j]
  <2> DEFINE a == p \o n
  <2>1. /\ a \in Seq(Token) /\ Len(a) = l + 6
        /\ \A j \in 1..l : a[j] = p[j]
        /\ \A j \in 1..6 : a[l + j] = n[j]
    <3>1. a \in Seq(Token) /\ Joins(a, p, n)
      BY <1>1, <1>3, ConcatAt
    <3> HIDE DEF a
    <3> QED BY <3>1, <1>1 DEF Joins
  <2> HIDE DEF a, l
  <2>2. /\ a \o s \in Seq(Token) /\ Len(a \o s) = l + 6 + Len(s)
        /\ \A j \in 1..l + 6 : (a \o s)[j] = a[j]
        /\ \A j \in 1..Len(s) : (a \o s)[l + 6 + j] = s[j]
    <3>1. PICK w : w = a \o s
      OBVIOUS
    <3>2. w \in Seq(Token) /\ Joins(w, a, s)
      BY <2>1, <1>3, <3>1, ConcatAt
    <3>3. /\ Len(w) = l + 6 + Len(s)
          /\ \A j \in 1..l + 6 : w[j] = a[j]
          /\ \A j \in 1..Len(s) : w[l + 6 + j] = s[j]
      BY <3>2, <2>1 DEF Joins
    <3> QED BY <3>1, <3>2, <3>3
  <2>3. \A j \in 1..l : j \in 1..l + 6
    BY <1>3
  <2>4. \A j \in 1..6 : l + j \in 1..l + 6
    BY <1>3
  <2> QED BY <2>1, <2>2, <2>3, <2>4 DEF a
<1> HIDE DEF t
<1>5. Parsed(t, l + 1, l + 5)
  <2>1. ASSUME NEW j \in 1..Len(t)
        PROVE  (t[j] = Open <=> j = l + 1) /\ (t[j] = Close <=> j = l + 5)
    <3>1. CASE j <= l
      <4>1. t[j] \in Plain
        <5>1. j \in 1..l /\ p[j] \in Plain
          BY <3>1, <1>3
        <5> QED BY <5>1, <1>4
      <4> QED BY <3>1, <4>1, <1>3 DEF Plain
    <3>2. CASE j > l /\ j <= l + 6
      <4>1. PICK m \in 1..6 : j = l + m
        <5>1. j - l \in 1..6 /\ j = l + (j - l)
          BY <3>2, <1>3
        <5> QED BY <5>1
      <4>2. t[j] = n[m]
        BY <4>1, <1>4
      <4> QED BY <4>1, <4>2, <1>1, <1>2, <1>3
    <3>3. CASE j > l + 6
      <4>1. PICK m \in 1..Len(s) : j = l + 6 + m
        <5>1. j - (l + 6) \in 1..Len(s) /\ j = l + 6 + (j - (l + 6))
          BY <3>3, <1>3, <1>4
        <5> QED BY <5>1
      <4>2. t[j] = s[m] /\ s[m] \in Plain
        BY <4>1, <1>4
      <4> QED BY <3>3, <4>2, <1>3 DEF Plain
    <3> QED BY <3>1, <3>2, <3>3, <1>3
  <2>2. l + 1 \in 1..Len(t) /\ l + 5 \in 1..Len(t) /\ l + 1 < l + 5
    BY <1>3, <1>4
  <2> QED BY <2>1, <2>2 DEF Parsed
<1>6. First(t, Open) = l + 1 /\ First(t, Close) = l + 5
  BY <1>4, <1>5, ParsedFirst
<1>7. SubSeq(t, 1, (l + 1) - 1) = p
  BY <1>3, <1>4
<1>8. SubSeq(t, (l + 5) + 1, Len(t)) = <<NL>> \o s
  <2> DEFINE r == SubSeq(t, (l + 5) + 1, Len(t))
             q == <<NL>> \o s
  <2>1. r \in Seq(Token) /\ Len(r) = 1 + Len(s) /\ \A j \in 1..Len(r) : r[j] = t[l + 5 + j]
    <3>1. PICK m \in Nat : m = (l + 5) + 1 /\ m = l + 6
      BY <1>3
    <3>2. PICK e \in Nat : e = Len(t) /\ e = m + Len(s)
      BY <3>1, <1>3, <1>4
    <3>3. \A j \in m..e : t[j] \in Token
      BY <3>1, <3>2, <1>4
    <3>4. /\ SubSeq(t, m, e) \in Seq(Token)
          /\ Len(SubSeq(t, m, e)) = e - m + 1
          /\ \A j \in 1..e - m + 1 : SubSeq(t, m, e)[j] = t[m + j - 1]
      BY <3>1, <3>2, <3>3, <1>3, SubSeqProperties
    <3>5. e - m + 1 = 1 + Len(s) /\ \A j \in 1..1 + Len(s) : m + j - 1 = l + 5 + j
      BY <3>1, <3>2, <1>3
    <3> HIDE DEF l
    <3> QED BY <3>1, <3>2, <3>4, <3>5
  <2>2. q \in Seq(Token) /\ Len(q) = 1 + Len(s) /\ q[1] = NL /\ \A j \in 1..Len(s) : q[j + 1] = s[j]
    BY <1>3 DEF Token
  <2>3. t[l + 5 + 1] = NL
    BY <1>1, <1>3, <1>4
  <2>4. ASSUME NEW j \in 1..Len(r) PROVE r[j] = q[j]
    <3>1. CASE j = 1
      BY <3>1, <2>1, <2>2, <2>3
    <3>2. CASE j # 1
      <4>1. PICK m \in 1..Len(s) : j = m + 1
        <5>1. j - 1 \in 1..Len(s) /\ j = (j - 1) + 1
          BY <3>2, <2>1, <1>3
        <5> QED BY <5>1
      <4>2. r[j] = t[l + 5 + j] /\ l + 5 + j = l + 6 + m
        BY <4>1, <2>1, <1>3
      <4> QED BY <4>1, <4>2, <1>4, <2>2
    <3> QED BY <3>1, <3>2
  <2> HIDE DEF r, q
  <2>5. r = q
    BY <2>1, <2>2, <2>4
  <2> QED BY <2>5 DEF r, q
<1>9. LStrip(<<NL>> \o s) = LStrip(s)
  <2>1. <<NL>> \in Newlines
    BY DEF Newlines
  <2> QED BY <2>1, <1>3, LStripOver
<1>10. Before(t) = p /\ After(t) = LStrip(s)
  BY <1>6, <1>7, <1>8, <1>9 DEF Before, After
<1> QED BY <1>4, <1>5, <1>6, <1>7, <1>8, <1>10 DEF t, n

(* The words of a text, in order. *)
WordOf == [c \in Token |-> IF c = NL THEN <<>> ELSE <<c>>]
Words(t) == Flat(WordOf, t)

LEMMA WordOfType == Maps(WordOf, Token, Token)
<1>1. ASSUME NEW c \in Token
      PROVE  (IF c = NL THEN <<>> ELSE <<c>>) \in Seq(Token)
  <2>1. <<>> \in Seq(Token) /\ <<c>> \in Seq(Token)
    OBVIOUS
  <2> QED BY <2>1
<1> QED BY <1>1 DEF WordOf, Maps

LEMMA WordsConcat ==
    ASSUME NEW t \in Seq(Token), NEW u \in Seq(Token)
    PROVE  /\ Words(t) \in Seq(Token) /\ Words(u) \in Seq(Token)
           /\ Words(t \o u) = Words(t) \o Words(u)
           /\ Words(t) \o <<>> = Words(t) /\ <<>> \o Words(t) = Words(t)
<1>1. Words(t) \in Seq(Token) /\ Words(u) \in Seq(Token)
  BY WordOfType, FlatType DEF Words
<1>2. Words(t \o u) = Words(t) \o Words(u)
  BY WordOfType, FlatConcat DEF Words
<1> QED BY <1>1, <1>2, ConcatEmptySeq

LEMMA NoWords == \A z \in Newlines : Words(z) = <<>>
<1> DEFINE A == {z \in Seq({NL}) : Words(z) = <<>>}
<1>1. <<>> \in A
  <2>1. <<>> \in Seq({NL}) /\ Words(<<>>) = <<>>
    BY FlatEmpty DEF Words
  <2> QED BY <2>1
<1>2. ASSUME NEW z \in Seq({NL}), NEW c \in {NL}, z \in A
      PROVE  Append(z, c) \in A
  <2>1. z \in Seq(Token) /\ c \in Token /\ WordOf[c] = <<>>
    BY DEF Token, WordOf
  <2>2. Words(Append(z, c)) = Words(z) \o WordOf[c]
    BY <2>1, WordOfType, FlatAppend DEF Words
  <2>3. Words(z) = <<>> /\ Append(z, c) \in Seq({NL})
    BY <1>2
  <2>4. Words(Append(z, c)) = <<>>
    BY <2>1, <2>2, <2>3
  <2> QED BY <2>3, <2>4
<1>3. \A z \in Seq({NL}) : z \in A
  <2> HIDE DEF A
  <2> QED BY <1>1, <1>2, SeqInduct
<1> QED BY <1>3 DEF Newlines

LEMMA StripWords ==
    ASSUME NEW t \in Seq(Token)
    PROVE  Words(RStrip(t)) = Words(t) /\ Words(LStrip(t)) = Words(t)
<1>1. RStrip(t) \in Seq(Token) /\ LStrip(t) \in Seq(Token)
  BY StripTypes
<1>2. PICK z \in Newlines : t = RStrip(t) \o z
  BY RStripSplit
<1>3. PICK y \in Newlines : t = y \o LStrip(t)
  BY LStripSplit
<1>4. z \in Seq(Token) /\ y \in Seq(Token) /\ Words(z) = <<>> /\ Words(y) = <<>>
  BY NoWords DEF Newlines, Token
<1>5. Words(t) = Words(RStrip(t)) \o <<>>
  <2>1. Words(RStrip(t) \o z) = Words(RStrip(t)) \o Words(z)
    BY <1>1, <1>4, WordsConcat
  <2> QED BY <2>1, <1>2, <1>4
<1>6. Words(t) = <<>> \o Words(LStrip(t))
  <2>1. Words(y \o LStrip(t)) = Words(y) \o Words(LStrip(t))
    BY <1>1, <1>4, WordsConcat
  <2> QED BY <2>1, <1>3, <1>4
<1> QED BY <1>1, <1>5, <1>6, WordsConcat

LEMMA OthersWordsIs ==
    ASSUME NEW t \in Seq(Token), WellFormed(t)
    PROVE  /\ ~HasBlock(t) => OthersWords(t) = Words(t)
           /\ HasBlock(t) =>
                 OthersWords(t) = Words(Before(t)) \o Words(SubSeq(t, First(t, Close) + 1, Len(t)))
<1>1. State(t) # "malformed"
  BY DEF State
<1> DEFINE outside == IF HasBlock(t)
                      THEN SubSeq(t, 1, First(t, Open) - 1)
                           \o SubSeq(t, First(t, Close) + 1, Len(t))
                      ELSE t
<1>2. OthersWords(t) = FlattenSeq([i \in DOMAIN outside |->
                           IF outside[i] = NL THEN <<>> ELSE <<outside[i]>>])
  BY <1>1 DEF OthersWords
<1>3. ASSUME NEW s \in Seq(Token)
      PROVE  FlattenSeq([i \in DOMAIN s |-> IF s[i] = NL THEN <<>> ELSE <<s[i]>>]) = Words(s)
  <2>1. [i \in DOMAIN s |-> IF s[i] = NL THEN <<>> ELSE <<s[i]>>] = [i \in DOMAIN s |-> WordOf[s[i]]]
    BY DEF WordOf
  <2> QED BY <2>1 DEF Words, Flat
<1>4. CASE ~HasBlock(t)
  <2>1. outside = t
    BY <1>4
  <2> HIDE DEF outside
  <2> QED BY <1>2, <1>3, <1>4, <2>1
<1>5. CASE HasBlock(t)
  <2>1. PICK i, k : Parsed(t, i, k)
    BY <1>5, WellFormedParsed
  <2> DEFINE p == SubSeq(t, 1, First(t, Open) - 1)
             r == SubSeq(t, First(t, Close) + 1, Len(t))
  <2>2. p \in Seq(Token) /\ r \in Seq(Token) /\ Before(t) = p
    <3>1. Before(t) \in Seq(Plain) /\ r \in Seq(Plain)
      BY <2>1, AroundParsed, ParsedFirst
    <3>2. Before(t) = p
      BY DEF Before
    <3> HIDE DEF r, p
    <3> QED BY <3>1, <3>2 DEF Plain
  <2>3. outside = p \o r
    BY <1>5
  <2> HIDE DEF outside, p, r
  <2>4. OthersWords(t) = Words(p \o r)
    <3>0. p \o r \in Seq(Token)
      BY <2>2, ConcatAt
    <3>1. PICK s \in Seq(Token) : s = outside
      BY <2>3, <3>0
    <3>2. OthersWords(t) = FlattenSeq([j \in DOMAIN s |-> IF s[j] = NL THEN <<>> ELSE <<s[j]>>])
      BY <1>2, <3>1
    <3> QED BY <1>3, <2>3, <3>1, <3>2
  <2>5. Words(p \o r) = Words(p) \o Words(r)
    BY <2>2, WordsConcat
  <2> QED BY <1>5, <2>2, <2>4, <2>5 DEF r
<1> QED BY <1>4, <1>5

(* What the two splices leave of a text is a block between plain texts, or    *)
(* plain text.                                                              *)
LEMMA BlockWords ==
    ASSUME NEW p \in Seq(Plain), NEW s \in Seq(Plain), NEW body \in Body
    PROVE  LET u == p \o Snippet(body) \o s
           IN  /\ u \in Seq(Token) /\ WellFormed(u) /\ HasBlock(u)
               /\ Before(u) = p /\ After(u) = LStrip(s)
               /\ OthersWords(u) = Words(p) \o Words(s)
<1> DEFINE u == p \o Snippet(body) \o s
<1>1. /\ u \in Seq(Token) /\ \E i, k : Parsed(u, i, k)
      /\ SubSeq(u, First(u, Close) + 1, Len(u)) = <<NL>> \o s
      /\ Before(u) = p /\ After(u) = LStrip(s)
  BY BlockBetween
<1> HIDE DEF u
<1>2. WellFormed(u) /\ HasBlock(u)
  BY <1>1, WellFormedParsed
<1>3. OthersWords(u) = Words(p) \o Words(<<NL>> \o s)
  BY <1>1, <1>2, OthersWordsIs
<1>4. Words(<<NL>> \o s) = Words(s)
  <2>1. <<NL>> \in Newlines /\ <<NL>> \in Seq(Token) /\ s \in Seq(Token)
    BY DEF Newlines, Token, Plain
  <2>2. Words(<<NL>> \o s) = Words(<<NL>>) \o Words(s) /\ Words(<<NL>>) = <<>>
    BY <2>1, WordsConcat, NoWords
  <2> QED BY <2>1, <2>2, WordsConcat
<1> QED BY <1>1, <1>2, <1>3, <1>4 DEF u

LEMMA PlainText ==
    ASSUME NEW u \in Seq(Plain)
    PROVE  /\ u \in Seq(Token) /\ WellFormed(u) /\ ~HasBlock(u)
           /\ OthersWords(u) = Words(u)
<1>1. u \in Seq(Token) /\ WellFormed(u) /\ ~HasBlock(u)
  BY DEF Plain, WellFormed, HasBlock, Contains
<1> QED BY <1>1, OthersWordsIs

LEMMA NoBlockPlain ==
    ASSUME NEW t \in Seq(Token), WellFormed(t), ~HasBlock(t)
    PROVE  t \in Seq(Plain)
<1>1. ~Contains(t, Open) /\ ~Contains(t, Close)
  <2>1. ~Once(t, Open)
    BY DEF Once, HasBlock, Contains
  <2> QED BY <2>1 DEF WellFormed, HasBlock
<1>2. \A j \in 1..Len(t) : t[j] \in Plain
  BY <1>1 DEF Contains, Plain
<1> QED BY <1>2

(* An install leaves a text it would write again as it is, and all words.    *)
LEMMA SplicedIs ==
    ASSUME NEW t \in Seq(Token), WellFormed(t), NEW body \in Body
    PROVE  LET u == Spliced(t, body)
           IN  /\ u \in Seq(Token) /\ WellFormed(u)
               /\ Spliced(u, body) = u
               /\ OthersWords(u) = OthersWords(t)
<1>0. /\ <<>> \in Seq(Plain) /\ <<NL>> \in Seq(Plain) /\ <<NL, NL>> \in Seq(Plain)
      /\ <<NL>> \in Newlines /\ <<NL, NL>> \in Newlines
      /\ <<NL>> \in Seq(Token) /\ <<NL, NL>> \in Seq(Token)
      /\ Plain \in SUBSET Token /\ \A s \in Seq(Plain) : s \in Seq(Token)
  BY TokenAssumption DEF Plain, Token, Newlines
<1>1. CASE ~HasBlock(t)
  <2>1. t \in Seq(Plain)
    BY <1>1, NoBlockPlain
  <2> DEFINE p == RStrip(t) \o <<NL, NL>>
             u == p \o Snippet(body) \o <<>>
  <2>2. RStrip(t) \in Seq(Plain)
    BY <2>1, <1>0, StripTypes
  <2>3. p \in Seq(Plain)
    BY <2>2, <1>0
  <2>4. Spliced(t, body) = u
    <3>1. Spliced(t, body) = p \o Snippet(body)
      BY <1>1 DEF Spliced
    <3>2. p \o Snippet(body) \in Seq(Token)
      <4>1. Snippet(body) \in Seq(Token)
        BY DEF Snippet, Token
      <4> HIDE DEF p
      <4> QED BY <4>1, <2>3, <1>0
    <3> HIDE DEF p
    <3> QED BY <3>1, <3>2
  <2>5. Words(p) = Words(t)
    <3>1. Words(p) = Words(RStrip(t)) \o Words(<<NL, NL>>) /\ Words(<<NL, NL>>) = <<>>
      BY <2>2, <1>0, WordsConcat, NoWords
    <3> QED BY <3>1, <2>2, <1>0, WordsConcat, StripWords
  <2> HIDE DEF p
  <2>6. /\ u \in Seq(Token) /\ WellFormed(u) /\ HasBlock(u) /\ Before(u) = p
        /\ After(u) = LStrip(<<>>) /\ OthersWords(u) = Words(p) \o Words(<<>>)
    BY <2>3, <1>0, BlockWords
  <2>7. LStrip(<<>>) = <<>>
    <3>1. LStrip(<<>>) \in Seq({})
      <4>1. <<>> \in Seq({}) /\ {} \in SUBSET Token
        OBVIOUS
      <4> QED BY <4>1, StripTypes
    <3> QED BY <3>1
  <2> HIDE DEF u
  <2>8. Spliced(u, body) = u
    BY <2>6, <2>7 DEF Spliced, u
  <2>9. OthersWords(u) = OthersWords(t)
    <3>1. Words(<<>>) = <<>> /\ Words(p) \o <<>> = Words(p)
      BY <2>3, <1>0, WordsConcat, FlatEmpty DEF Words
    <3> QED BY <3>1, <2>1, <2>5, <2>6, PlainText
  <2> QED BY <2>4, <2>6, <2>8, <2>9
<1>2. CASE HasBlock(t)
  <2>1. PICK i, k : Parsed(t, i, k)
    BY <1>2, WellFormedParsed
  <2> DEFINE p == Before(t)
             a == After(t)
             r == SubSeq(t, k + 1, Len(t))
             s == IF a = <<>> THEN <<>> ELSE <<NL>> \o a
             u == p \o Snippet(body) \o s
  <2>2. p \in Seq(Plain) /\ a \in Seq(Plain) /\ r \in Seq(Plain) /\ a = LStrip(r) /\ First(t, Close) = k
    BY <2>1, AroundParsed, ParsedFirst
  <2>3. Spliced(t, body) = u
    BY <1>2 DEF Spliced
  <2>4. OthersWords(t) = Words(p) \o Words(r)
    BY <1>2, <2>2, OthersWordsIs
  <2> HIDE DEF p, a, r
  <2>5. LStrip(a) = a /\ Words(a) = Words(r)
    BY <2>2, <1>0, StripTwice, StripWords
  <2>6. s \in Seq(Plain) /\ LStrip(s) = a /\ Words(s) = Words(a)
    <3>1. CASE a = <<>>
      BY <3>1, <2>5, <1>0
    <3>2. CASE a # <<>>
      <4>1. s = <<NL>> \o a
        BY <3>2
      <4>2. <<NL>> \o a \in Seq(Plain)
        BY <2>2, <1>0
      <4>3. LStrip(<<NL>> \o a) = LStrip(a)
        BY <2>2, <1>0, LStripOver
      <4>4. Words(<<NL>> \o a) = Words(<<NL>>) \o Words(a) /\ Words(<<NL>>) = <<>>
        BY <2>2, <1>0, WordsConcat, NoWords
      <4>5. <<>> \o Words(a) = Words(a)
        BY <2>2, <1>0, WordsConcat
      <4> HIDE DEF s
      <4> QED BY <4>1, <4>2, <4>3, <4>4, <4>5, <2>5
    <3> QED BY <3>1, <3>2
  <2>7. PICK q : q = s
    OBVIOUS
  <2>8. /\ u \in Seq(Token) /\ WellFormed(u) /\ HasBlock(u) /\ Before(u) = p
        /\ After(u) = LStrip(s) /\ OthersWords(u) = Words(p) \o Words(s)
    <3> HIDE DEF s
    <3> QED BY <2>2, <2>6, BlockWords
  <2>9. Spliced(u, body) = u
    <3>1. Before(u) = p /\ After(u) = a /\ HasBlock(u)
      <4> HIDE DEF u, s
      <4> QED BY <2>6, <2>8
    <3>2. Spliced(u, body) = p \o Snippet(body) \o s
      <4> HIDE DEF u
      <4> QED BY <3>1 DEF Spliced
    <3> QED BY <3>2
  <2> HIDE DEF u, s
  <2> QED BY <2>3, <2>4, <2>5, <2>6, <2>8, <2>9
<1> QED BY <1>1, <1>2

(* An uninstall leaves no block, and all words. *)
LEMMA UnsplicedIs ==
    ASSUME NEW t \in Seq(Token), WellFormed(t), HasBlock(t)
    PROVE  LET u == Unspliced(t)
           IN  /\ u \in Seq(Token) /\ WellFormed(u) /\ ~HasBlock(u)
               /\ OthersWords(u) = OthersWords(t)
<1>0. /\ <<>> \in Seq(Plain) /\ <<NL>> \in Seq(Plain) /\ <<NL, NL>> \in Seq(Plain)
      /\ <<NL>> \in Newlines /\ <<NL, NL>> \in Newlines
      /\ <<NL>> \in Seq(Token) /\ <<NL, NL>> \in Seq(Token) /\ <<>> \in Seq(Token)
      /\ Plain \in SUBSET Token /\ \A s \in Seq(Plain) : s \in Seq(Token)
  BY TokenAssumption DEF Plain, Token, Newlines
<1>1. PICK i, k : Parsed(t, i, k)
  BY WellFormedParsed
<1> DEFINE b == Before(t)
           p == RStrip(b)
           a == After(t)
           r == SubSeq(t, k + 1, Len(t))
           u == Unspliced(t)
<1>2. b \in Seq(Plain) /\ a \in Seq(Plain) /\ r \in Seq(Plain) /\ a = LStrip(r) /\ First(t, Close) = k
  BY <1>1, AroundParsed, ParsedFirst
<1>3. u = IF p # <<>> /\ a # <<>> THEN p \o <<NL, NL>> \o a
          ELSE IF a # <<>> THEN a
          ELSE IF p # <<>> THEN p \o <<NL>>
          ELSE <<>>
  BY DEF Unspliced
<1>4. OthersWords(t) = Words(b) \o Words(r)
  BY <1>2, OthersWordsIs
<1> HIDE DEF b, a, r, u
<1>5. p \in Seq(Plain) /\ Words(p) = Words(b) /\ Words(a) = Words(r)
  BY <1>0, <1>2, StripTypes, StripWords
<1> HIDE DEF p
<1>6. /\ Words(<<>>) = <<>> /\ Words(<<NL>>) = <<>> /\ Words(<<NL, NL>>) = <<>>
      /\ Words(p) \o <<>> = Words(p) /\ <<>> \o Words(a) = Words(a)
      /\ p \in Seq(Token) /\ a \in Seq(Token)
  BY <1>0, <1>2, <1>5, NoWords, WordsConcat, FlatEmpty DEF Words
<1>7. u \in Seq(Plain) /\ Words(u) = Words(p) \o Words(a)
  <2>1. CASE p # <<>> /\ a # <<>>
    <3> DEFINE q == p \o <<NL, NL>>
    <3>1. q \in Seq(Plain) /\ q \in Seq(Token)
      BY <1>0, <1>5
    <3>2. Words(q) = Words(p) \o Words(<<NL, NL>>)
      BY <1>0, <1>6, WordsConcat
    <3>3. u = q \o a
      BY <1>3, <2>1
    <3> HIDE DEF q
    <3>4. Words(q \o a) = Words(q) \o Words(a)
      BY <3>1, <1>6, WordsConcat
    <3>5. q \o a \in Seq(Plain)
      BY <3>1, <1>2
    <3> QED BY <3>2, <3>3, <3>4, <3>5, <1>6
  <2>2. CASE a # <<>> /\ p = <<>>
    BY <1>2, <1>3, <1>6, <2>2
  <2>3. CASE p # <<>> /\ a = <<>>
    <3>1. u = p \o <<NL>>
      BY <1>3, <2>3
    <3>2. Words(p \o <<NL>>) = Words(p) \o Words(<<NL>>)
      BY <1>0, <1>6, WordsConcat
    <3>3. p \o <<NL>> \in Seq(Plain)
      BY <1>0, <1>5
    <3> QED BY <3>1, <3>2, <3>3, <1>6, <2>3
  <2>4. CASE p = <<>> /\ a = <<>>
    BY <1>0, <1>3, <1>6, <2>4
  <2> QED BY <2>1, <2>2, <2>3, <2>4
<1> QED BY <1>4, <1>5, <1>7, PlainText DEF u

(* The snippet that is written where there was no file. *)
LEMMA FreshSnippet ==
    ASSUME NEW body \in Body
    PROVE  LET u == Snippet(body)
           IN  /\ u \in Seq(Token) /\ WellFormed(u)
               /\ Spliced(u, body) = u
               /\ OthersWords(u) = <<>>
<1> DEFINE u == Snippet(body)
<1>0. <<>> \in Seq(Plain) /\ <<>> \in Seq({}) /\ {} \in SUBSET Token
  OBVIOUS
<1>1. u \in Seq(Token)
  BY DEF Snippet, Token
<1> HIDE DEF u
<1>2. <<>> \o u \o <<>> = u
  BY <1>1
<1>3. WellFormed(u) /\ HasBlock(u) /\ Before(u) = <<>> /\ After(u) = LStrip(<<>>)
      /\ OthersWords(u) = Words(<<>>) \o Words(<<>>)
  BY <1>0, <1>2, BlockWords DEF u
<1>4. LStrip(<<>>) = <<>>
  <2>1. LStrip(<<>>) \in Seq({})
    BY <1>0, StripTypes
  <2> QED BY <2>1
<1>5. Spliced(u, body) = u
  <2>1. Spliced(u, body) = <<>> \o u \o <<>>
    BY <1>3, <1>4 DEF Spliced, u
  <2> QED BY <2>1, <1>2
<1>6. OthersWords(u) = <<>>
  BY <1>3, FlatEmpty DEF Words
<1> QED BY <1>1, <1>3, <1>5, <1>6 DEF u

(* An uninstall takes away what an install added, but for newlines at the end. *)
LEMMA UnsplicedSpliced ==
    ASSUME NEW t \in Seq(Token), State(t) = "absent", NEW body \in Body
    PROVE  RStrip(Unspliced(Spliced(t, body))) = RStrip(t)
<1>0. /\ <<>> \in Seq(Plain) /\ <<NL, NL>> \in Seq(Plain) /\ <<>> \in Seq({}) /\ {} \in SUBSET Token
      /\ <<NL>> \in Newlines /\ <<NL, NL>> \in Newlines
      /\ Plain \in SUBSET Token /\ \A s \in Seq(Plain) : s \in Seq(Token)
  BY TokenAssumption DEF Plain, Token, Newlines
<1>1. ~HasBlock(t) /\ WellFormed(t)
  BY DEF State, HasBlock, WellFormed
<1>2. t \in Seq(Plain)
  BY <1>1, NoBlockPlain
<1> DEFINE b == RStrip(t)
           p == b \o <<NL, NL>>
           u == Spliced(t, body)
<1>3. b \in Seq(Plain)
  BY <1>0, <1>2, StripTypes
<1>4. RStrip(b) = b
  BY StripTwice
<1>5. u = p \o Snippet(body) \o <<>>
  <2>1. u = p \o Snippet(body)
    BY <1>1 DEF Spliced
  <2>2. p \in Seq(Token) /\ Snippet(body) \in Seq(Token)
    BY <1>0, <1>3 DEF Snippet, Token
  <2>3. p \o Snippet(body) \in Seq(Token)
    <3> HIDE DEF p
    <3> QED BY <2>2
  <2> HIDE DEF p, u
  <2> QED BY <2>1, <2>3
<1>6. p \in Seq(Plain) /\ RStrip(p) = b
  <2> HIDE DEF b
  <2>1. RStrip(b \o <<NL, NL>>) = RStrip(b)
    BY <1>0, <1>3, RStripOver
  <2>2. p \in Seq(Plain)
    BY <1>0, <1>3
  <2> QED BY <2>1, <2>2, <1>4
<1> HIDE DEF b, p, u
<1>7. Before(u) = p /\ After(u) = LStrip(<<>>)
  BY <1>0, <1>5, <1>6, BlockWords
<1>8. LStrip(<<>>) = <<>>
  <2>1. LStrip(<<>>) \in Seq({})
    BY <1>0, StripTypes
  <2> QED BY <2>1
<1>9. Unspliced(u) = IF b # <<>> THEN b \o <<NL>> ELSE <<>>
  BY <1>6, <1>7, <1>8 DEF Unspliced
<1>10. RStrip(b \o <<NL>>) = b
  BY <1>0, <1>3, <1>4, RStripOver
<1>11. RStrip(Unspliced(u)) = b
  BY <1>9, <1>10, <1>4
<1> QED BY <1>11 DEF b, u

-----------------------------------------------------------------------------
(* Preflight *)

(* PlanFor, of any release, content and slot. *)
PlanAs(v, r, k, c, s) ==
    IF k \notin r.kinds THEN NoChange
    ELSE IF k = "hooks" /\ r.verb = "install" THEN
         IF c = Absent THEN <<NewBlock(CommandOf[v])>>
         ELSE IF c = Unreadable THEN Refused
         ELSE IF UpToDate(c, CommandOf[v]) THEN NoChange
         ELSE IF s = Irregular THEN Refused
         ELSE Merge(c, CommandOf[v])
    ELSE IF k = "hooks" THEN
         IF c = Absent THEN NoChange
         ELSE IF c = Unreadable \/ s = Irregular THEN Refused
         ELSE IF Strip(c) = c THEN NoChange
         ELSE Strip(c)
    ELSE IF r.verb = "install" THEN
         IF c = Absent THEN Snippet(BodyOf[v])
         ELSE IF c = Unreadable \/ ~WellFormed(c) THEN Refused
         ELSE IF Spliced(c, BodyOf[v]) = c THEN NoChange
         ELSE Spliced(c, BodyOf[v])
    ELSE IF c = Absent THEN NoChange
         ELSE IF c = Unreadable \/ s = Irregular \/ ~WellFormed(c) THEN Refused
         ELSE IF ~HasBlock(c) THEN NoChange
         ELSE Unspliced(c)

LEMMA PlanForIs ==
    \A r, k : PlanFor(r, k) = PlanAs(running, r, k, file[k], slot[k])
BY Zenon DEF PlanFor, PlanAs, HookInstall, HookRemove, SnippetInstall, SnippetRemove, Usable

LEMMA Kinds ==
    /\ Kind \subseteq {"hooks", "agents"}
    /\ Readable("hooks") = Doc /\ Readable("agents") = Seq(Token)
    /\ \A k \in Kind : {Absent, Unreadable, Torn, Irregular, NoChange, Refused} \cap Readable(k) = {}
    /\ \A v \in Release : CommandOf[v] \in KitCommand /\ BodyOf[v] \in Body
BY KindAssumption DEF Readable

(* What is planned keeps what is the owner's, and is planned once: on the    *)
(* text it writes the same request has nothing to do.                       *)
LEMMA PlanSettles ==
    ASSUME NEW v \in Release, NEW r \in Request, NEW k \in Kind, NEW c \in Content(k),
           NEW s, NEW p, p = PlanAs(v, r, k, c, s), p # NoChange, p # Refused
    PROVE  /\ p \in Readable(k)
           /\ Others(k, p) = Others(k, c)
           /\ PlanAs(v, r, k, p, s) = NoChange
           /\ c = Absent \/ s # Irregular \/ (k = "agents" /\ r.verb = "install")
<1>0. /\ k \in r.kinds /\ r.verb \in {"install", "uninstall"} /\ k \in {"hooks", "agents"}
      /\ CommandOf[v] \in KitCommand /\ BodyOf[v] \in Body
  BY Kinds DEF PlanAs, Request, Verb
<1>1. CASE k = "hooks"
  <2>0. Content(k) = {Absent, Unreadable} \cup Doc /\ Absent \notin Doc /\ Unreadable \notin Doc
        /\ Readable(k) = Doc
    BY <1>1, Kinds DEF Content
  <2>1. \A d \in Doc : Others(k, d) = OthersHooks(d)
    BY <1>1, <2>0 DEF Others
  <2>2. CASE r.verb = "install"
    <3>1. CASE c = Absent
      <4>1. p = <<NewBlock(CommandOf[v])>>
        BY <1>0, <1>1, <2>2, <3>1 DEF PlanAs
      <4>2. p \in Doc /\ OwnedCommands(p) = {CommandOf[v]} /\ OthersHooks(p) = <<>>
        BY <1>0, <4>1, FreshHook
      <4>3. UpToDate(p, CommandOf[v])
        BY <4>2 DEF UpToDate
      <4>4. Others(k, c) = <<>>
        BY <3>1 DEF Others
      <4>5. PlanAs(v, r, k, p, s) = NoChange
        BY <1>0, <1>1, <2>0, <2>2, <4>2, <4>3 DEF PlanAs
      <4> QED BY <2>0, <2>1, <3>1, <4>2, <4>4, <4>5
    <3>2. CASE c # Absent
      <4>1. p = Merge(c, CommandOf[v]) /\ c # Unreadable /\ s # Irregular
        BY <1>0, <1>1, <2>2, <3>2 DEF PlanAs
      <4>2. c \in Doc
        BY <2>0, <3>2, <4>1
      <4>3. p \in Doc /\ OwnedCommands(p) = {CommandOf[v]} /\ OthersHooks(p) = OthersHooks(c)
        BY <1>0, <4>1, <4>2, MergeIs
      <4>4. UpToDate(p, CommandOf[v])
        BY <4>3 DEF UpToDate
      <4>5. PlanAs(v, r, k, p, s) = NoChange
        BY <1>0, <1>1, <2>0, <2>2, <4>3, <4>4 DEF PlanAs
      <4> QED BY <2>0, <2>1, <4>1, <4>2, <4>3, <4>5
    <3> QED BY <3>1, <3>2
  <2>3. CASE r.verb # "install"
    <3>1. p = Strip(c) /\ c # Absent /\ c # Unreadable /\ s # Irregular
      BY <1>0, <1>1, <2>3 DEF PlanAs
    <3>2. c \in Doc
      BY <2>0, <3>1
    <3>3. p \in Doc /\ Strip(p) = p /\ OthersHooks(p) = OthersHooks(c)
      BY <3>1, <3>2, StripIs, StripOnce, OthersStrip
    <3>4. PlanAs(v, r, k, p, s) = NoChange
      BY <1>0, <1>1, <2>0, <2>3, <3>1, <3>3 DEF PlanAs
    <3> QED BY <2>0, <2>1, <3>1, <3>2, <3>3, <3>4
  <2> QED BY <2>2, <2>3
<1>2. CASE k = "agents"
  <2>0. Content(k) = {Absent, Unreadable} \cup Seq(Token) /\ Absent \notin Seq(Token)
        /\ Unreadable \notin Seq(Token) /\ Readable(k) = Seq(Token)
    BY <1>2, Kinds DEF Content
  <2>1. \A t \in Seq(Token) : Others(k, t) = OthersWords(t)
    BY <1>2, <2>0 DEF Others
  <2>2. CASE r.verb = "install"
    <3>1. CASE c = Absent
      <4>1. p = Snippet(BodyOf[v])
        BY <1>0, <1>2, <2>2, <3>1 DEF PlanAs
      <4>2. p \in Seq(Token) /\ WellFormed(p) /\ Spliced(p, BodyOf[v]) = p /\ OthersWords(p) = <<>>
        BY <1>0, <4>1, FreshSnippet
      <4>3. Others(k, c) = <<>>
        BY <3>1 DEF Others
      <4>4. PlanAs(v, r, k, p, s) = NoChange
        BY <1>0, <1>2, <2>0, <2>2, <4>2 DEF PlanAs
      <4> QED BY <1>2, <2>0, <2>1, <3>1, <4>2, <4>3, <4>4
    <3>2. CASE c # Absent
      <4>1. p = Spliced(c, BodyOf[v]) /\ c # Unreadable /\ WellFormed(c)
        BY <1>0, <1>2, <2>2, <3>2 DEF PlanAs
      <4>2. c \in Seq(Token)
        BY <2>0, <3>2, <4>1
      <4>3. p \in Seq(Token) /\ WellFormed(p) /\ Spliced(p, BodyOf[v]) = p
            /\ OthersWords(p) = OthersWords(c)
        BY <1>0, <4>1, <4>2, SplicedIs
      <4>4. PlanAs(v, r, k, p, s) = NoChange
        BY <1>0, <1>2, <2>0, <2>2, <4>3 DEF PlanAs
      <4> QED BY <1>2, <2>0, <2>1, <2>2, <4>2, <4>3, <4>4
    <3> QED BY <3>1, <3>2
  <2>3. CASE r.verb # "install"
    <3>1. p = Unspliced(c) /\ c # Absent /\ c # Unreadable /\ s # Irregular
          /\ WellFormed(c) /\ HasBlock(c)
      BY <1>0, <1>2, <2>3 DEF PlanAs
    <3>2. c \in Seq(Token)
      BY <2>0, <3>1
    <3>3. p \in Seq(Token) /\ WellFormed(p) /\ ~HasBlock(p) /\ OthersWords(p) = OthersWords(c)
      BY <3>1, <3>2, UnsplicedIs
    <3>4. PlanAs(v, r, k, p, s) = NoChange
      BY <1>0, <1>2, <2>0, <2>3, <3>1, <3>3 DEF PlanAs
    <3> QED BY <2>0, <2>1, <3>1, <3>2, <3>3, <3>4
  <2> QED BY <2>2, <2>3
<1> QED BY <1>0, <1>1, <1>2

(* A slot that can be used makes no plan harder. *)
LEMMA UsableSlot ==
    ASSUME NEW v, NEW r, NEW k, NEW c, NEW s, NEW u,
           PlanAs(v, r, k, c, s) = NoChange, u # Irregular, NoChange # Refused
    PROVE  PlanAs(v, r, k, c, u) = NoChange
BY DEF PlanAs

-----------------------------------------------------------------------------
(* The commands *)

TypeOK ==
    /\ DOMAIN file = Kind /\ \A k \in Kind : file[k] \in Content(k)
    /\ DOMAIN slot = Kind /\ \A k \in Kind : slot[k] \in Content(k) \cup {Torn, Irregular}
    /\ DOMAIN plan = Kind /\ \A k \in Kind : plan[k] \in {NoChange} \cup Readable(k)
    /\ running \in Release
    /\ quiet \in BOOLEAN /\ (quiet => req \in Request)
    /\ phase \in {"idle", "consent", "apply"}
    /\ step \in {"start", "copying", "copied"}
    /\ outcome \in {"none", "ok", "refused", "declined", "error", "killed"}
    /\ faults \in Nat /\ edits \in Nat

(* While nobody disturbs a command, a file it has nothing to write to is as   *)
(* it wants it, and one it writes to will be; the writing is not stopped by  *)
(* a slot that no one can back up to, but for a snippet's.                   *)
Ahead(k) ==
    IF plan[k] = NoChange THEN PlanAs(running, req, k, file[k], slot[k]) = NoChange
    ELSE /\ PlanAs(running, req, k, plan[k], slot[k]) = NoChange
         /\ Others(k, plan[k]) = Others(k, file[k])
         /\ file[k] = Absent \/ slot[k] # Irregular \/ (k = "agents" /\ req.verb = "install")

OnCourse ==
    quiet => /\ phase # "idle" => \A k \in Kind : Ahead(k)
             /\ phase = "idle" /\ outcome = "ok" =>
                   \A k \in Kind : PlanAs(running, req, k, file[k], slot[k]) = NoChange

(* A write is under way only while a command writes, and its copy is whole    *)
(* once it says so.                                                         *)
Stepping == phase # "apply" => step = "start"

LEMMA TypeInit == Init => TypeOK
<1> SUFFICES ASSUME Init PROVE TypeOK
  OBVIOUS
<1>1. DOMAIN file = Kind /\ \A k \in Kind : file[k] \in Content(k)
  BY KindAssumption DEF Init
<1>2. DOMAIN slot = Kind /\ \A k \in Kind : slot[k] \in Content(k) \cup {Torn, Irregular}
  BY KindAssumption DEF Init
<1>3. DOMAIN plan = Kind /\ \A k \in Kind : plan[k] \in {NoChange} \cup Readable(k)
  BY DEF Init, NothingPlanned
<1> QED BY <1>1, <1>2, <1>3 DEF Init, TypeOK

(* What an admitted request plans. *)
LEMMA AdmittedPlan ==
    ASSUME TypeOK, NEW r \in Request, Admitted(r), NEW k \in Kind
    PROVE  LET p == PlanFor(r, k)
           IN  /\ p \in {NoChange} \cup Readable(k)
               /\ p = PlanAs(running, r, k, file[k], slot[k])
               /\ p # NoChange =>
                     /\ PlanAs(running, r, k, p, slot[k]) = NoChange
                     /\ Others(k, p) = Others(k, file[k])
                     /\ file[k] = Absent \/ slot[k] # Irregular
                          \/ (k = "agents" /\ r.verb = "install")
<1>1. PICK p : p = PlanFor(r, k)
  OBVIOUS
<1>2. p = PlanAs(running, r, k, file[k], slot[k]) /\ p # Refused
  BY <1>1, PlanForIs DEF Admitted
<1>3. file[k] \in Content(k) /\ running \in Release
  BY DEF TypeOK
<1>4. CASE p = NoChange
  BY <1>1, <1>2, <1>4
<1>5. CASE p # NoChange
  BY <1>1, <1>2, <1>3, <1>5, PlanSettles
<1> QED BY <1>4, <1>5

LEMMA TypeStep == TypeOK /\ [Next]_vars => TypeOK'
<1> SUFFICES ASSUME TypeOK, [Next]_vars PROVE TypeOK'
  OBVIOUS
<1>1. ASSUME NEW r \in Requests, Refuse(r) PROVE TypeOK'
  BY <1>1, KindAssumption DEF TypeOK, Refuse, content
<1>2. ASSUME NEW r \in Requests, NEW ask \in BOOLEAN, Accept(r, ask) PROVE TypeOK'
  <2>1. r \in Request /\ Admitted(r)
    BY <1>2, KindAssumption DEF Accept
  <2>2. \A k \in Kind : PlanFor(r, k) \in {NoChange} \cup Readable(k)
    BY <2>1, AdmittedPlan
  <2>3. plan' = [k \in Kind |-> PlanFor(r, k)]
    BY <1>2 DEF Accept
  <2>4. DOMAIN plan' = Kind /\ \A k \in Kind : plan'[k] \in {NoChange} \cup Readable(k)
    BY <2>2, <2>3
  <2>5. phase' \in {"idle", "consent", "apply"}
    BY <1>2 DEF Accept
  <2> QED BY <1>2, <2>1, <2>4, <2>5 DEF TypeOK, Accept, content
<1>3. CASE Approve
  BY <1>3 DEF TypeOK, Approve, content
<1>4. CASE Decline
  BY <1>4 DEF TypeOK, Decline, End, NothingPlanned, content
<1>5. CASE Finish
  BY <1>5 DEF TypeOK, Finish, End, NothingPlanned, content
<1>6. ASSUME NEW k \in Kind, CopyOpens(k) PROVE TypeOK'
  BY <1>6 DEF TypeOK, CopyOpens
<1>7. ASSUME NEW k \in Kind, CopyFills(k) PROVE TypeOK'
  BY <1>7 DEF TypeOK, CopyFills
<1>8. ASSUME NEW k \in Kind, Replace(k) PROVE TypeOK'
  <2>1. plan[k] \in Content(k)
    BY <1>8 DEF TypeOK, Replace, Writing, Content
  <2> QED BY <1>8, <2>1 DEF TypeOK, Replace
<1>9. ASSUME NEW k \in Kind, Abort(k) PROVE TypeOK'
  BY <1>9 DEF TypeOK, Abort, Fault, End, NothingPlanned, content
<1>10. CASE Kill
  BY <1>10 DEF TypeOK, Kill, Fault, End, NothingPlanned, content
<1>a. ASSUME Change
      PROVE  /\ UNCHANGED <<req, phase, plan, step, outcome, faults>>
             /\ quiet' \in BOOLEAN /\ ~quiet' /\ edits' \in Nat
  <2>1. UNCHANGED <<req, phase, plan, step, outcome, faults>> /\ edits' \in Nat
    BY <1>a DEF Change, TypeOK
  <2>2. quiet' = FALSE
    BY <1>a DEF Change
  <2>3. quiet' \in BOOLEAN /\ ~quiet'
    BY <2>2, Zenon
  <2> QED BY <2>1, <2>3
<1>11. ASSUME NEW k \in Kind, UserEdit(k) PROVE TypeOK'
  <2>1. PICK c \in Content(k) : file' = [file EXCEPT ![k] = c]
    BY <1>11, KindAssumption DEF UserEdit
  <2>2. Change /\ UNCHANGED <<slot, running>>
    BY <1>11 DEF UserEdit
  <2> QED BY <1>a, <2>1, <2>2 DEF TypeOK
<1>12. ASSUME NEW k \in Kind, UserSlot(k) PROVE TypeOK'
  <2>1. PICK c \in Content(k) \cup {Torn, Irregular} : slot' = [slot EXCEPT ![k] = c]
    BY <1>12, KindAssumption DEF UserSlot
  <2>2. Change /\ UNCHANGED <<file, running>>
    BY <1>12 DEF UserSlot
  <2> QED BY <1>a, <2>1, <2>2 DEF TypeOK
<1>13. CASE SwitchRelease
  <2>1. Change /\ running' \in Release /\ UNCHANGED <<file, slot>>
    BY <1>13 DEF SwitchRelease, content
  <2> QED BY <1>a, <2>1 DEF TypeOK
<1>14. CASE UNCHANGED vars
  BY <1>14 DEF TypeOK, vars, content
<1> QED BY <1>1, <1>2, <1>3, <1>4, <1>5, <1>6, <1>7, <1>8, <1>9, <1>10, <1>11, <1>12, <1>13, <1>14
        DEF Next, Start, Write

(* Every value of the variables has its type. *)
THEOREM Types == Spec => []TypeOK
BY TypeInit, TypeStep, PTL DEF Spec

LEMMA CourseStep == TypeOK /\ OnCourse /\ [Next]_vars => OnCourse'
<1> SUFFICES ASSUME TypeOK, OnCourse, [Next]_vars PROVE OnCourse'
  OBVIOUS
<1>0. NoChange # Refused /\ Irregular # Torn /\ \A k \in Kind : Irregular \notin Content(k)
  BY KindAssumption DEF Content
<1>1. ASSUME NEW r \in Requests, Refuse(r) PROVE OnCourse'
  BY <1>1 DEF OnCourse, Refuse
<1>2. ASSUME NEW r \in Requests, NEW ask \in BOOLEAN, Accept(r, ask) PROVE OnCourse'
  <2>1. r \in Request /\ Admitted(r) /\ req' = r /\ running' = running /\ file' = file /\ slot' = slot
        /\ plan' = [k \in Kind |-> PlanFor(r, k)] /\ phase' # "idle"
    BY <1>2, KindAssumption DEF Accept, content
  <2>2. ASSUME NEW k \in Kind PROVE Ahead(k)'
    <3>1. PICK p : p = PlanFor(r, k)
      OBVIOUS
    <3>2. plan'[k] = p
      BY <2>1, <3>1
    <3>3. /\ p = PlanAs(running, r, k, file[k], slot[k])
          /\ p # NoChange =>
                /\ PlanAs(running, r, k, p, slot[k]) = NoChange
                /\ Others(k, p) = Others(k, file[k])
                /\ file[k] = Absent \/ slot[k] # Irregular \/ (k = "agents" /\ r.verb = "install")
      BY <2>1, <3>1, AdmittedPlan
    <3> QED BY <2>1, <3>2, <3>3 DEF Ahead
  <2> QED BY <2>1, <2>2 DEF OnCourse
<1>3. CASE Approve
  BY <1>3 DEF OnCourse, Ahead, Approve, content
<1>4. CASE Decline
  BY <1>4 DEF OnCourse, Decline, End
<1>5. CASE Finish
  <2>1. \A k \in Kind : plan[k] = NoChange
    BY <1>5 DEF Finish, NothingPlanned
  <2> QED BY <1>5, <2>1 DEF OnCourse, Ahead, Finish, End, content
<1>6. ASSUME NEW k \in Kind, CopyOpens(k) PROVE OnCourse'
  <2> SUFFICES ASSUME quiet' PROVE OnCourse'
    BY DEF OnCourse
  <2>1. /\ quiet /\ phase = "apply" /\ phase' = "apply" /\ plan[k] # NoChange
        /\ file' = file /\ plan' = plan /\ req' = req /\ running' = running
        /\ slot' = [slot EXCEPT ![k] = Torn]
    BY <1>6 DEF CopyOpens, Writing
  <2>2. slot'[k] # Irregular /\ \A j \in Kind : j # k => slot'[j] = slot[j]
    BY <1>0, <2>1 DEF TypeOK
  <2>3. ASSUME NEW j \in Kind PROVE Ahead(j)'
    <3>1. Ahead(j)
      BY <2>1 DEF OnCourse
    <3>2. CASE j # k
      BY <2>1, <2>2, <3>1, <3>2 DEF Ahead
    <3>3. CASE j = k
      <4>1. PlanAs(running, req, k, plan[k], slot[k]) = NoChange
        BY <2>1, <3>1, <3>3 DEF Ahead
      <4>2. PICK u : u = slot'[k]
        OBVIOUS
      <4>3. PlanAs(running, req, k, plan[k], u) = NoChange
        BY <1>0, <2>2, <4>1, <4>2, UsableSlot
      <4> QED BY <2>1, <2>2, <3>1, <3>3, <4>2, <4>3 DEF Ahead
    <3> QED BY <3>2, <3>3
  <2> QED BY <2>1, <2>3 DEF OnCourse
<1>7. ASSUME NEW k \in Kind, CopyFills(k) PROVE OnCourse'
  <2> SUFFICES ASSUME quiet' PROVE OnCourse'
    BY DEF OnCourse
  <2>1. /\ quiet /\ phase = "apply" /\ phase' = "apply" /\ plan[k] # NoChange
        /\ file' = file /\ plan' = plan /\ req' = req /\ running' = running
        /\ slot' = [slot EXCEPT ![k] = file[k]]
    BY <1>7 DEF CopyFills, Writing
  <2>2. slot'[k] # Irregular /\ \A j \in Kind : j # k => slot'[j] = slot[j]
    BY <1>0, <2>1 DEF TypeOK
  <2>3. ASSUME NEW j \in Kind PROVE Ahead(j)'
    <3>1. Ahead(j)
      BY <2>1 DEF OnCourse
    <3>2. CASE j # k
      BY <2>1, <2>2, <3>1, <3>2 DEF Ahead
    <3>3. CASE j = k
      <4>1. PlanAs(running, req, k, plan[k], slot[k]) = NoChange
        BY <2>1, <3>1, <3>3 DEF Ahead
      <4>2. PICK u : u = slot'[k]
        OBVIOUS
      <4>3. PlanAs(running, req, k, plan[k], u) = NoChange
        BY <1>0, <2>2, <4>1, <4>2, UsableSlot
      <4> QED BY <2>1, <2>2, <3>1, <3>3, <4>2, <4>3 DEF Ahead
    <3> QED BY <3>2, <3>3
  <2> QED BY <2>1, <2>3 DEF OnCourse
<1>8. ASSUME NEW k \in Kind, Replace(k) PROVE OnCourse'
  <2> SUFFICES ASSUME quiet' PROVE OnCourse'
    BY DEF OnCourse
  <2>1. /\ quiet /\ phase = "apply" /\ phase' = "apply" /\ plan[k] # NoChange
        /\ slot' = slot /\ req' = req /\ running' = running
        /\ file' = [file EXCEPT ![k] = plan[k]] /\ plan' = [plan EXCEPT ![k] = NoChange]
    BY <1>8 DEF Replace, Writing
  <2>2. /\ file'[k] = plan[k] /\ plan'[k] = NoChange
        /\ \A j \in Kind : j # k => file'[j] = file[j] /\ plan'[j] = plan[j]
    BY <2>1 DEF TypeOK
  <2>3. ASSUME NEW j \in Kind PROVE Ahead(j)'
    <3>1. Ahead(j)
      BY <2>1 DEF OnCourse
    <3> QED BY <2>1, <2>2, <3>1 DEF Ahead
  <2> QED BY <2>1, <2>3 DEF OnCourse
<1>9. ASSUME NEW k \in Kind, Abort(k) PROVE OnCourse'
  BY <1>9 DEF OnCourse, Abort, End
<1>10. CASE Kill
  BY <1>10 DEF OnCourse, Kill, End
<1>11. ASSUME NEW k \in Kind, UserEdit(k) PROVE OnCourse'
  BY <1>11 DEF OnCourse, UserEdit, Change
<1>12. ASSUME NEW k \in Kind, UserSlot(k) PROVE OnCourse'
  BY <1>12 DEF OnCourse, UserSlot, Change
<1>13. CASE SwitchRelease
  BY <1>13 DEF OnCourse, SwitchRelease, Change
<1>14. CASE UNCHANGED vars
  BY <1>14 DEF OnCourse, Ahead, vars, content
<1> QED BY <1>1, <1>2, <1>3, <1>4, <1>5, <1>6, <1>7, <1>8, <1>9, <1>10, <1>11, <1>12, <1>13, <1>14
        DEF Next, Start, Write

(* After a command that ended well the same command has nothing to write:    *)
(* plan_codex_hook, plan_agentsmd and their removals (lifecycle.py) find on   *)
(* a text of any length, merged or spliced into whatever order, that it is   *)
(* as they would write it.                                                  *)
THEOREM SecondRun == Spec => []SecondRunWritesNothing
<1>1. Init => OnCourse
  BY DEF Init, OnCourse
<1>2. OnCourse => SecondRunWritesNothing
  BY PlanForIs DEF OnCourse, SecondRunWritesNothing, Untouched
<1> QED BY <1>1, <1>2, Types, CourseStep, PTL DEF Spec

(* Whatever the order of commands, releases and failures, a step that nobody *)
(* but semlf takes keeps the user's hooks and words, all of them, in order.  *)
THEOREM TheOwnersSurvive == Spec => OthersSurvive
<1>1. Init => OnCourse
  BY DEF Init, OnCourse
<1>2. ASSUME TypeOK, OnCourse, [Next]_vars, quiet', NEW k \in Kind
      PROVE  Others(k, file'[k]) = Others(k, file[k])
  <2>1. CASE file' = file
    BY <2>1
  <2>2. ASSUME NEW j \in Kind, Replace(j) PROVE Others(k, file'[k]) = Others(k, file[k])
    <3>1. quiet /\ phase = "apply" /\ plan[j] # NoChange /\ file' = [file EXCEPT ![j] = plan[j]]
      BY <1>2, <2>2 DEF Replace, Writing
    <3>2. Others(j, plan[j]) = Others(j, file[j])
      BY <1>2, <3>1 DEF OnCourse, Ahead
    <3>3. file'[k] = IF k = j THEN plan[j] ELSE file[k]
      BY <1>2, <3>1 DEF TypeOK
    <3> QED BY <3>2, <3>3
  <2>3. ASSUME NEW j \in Kind, UserEdit(j) PROVE FALSE
    BY <1>2, <2>3 DEF UserEdit, Change
  <2>4. file' = file \/ \E j \in Kind : Replace(j) \/ UserEdit(j)
    BY <1>2 DEF Next, Start, Write, Refuse, Accept, Approve, Decline, Finish, CopyOpens, CopyFills,
                Abort, Kill, UserSlot, SwitchRelease, content, vars
  <2> QED BY <2>1, <2>2, <2>3, <2>4
<1>3. TypeOK /\ OnCourse /\ [Next]_vars
        => [quiet' => \A k \in Kind : Others(k, file'[k]) = Others(k, file[k])]_vars
  BY <1>2
<1> QED BY <1>1, <1>3, Types, CourseStep, PTL DEF Spec, OthersSurvive

(* What an install added to either file, the uninstall takes away again, for *)
(* a document or a text of any length (plan_remove_codex_hook after          *)
(* plan_codex_hook, plan_remove_agentsmd after plan_agentsmd).              *)
THEOREM UninstallIsTheInverse == Spec => []UninstallUndoesInstall
<1>1. TypeOK => UninstallUndoesInstall
  <2> SUFFICES ASSUME TypeOK, NEW k \in Kind, file[k] \notin {Absent, Unreadable}
               PROVE  /\ k = "hooks" =>
                            (OwnedCommands(file[k]) = {} =>
                                Strip(Merge(file[k], CommandOf[running])) = file[k])
                      /\ k = "agents" =>
                            (State(file[k]) = "absent" =>
                                RStrip(Unspliced(Spliced(file[k], BodyOf[running]))) = RStrip(file[k]))
    BY DEF UninstallUndoesInstall
  <2>1. /\ file[k] \in Readable(k)
        /\ CommandOf[running] \in KitCommand /\ BodyOf[running] \in Body
    BY Kinds DEF TypeOK, Content
  <2>2. CASE k = "hooks"
    BY <2>1, <2>2, Kinds, StripMerge
  <2>3. CASE k = "agents"
    BY <2>1, <2>3, Kinds, UnsplicedSpliced
  <2>4. k \in {"hooks", "agents"}
    BY Kinds
  <2> QED BY <2>2, <2>3, <2>4
<1> QED BY <1>1, Types, PTL

(* A command the preflight admitted fails only when a step of it fails by     *)
(* itself, whatever is in the two files and their slots, but for one slot:   *)
(* the one plan_agentsmd does not look at, where something that is no        *)
(* regular file stops the snippet that was to be written over a file.        *)
THEOREM AdmittedCommandsRun == Spec => PreflightMissesOneSlot
<1> DEFINE Working == phase # "idle" => outcome = "ok"
<1>1. Init => OnCourse /\ Working
  BY DEF Init, OnCourse
<1>2. Working /\ [Next]_vars => Working'
  BY DEF Next, Start, Write, Refuse, Accept, Approve, Decline, Finish, CopyOpens, CopyFills, Replace,
         Abort, Kill, UserEdit, UserSlot, SwitchRelease, Change, End, Writing, vars
<1>3. TypeOK /\ OnCourse /\ Working /\ [Next]_vars
        => [phase = "apply" /\ quiet /\ outcome' = "error" => faults' > faults \/ UnseenSlot]_vars
  <2> SUFFICES ASSUME TypeOK, OnCourse, Working, [Next]_vars, vars' # vars,
                      phase = "apply", quiet, outcome' = "error"
               PROVE  faults' > faults \/ UnseenSlot
    OBVIOUS
  <2>1. ASSUME NEW k \in Kind, Abort(k) PROVE faults' > faults \/ UnseenSlot
    <3>1. Writing(k) /\ plan[k] # NoChange /\ Ahead(k)
      BY <2>1 DEF Abort, Writing, OnCourse
    <3>2. CASE file[k] = Absent \/ slot[k] # Irregular
      BY <2>1, <3>2 DEF Abort, Fault, Usable, TypeOK
    <3>3. CASE file[k] # Absent /\ slot[k] = Irregular
      <4>1. k = "agents" /\ req.verb = "install"
        BY <3>1, <3>3 DEF Ahead
      <4> QED BY <3>1, <3>3, <4>1 DEF UnseenSlot, Usable
    <3> QED BY <3>2, <3>3
  <2>2. outcome # "error"
    OBVIOUS
  <2>3. \E k \in Kind : Abort(k)
    BY <2>2 DEF Next, Start, Write, Refuse, Accept, Approve, Decline, Finish, CopyOpens, CopyFills,
           Replace, Kill, UserEdit, UserSlot, SwitchRelease, Change, End, vars
  <2> QED BY <2>1, <2>3
<1> QED BY <1>1, <1>2, <1>3, Types, CourseStep, PTL DEF Spec, PreflightMissesOneSlot

(* What a write replaces is in the backup first (publish_shared copies, then  *)
(* renames), when nobody writes to the file while a command does.           *)
THEOREM TheReplacedIsSaved ==
    ASSUME "apply" \notin EditPhases
    PROVE  Spec => ReplacedIsSaved
<1> DEFINE Saved == \A k \in Kind : Writing(k) /\ step = "copied" => slot[k] = file[k]
<1>1. Init => Stepping /\ Saved
  BY DEF Init, Stepping
<1>2. Stepping /\ [Next]_vars => Stepping'
  BY DEF Stepping, Next, Start, Write, Refuse, Accept, Approve, Decline, Finish, CopyOpens, CopyFills,
         Replace, Abort, Kill, UserEdit, UserSlot, SwitchRelease, Change, End, Writing, content, vars
<1>3. TypeOK /\ Stepping /\ Saved /\ [Next]_vars => Saved'
  <2> SUFFICES ASSUME TypeOK, Stepping, Saved, [Next]_vars, step' = "copied",
                      NEW k \in Kind, Writing(k)'
               PROVE  slot'[k] = file'[k]
    OBVIOUS
  <2>1. ASSUME NEW j \in Kind, CopyFills(j) PROVE slot'[k] = file'[k]
    <3>1. Writing(j) /\ plan' = plan /\ phase' = phase
      BY <2>1 DEF CopyFills
    <3>2. k = j
      <4>1. k \in {"hooks", "agents"} /\ j \in {"hooks", "agents"}
        BY Kinds
      <4> QED BY <3>1, <4>1 DEF Writing
    <3> QED BY <2>1, <3>2 DEF CopyFills, TypeOK
  <2>2. CASE step = "copied" /\ UNCHANGED <<file, slot, plan, phase>>
    BY <2>2 DEF Writing
  <2>3. (step = "copied" /\ UNCHANGED <<file, slot, plan, phase>>) \/ \E j \in Kind : CopyFills(j)
    <3>1. phase' = "apply"
      BY DEF Writing
    <3> QED BY <3>1 DEF Stepping, Next, Start, Write, Refuse, Accept, Approve, Decline, Finish, CopyOpens,
           Replace, Abort, Kill, UserEdit, UserSlot, SwitchRelease, Change, End, content, vars
  <2> QED BY <2>1, <2>2, <2>3
<1>4. TypeOK /\ Saved /\ [Next]_vars
        => [\A k \in Kind : phase = "apply" /\ file'[k] # file[k] /\ file[k] # Absent
               => slot[k] = file[k]]_vars
  <2> SUFFICES ASSUME TypeOK, Saved, [Next]_vars, NEW k \in Kind, phase = "apply",
                      file'[k] # file[k], file[k] # Absent
               PROVE  slot[k] = file[k]
    OBVIOUS
  <2>1. ASSUME NEW j \in Kind, Replace(j) PROVE slot[k] = file[k]
    <3>1. j = k
      BY <2>1 DEF Replace, TypeOK
    <3> QED BY <2>1, <3>1 DEF Replace
  <2>2. ASSUME NEW j \in Kind, UserEdit(j) PROVE FALSE
    BY <2>2 DEF UserEdit, Change
  <2>3. \E j \in Kind : Replace(j) \/ UserEdit(j)
    BY DEF Next, Start, Write, Refuse, Accept, Approve, Decline, Finish, CopyOpens, CopyFills,
           Abort, Kill, UserSlot, SwitchRelease, content, vars
  <2> QED BY <2>1, <2>2, <2>3
<1> QED BY <1>1, <1>2, <1>3, <1>4, Types, PTL DEF Spec, ReplacedIsSaved

=============================================================================
