------------------------------- MODULE LineDiff -------------------------------
(***************************************************************************)
(* _changed_spans (cli/semlf/providers.py): the lines of a text that a      *)
(* change owns, from the diff of Python's difflib between the text before   *)
(* and the text after.  A text is a sequence of lines and a span a pair of  *)
(* boundaries between lines, 0 before the first one.                        *)
(***************************************************************************)
EXTENDS Integers, Sequences, FiniteSets

Block(i, j, k) == [a |-> i, b |-> j, size |-> k]

(* find_longest_match: the longest block of equal lines inside the bounds,  *)
(* and of several the one that starts first in the old text, then in the    *)
(* new one.                                                                 *)
Matches(old, new, alo, ahi, blo, bhi) ==
    {m \in {Block(i, j, k) : i \in alo..ahi, j \in blo..bhi, k \in 1..ahi} :
        /\ m.a + m.size - 1 <= ahi /\ m.b + m.size - 1 <= bhi
        /\ \A d \in 0..m.size - 1 : old[m.a + d] = new[m.b + d]}

LongestMatch(matches) ==
    CHOOSE m \in matches :
        \A n \in matches :
            \/ n.size < m.size
            \/ n.size = m.size /\ m.a < n.a
            \/ n.size = m.size /\ m.a = n.a /\ m.b <= n.b

(* get_matching_blocks: the longest match, and the blocks on both sides.     *)
Bound(old, new) == [alo : 1..Len(old) + 1, ahi : 0..Len(old),
                    blo : 1..Len(new) + 1, bhi : 0..Len(new)]

MatchingBlocks(old, new) ==
    LET Blocks[b \in Bound(old, new)] ==
            LET matches == Matches(old, new, b.alo, b.ahi, b.blo, b.bhi)
                m == LongestMatch(matches)
            IN  IF matches = {} THEN <<>>
                ELSE Blocks[[b EXCEPT !.ahi = m.a - 1, !.bhi = m.b - 1]]
                     \o <<m>>
                     \o Blocks[[b EXCEPT !.alo = m.a + m.size, !.blo = m.b + m.size]]
    IN  Blocks[[alo |-> 1, ahi |-> Len(old), blo |-> 1, bhi |-> Len(new)]]

(* The blocks between one before the texts and one behind them.              *)
Fence(old, new) == <<Block(1, 1, 0)>> \o MatchingBlocks(old, new)
                   \o <<Block(Len(old) + 1, Len(new) + 1, 0)>>

(* What lies between two of them: the stretches that are not equal.          *)
Stretches(old, new) ==
    LET fence == Fence(old, new)
    IN  {[a |-> fence[n].a + fence[n].size, aend |-> fence[n + 1].a,
          b |-> fence[n].b + fence[n].size, bend |-> fence[n + 1].b] :
            n \in 1..Len(fence) - 1}

(* A bug: a change that only deletes owns nothing. *)
AddedOnly(old, new) ==
    {[start |-> s.b - 1, end |-> s.bend - 1] :
        s \in {s \in Stretches(old, new) : s.b < s.bend}}

(* Every stretch is a change: it owns what is new in it, and where it only   *)
(* deletes, the boundary that is left.                                      *)
ChangedSpans(old, new) ==
    {[start |-> s.b - 1, end |-> s.bend - 1] :
        s \in {s \in Stretches(old, new) : s.a < s.aend \/ s.b < s.bend}}

-----------------------------------------------------------------------------
(* The reference *)

(* Line j of the new text is in a span; a span stands at the boundary j.     *)
Owned(spans, j) == \E s \in spans : s.start < j /\ j <= s.end
AtBoundary(spans, j) == \E s \in spans : s.start <= j /\ j <= s.end

Increasing(f) == \A x, y \in DOMAIN f : x < y => f[x] < f[y]

(* The spans account for the whole change and for nothing else: every line  *)
(* outside them is an old line, in the old order (from says which), and     *)
(* wherever an old line is missing a span stands at the gap.                *)
AccountFor(spans, old, new) ==
    LET kept == {j \in DOMAIN new : ~Owned(spans, j)}
    IN  /\ \A s \in spans : 0 <= s.start /\ s.start <= s.end /\ s.end <= Len(new)
        /\ \E from \in [kept -> DOMAIN old] :
              /\ Increasing(from)
              /\ \A j \in kept : old[from[j]] = new[j]
              /\ \A i \in DOMAIN old \ {from[j] : j \in kept} :
                    \E j \in 0..Len(new) :
                        /\ \A q \in kept : from[q] < i <=> q <= j
                        /\ AtBoundary(spans, j)
        /\ old = new => spans = {}

=============================================================================
