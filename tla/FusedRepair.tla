----------------------------- MODULE FusedRepair -----------------------------
(***************************************************************************)
(* The repair the detector suggests for two sentences on one line           *)
(* (_fused_withholding, _fused_suggestion), and an agent that carries out   *)
(* what a report suggests and is judged again.  A suggestion names lines of *)
(* the text the report is about; an agent that follows several of one       *)
(* report, last one first, must arrive where one that follows them one by   *)
(* one arrives.                                                             *)
(***************************************************************************)
EXTENDS Judgment

CONSTANT Texts       \* what the agent has written

VARIABLE text

(* The line below, where the sentence of line i goes on in it.  A hushed    *)
(* wrap is a break the user wants: then the repair stays on its line.       *)
Continues(t, i) == WrapPaired(t, i) /\ "wrap" \notin Hushed(t, i)

(* What withholds the repair on the upper line: it opens in the middle of a *)
(* sentence, nothing takes up its open end, it has several boundaries, a    *)
(* leader that must not be repeated, or a directive.                        *)
WithheldAbove(t, i) ==
    \/ t[i].words[1].opens # "Cap"
    \/ ~Continues(t, i) /\ ~EndsWell(t[i].words) /\ "wrap" \notin Hushed(t, i)
    \/ Cardinality(Boundaries(t[i].words)) > 1
    \/ t[i].leader \notin Repeatable
    \/ t[i].carrier # NoCarrier

(* The below_ classes: the line that would be joined has a boundary of its  *)
(* own, does not end the sentence, has another leader, or a directive.      *)
WithheldBelow(t, i) ==
    LET below == t[i + 1]
    IN  \/ Boundaries(below.words) # {}
        \/ Last(below.words).ends # "."
        \/ below.leader # t[i].leader
        \/ below.carrier # NoCarrier

(* The lines that get a suggestion, of those that get a finding.            *)
Repairable(t) ==
    {i \in {f.line : f \in {g \in Findings(t) : g.kind = "fused"}} :
        /\ ~WithheldAbove(t, i)
        /\ Continues(t, i) => ~WithheldBelow(t, i)}

(* A bug: the sentence is cut off where the line ends. *)
SuggestedOneLine(t, i) ==
    LET line == t[i]
        cut == CHOOSE k \in Boundaries(line.words) : TRUE
    IN  [lines |-> <<[line EXCEPT !.words = SubSeq(@, 1, cut)],
                     [line EXCEPT !.words = SubSeq(@, cut + 1, Len(@))]>>,
         replaces |-> 1]

(* A bug: the lower line is joined and not counted as replaced. *)
SuggestedTwice(t, i) ==
    LET line == t[i]
        cut == CHOOSE k \in Boundaries(line.words) : TRUE
        rest == SubSeq(line.words, cut + 1, Len(line.words))
    IN  [lines |-> <<[line EXCEPT !.words = SubSeq(@, 1, cut)],
                     [line EXCEPT !.words = IF Continues(t, i)
                                            THEN rest \o t[i + 1].words ELSE rest]>>,
         replaces |-> 1]

(* Split at the boundary; where the sentence goes on below, rejoin it       *)
(* first, which makes two lines out of two.                                 *)
Suggested(t, i) ==
    LET line == t[i]
        cut == CHOOSE k \in Boundaries(line.words) : TRUE
        rest == SubSeq(line.words, cut + 1, Len(line.words))
        joined == IF Continues(t, i) THEN rest \o t[i + 1].words ELSE rest
    IN  [lines |-> <<[line EXCEPT !.words = SubSeq(@, 1, cut)],
                     [line EXCEPT !.words = joined]>>,
         replaces |-> IF Continues(t, i) THEN 2 ELSE 1]

(* Suggestions of the text was, spliced into t at their line. *)
Splice(t, i, suggestion) ==
    SubSeq(t, 1, i - 1) \o suggestion.lines
        \o SubSeq(t, i + suggestion.replaces, Len(t))

(* The report on t followed at the lines of S, the last one first, so that  *)
(* the line numbers of the others keep their meaning.                       *)
Follow(t, S) ==
    FoldLeft(LAMBDA now, i : Splice(now, i, Suggested(t, i)),
             t, SetToSortSeq(S, >))

Init == text \in Texts

Repair(S) == text' = Follow(text, S)

Next == \E S \in SUBSET Repairable(text) \ {{}} : Repair(S)

Spec == Init /\ [][Next]_text

-----------------------------------------------------------------------------
(* Properties *)

(* Where line l of the old text is once the report was followed at S.       *)
Moved(l, S) ==
    l + Cardinality({i \in S : i < l /\ Suggested(text, i).replaces = 1})

(* Following a report changes no word and nothing outside the prose: what   *)
(* `semlf reflow` is asked to verify about the result is true.              *)
RepairKeepsWords == [][ProseReflow(text, text')]_text

(* Following a report settles the findings it was followed for, with the    *)
(* wrap a repair has rejoined, and nothing else: every other finding is     *)
(* there still, a line further down where lines were added, and a new one   *)
(* comes up only where a repair moved an ending away from the directive     *)
(* that hushed it, and the model is not shown that one: what a hook shows   *)
(* it shrinks with every repair, by exactly what was repaired.              *)
RepairIsLocal ==
    [][\A S \in SUBSET Repairable(text) :
          S # {} /\ text' = Follow(text, S) =>
            LET stay == {[f EXCEPT !.line = Moved(@, S)] :
                            f \in {g \in Findings(text) : g.line \notin S}}
                bared == {[kind |-> "wrap", line |-> Moved(i, S) + 1, at |-> 0] :
                             i \in {j \in S : "wrap" \in Hushed(text, j)}}
            IN  /\ stay \subseteq Findings(text')
                /\ Findings(text') \subseteq stay \cup bared
                /\ Visible(text') =
                      {[f EXCEPT !.line = Moved(@, S)] :
                          f \in {g \in Visible(text) : g.line \notin S}}]_text
=============================================================================
