------------------------------ MODULE Judgment ------------------------------
(***************************************************************************)
(* The detector on one text (scripts/check_linefeeds.py: judged_lines,      *)
(* diagnose, model_visible, prose_reflow), as operators on a sequence of    *)
(* lines.  A line is prose, a directive standing alone, or something the    *)
(* detector does not judge.  Of a word it matters how it opens and what it  *)
(* ends with; of a line's leader whether a repair may repeat it.            *)
(***************************************************************************)
EXTENDS Integers, Sequences, FiniteSets, SequencesExt

CONSTANTS
    Leader,          \* what can stand before the prose of a line
    Repeatable,      \* the leaders a repair may repeat on a second line
    NoCarrier        \* no directive trails the line

Kind == {"fused", "wrap"}

(* "Cap" opens with a capital, "low" does not, "and" is a connector; a word *)
(* ends a sentence ("."), ends a line in good order (","), or does neither. *)
Word == [opens : {"Cap", "low", "and"}, ends : {".", ",", ""}]

(* semlf-ignore has offset 0, semlf-ignore-next has offset 1.               *)
Directive == [offset : {0, 1}, kinds : SUBSET Kind \ {{}}]

ASSUME LeaderAssumption ==
    /\ Repeatable \subseteq Leader
    /\ NoCarrier \notin Directive

IsProse(line) == line.type = "prose"

(* parse_directive and trailing_carrier: the directive a line carries.      *)
Carries(line) ==
    \/ line.type = "directive"
    \/ IsProse(line) /\ line.carrier # NoCarrier

DirectiveOf(line) == IF IsProse(line) THEN line.carrier ELSE line.directive

(* The suppression map: the kinds that are hushed on line i, by a directive *)
(* on it or on the line above.                                              *)
Hushed(text, i) ==
    UNION {DirectiveOf(text[j]).kinds :
              j \in {k \in {i - 1, i} \cap DOMAIN text :
                        /\ Carries(text[k])
                        /\ k + DirectiveOf(text[k]).offset = i}}

(* FUSED_RE: a lower-case word ends a sentence and another one opens.       *)
IsBoundary(words, k) ==
    /\ k \in 1..Len(words) - 1
    /\ words[k].opens # "Cap" /\ words[k].ends = "."
    /\ words[k + 1].opens = "Cap"

Boundaries(words) == {k \in DOMAIN words : IsBoundary(words, k)}

(* line_ending(...).endswith(OK_LINE_ENDERS) *)
EndsWell(words) == Last(words).ends # ""

(* _wrap_paired of line i and the next.  Judged lines are of one paragraph  *)
(* exactly when no other line, a directive included, stands between them.   *)
WrapPaired(text, i) ==
    /\ {i, i + 1} \subseteq DOMAIN text
    /\ IsProse(text[i]) /\ IsProse(text[i + 1])
    /\ ~EndsWell(text[i].words)
    /\ text[i + 1].words[1].opens = "low"

(* diagnose, without the advisory "long": the boundaries on a line, the     *)
(* line that breaks off; less what a directive hushes.                      *)
Findings(text) ==
    {f \in [kind : {"fused"}, line : DOMAIN text, at : 1..10]
              \cup [kind : {"wrap"}, line : DOMAIN text, at : {0}] :
        /\ f.kind \notin Hushed(text, f.line)
        /\ f.kind = "fused" => IsProse(text[f.line])
                               /\ IsBoundary(text[f.line].words, f.at)
        /\ f.kind = "wrap" => WrapPaired(text, f.line)}

(* model_visible: a wrap is withheld from the model, unless its line is one *)
(* that a blocking finding already holds.                                   *)
Visible(text) ==
    {f \in Findings(text) :
        f.kind = "wrap" => \E g \in Findings(text) :
                              g.kind = "fused" /\ g.line = f.line}

-----------------------------------------------------------------------------
(* prose_reflow *)

OpensParagraph(text, i) == IsProse(text[i]) /\ (i = 1 \/ ~IsProse(text[i - 1]))

(* The words of the paragraph that opens at line i. *)
ParagraphAt(text, i) ==
    LET end == CHOOSE e \in i..Len(text) :
                  /\ \A j \in i..e : IsProse(text[j])
                  /\ e = Len(text) \/ ~IsProse(text[e + 1])
    IN  FlattenSeq([k \in 1..(end - i + 1) |-> text[i + k - 1].words])

(* _reflow_view: paragraphs as words, and every unjudged line verbatim.     *)
Paragraphs(text) ==
    LET starts == SetToSortSeq({i \in DOMAIN text : OpensParagraph(text, i)}, <)
    IN  [k \in DOMAIN starts |-> ParagraphAt(text, starts[k])]

Unjudged(text) == SelectSeq(text, LAMBDA line : ~IsProse(line))

ProseReflow(old, new) ==
    Unjudged(old) = Unjudged(new) /\ Paragraphs(old) = Paragraphs(new)
=============================================================================
