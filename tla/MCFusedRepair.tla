---------------------------- MODULE MCFusedRepair ----------------------------
(* Short texts: a line that may hold a boundary, a line it may continue in,  *)
(* and what stands around them.                                             *)
EXTENDS FusedRepair

CONSTANTS hash, open

W(o, e) == [opens |-> o, ends |-> e]
mcWords == {W("Cap", ""), W("low", ""), W("low", "."), W("Cap", "."), W("and", "")}

P(words, leader, carrier) ==
    [type |-> "prose", words |-> words, leader |-> leader, carrier |-> carrier]
Plain(words) == P(words, hash, NoCarrier)
Words(lo, hi) == UNION {[1..n -> mcWords] : n \in lo..hi}

D(o, k) == [offset |-> o, kinds |-> k]
mcDirectives == {D(0, Kind), D(1, {"wrap"}), D(1, {"fused"})}
mcBlank == [type |-> "blank"]
mcLone == {[type |-> "directive", directive |-> D(1, {k})] : k \in Kind}

(* Lines with a boundary, and lines that a sentence can go on in.           *)
mcHolders == {w \in Words(3, 4) : /\ Boundaries(w) # {}
                                  /\ w[1] \in {W("Cap", ""), W("low", ".")}
                                  /\ Last(w).opens # "and"}
mcShort == {w \in Words(1, 2) : Last(w).opens # "and"}

(* What stands above: a directive, a line with one behind it, an open line. *)
mcAbove == mcLone
    \cup {P(<<W("Cap", ""), W("low", e)>>, hash, c) :
             e \in {"", "."}, c \in mcDirectives \cup {NoCarrier}}

(* The line itself: plain, with another leader or with a directive.         *)
mcMiddle == {Plain(w) : w \in mcHolders}
    \cup {P(<<W("Cap", ""), W("low", "."), W("Cap", e)>>, l, c) :
             e \in {"", "."}, l \in Leader, c \in mcDirectives \cup {NoCarrier}}

(* What stands below, likewise. *)
mcBelow == {Plain(w) : w \in mcShort} \cup mcLone \cup {mcBlank}
    \cup {P(<<W("low", ".")>>, l, c) : l \in Leader, c \in mcDirectives \cup {NoCarrier}}

mcTexts ==
    {<<b, c>> : b \in mcMiddle, c \in mcMiddle}
        \cup {<<a, b, c>> : a \in mcAbove, b \in mcMiddle, c \in mcBelow}
        \cup {<<b, c, Plain(<<W("low", "")>>)>> : b \in mcMiddle, c \in mcBelow}
        \cup {<<b, mcBlank, Plain(<<W("low", ".")>>)>> : b \in mcMiddle}
=============================================================================
