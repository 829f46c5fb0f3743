---------------------------- MODULE SnippetSplice ----------------------------
(***************************************************************************)
(* The kit's paragraph in a Markdown file of the user's, between two         *)
(* sentinel comments (lifecycle.py, agents_block, plan_agentsmd and          *)
(* plan_remove_agentsmd).                                                   *)
(*                                                                         *)
(* A text is a sequence of newlines, sentinels, snippet bodies and words.    *)
(***************************************************************************)
EXTENDS SequencesExt

CONSTANTS
    NL,       \* a newline character
    Open,     \* <!-- semantic-linefeeds -->
    Close,    \* <!-- /semantic-linefeeds -->
    Body,     \* the snippet bodies of the releases
    Word      \* anything else the file says

Token == {NL, Open, Close} \cup Body \cup Word

ASSUME TokenAssumption ==
    /\ NL # Open /\ NL # Close /\ Open # Close
    /\ {NL, Open, Close} \cap (Body \cup Word) = {}

(* agents_block *)
Snippet(body) == <<Open, NL, body, NL, Close, NL>>

RStrip(t) == SubSeq(t, 1, SelectLastInSeq(t, LAMBDA c : c # NL))
LStrip(t) == LET n == SelectInSeq(t, LAMBDA c : c # NL)
             IN  IF n = 0 THEN <<>> ELSE SubSeq(t, n, Len(t))

First(t, c) == SelectInSeq(t, LAMBDA x : x = c)
Once(t, c) == \E i \in DOMAIN t : {j \in DOMAIN t : t[j] = c} = {i}

HasBlock(t) == Contains(t, Open)

(* No sentinel, or one pair in order; anything else is for a human. *)
WellFormed(t) ==
    \/ ~Contains(t, Open) /\ ~Contains(t, Close)
    \/ Once(t, Open) /\ Once(t, Close) /\ First(t, Open) < First(t, Close)

Before(t) == SubSeq(t, 1, First(t, Open) - 1)
After(t) == LStrip(SubSeq(t, First(t, Close) + 1, Len(t)))

(* A bug: the newlines after the block are kept and one more is added. *)
SplicedDrifting(t, body) ==
    IF ~HasBlock(t) THEN RStrip(t) \o <<NL, NL>> \o Snippet(body)
    ELSE LET rest == SubSeq(t, First(t, Close) + 1, Len(t))
         IN  Before(t) \o Snippet(body) \o (IF rest = <<>> THEN rest ELSE <<NL>> \o rest)

(* A bug: everything from the opening sentinel on is replaced. *)
SplicedToTheEnd(t, body) ==
    IF ~HasBlock(t) THEN RStrip(t) \o <<NL, NL>> \o Snippet(body)
    ELSE Before(t) \o Snippet(body)

(* The text with the block of this release: in place of the old block, with *)
(* one blank line after it, or at the end with one blank line before it.    *)
Spliced(t, body) ==
    IF ~HasBlock(t) THEN RStrip(t) \o <<NL, NL>> \o Snippet(body)
    ELSE Before(t) \o Snippet(body)
             \o (IF After(t) = <<>> THEN <<>> ELSE <<NL>> \o After(t))

(* A bug: with nothing after the block, nothing is kept. *)
UnsplicedAfter(t) ==
    LET pre == RStrip(Before(t))  post == After(t)
    IN  IF pre # <<>> /\ post # <<>> THEN pre \o <<NL, NL>> \o post ELSE post

(* The text without the block, what stood on either side joined by a blank  *)
(* line.                                                                    *)
Unspliced(t) ==
    LET pre == RStrip(Before(t))  post == After(t)
    IN  IF pre # <<>> /\ post # <<>> THEN pre \o <<NL, NL>> \o post
        ELSE IF post # <<>> THEN post
        ELSE IF pre # <<>> THEN pre \o <<NL>>
        ELSE <<>>

(* snippet_state of a readable file *)
State(t) ==
    IF ~Contains(t, Open) /\ ~Contains(t, Close) THEN "absent"
    ELSE IF WellFormed(t) THEN "present" ELSE "malformed"

(* What of a text is not the kit's: its words, in order, outside a block.   *)
OthersWords(t) ==
    IF State(t) = "malformed" THEN <<t>>
    ELSE LET outside == IF HasBlock(t)
                        THEN SubSeq(t, 1, First(t, Open) - 1)
                             \o SubSeq(t, First(t, Close) + 1, Len(t))
                        ELSE t
         IN  FlattenSeq([i \in DOMAIN outside |->
                 IF outside[i] = NL THEN <<>> ELSE <<outside[i]>>])
=============================================================================
