------------------------------ MODULE PatchSpans ------------------------------
(***************************************************************************)
(* From an apply_patch payload to the changed spans of the edited file       *)
(* (scripts/check_linefeeds.py: hunks_by_file, _locate_hunk, run_hook_codex, *)
(* touches).                                                                *)
(*                                                                         *)
(* The hook sees the patch and the file as it is after the edit, never the   *)
(* file before it.  It looks every hunk up in the file by its surviving      *)
(* lines, and must not take an unchanged line for a changed one, nor miss a  *)
(* changed one.                                                             *)
(*                                                                         *)
(* A behaviour writes an edit down line by line: `script` says what became   *)
(* of every line of the old file, and so determines the patch, the new file  *)
(* and what really changed.                                                 *)
(***************************************************************************)
EXTENDS SequencesExt, Integers

CONSTANTS
    Line,        \* the texts a line can have
    Blank,       \* the empty line
    Width,       \* [Line -> Nat]: its number of code points
    MaxScript    \* the longest edit

ASSUME LineAssumption ==
    /\ Blank \in Line
    /\ Width \in [Line -> Nat]
    /\ \A l \in Line : Width[l] = 0 <=> l = Blank
    /\ MaxScript \in Nat

VARIABLES
    script,      \* Seq of [op, line]; "same" is an unchanged line the patch
                 \* does not show, "ctx" one that it shows
    terminated   \* whether the new file ends with a newline

vars == <<script, terminated>>

Op == {"same", "ctx", "del", "add"}
Break == [op |-> "@@", line |-> Blank]

Init == script = <<>> /\ terminated \in BOOLEAN

Edit(o, l) ==
    /\ Len(script) < MaxScript
    /\ script' = Append(script, [op |-> o, line |-> l])
    /\ UNCHANGED terminated

(* Two hunks need not have an unshown line between them. *)
NewHunk ==
    /\ script # <<>> /\ Last(script) # Break
    /\ Len(script) < MaxScript
    /\ script' = Append(script, Break)
    /\ UNCHANGED terminated

Next == NewHunk \/ \E o \in Op, l \in Line : Edit(o, l)

Spec == Init /\ [][Next]_vars

-----------------------------------------------------------------------------
(* The file after the edit *)

Survives(e) == e.op \in {"same", "ctx", "add"}

(* How many of the first k entries survive, where the i-th that does stands,  *)
(* and all that do.                                                         *)
Rank(e, k) == Cardinality({q \in 1..k : Survives(e[q])})
Position(e, i) == CHOOSE p \in DOMAIN e : Survives(e[p]) /\ Rank(e, p) = i
Kept(e) == [i \in 1..Rank(e, Len(e)) |-> e[Position(e, i)]]

(* text.split("\n"): a final newline leaves an empty piece behind it.        *)
Text == LET kept == Kept(script)
            lines == [i \in DOMAIN kept |-> kept[i].line]
        IN  IF terminated /\ lines # <<>> THEN Append(lines, Blank)
            ELSE IF lines = <<>> THEN <<Blank>> ELSE lines

(* The offset of the first code point of line i, and the one after its last. *)
Starts(t, i) ==
    LET start[n \in DOMAIN t] ==
            IF n = 1 THEN 0 ELSE start[n - 1] + Width[t[n - 1]] + 1
    IN  start[i]
Ends(t, i) == Starts(t, i) + Width[t[i]]
Size(t) == Ends(t, Len(t))

-----------------------------------------------------------------------------
(* The patch *)

(* The script positions of each hunk: a maximal run of shown lines.          *)
Shown(i) == script[i].op \in {"ctx", "del", "add"}
Hunks == {h \in {[from |-> i, to |-> j] : i, j \in DOMAIN script} :
             /\ h.from <= h.to
             /\ \A i \in h.from..h.to : Shown(i)
             /\ h.from = 1 \/ ~Shown(h.from - 1)
             /\ h.to = Len(script) \/ ~Shown(h.to + 1)}

Entries(h) == SubSeq(script, h.from, h.to)
Post(h) == Kept(Entries(h))
Body(h) == LET post == Post(h) IN [i \in DOMAIN post |-> post[i].line]

(* Where the hunk's surviving lines stand in the text, line-bounded.         *)
Places(t, body) ==
    {i \in DOMAIN t : /\ i + Len(body) - 1 <= Len(t)
                      /\ SubSeq(t, i, i + Len(body) - 1) = body}

(* A bug: the first place will do. *)
LocateFirst(t, body) ==
    IF body \in {<<>>, <<Blank>>} \/ Places(t, body) = {} THEN 0
    ELSE CHOOSE i \in Places(t, body) : \A j \in Places(t, body) : i <= j

(* _locate_hunk: the only place, or 0.  A body without a code point (none,   *)
(* or one empty line) is nowhere.                                           *)
Locate(t, body) ==
    IF body \in {<<>>, <<Blank>>} \/ \A i \in Places(t, body) : Places(t, body) # {i}
    THEN 0
    ELSE CHOOSE i \in Places(t, body) : TRUE

(* The number of surviving lines among the first k entries of a hunk.        *)
Index(h, k) == Rank(Entries(h), k)

(* A bug: a boundary after the last surviving line stands at its end.        *)
BoundaryBeforeNewline(t, h, at, k) ==
    LET n == Index(h, k)
    IN  IF n < Len(Post(h)) THEN Starts(t, at + n)
        ELSE Ends(t, at + Len(Post(h)) - 1)

(* A deletion collapses to the start of the surviving line after it, past    *)
(* the newline when it closes the hunk, or to the end of the text.           *)
Boundary(t, h, at, k) ==
    LET n == Index(h, k)
        last == at + Len(Post(h)) - 1
    IN  IF n < Len(Post(h)) THEN Starts(t, at + n)
        ELSE IF Ends(t, last) < Size(t) THEN Ends(t, last) + 1
        ELSE Ends(t, last)

(* The spans of a hunk that was found at line `at`.                          *)
HunkSpans(t, h, at) ==
    {[start |-> Starts(t, at + Index(h, k - 1)), end |-> Ends(t, at + Index(h, k - 1))]
        : k \in {k \in DOMAIN Entries(h) : Entries(h)[k].op = "add"}}
    \cup {[start |-> Boundary(t, h, at, k), end |-> Boundary(t, h, at, k)]
        : k \in {k \in DOMAIN Entries(h) : Entries(h)[k].op = "del"}}

(* One hunk that is not found leaves the whole file without spans: its added *)
(* lines are then judged by themselves.                                     *)
Exact == Hunks # {} /\ \A h \in Hunks : Locate(Text, Body(h)) # 0

Spans == UNION {HunkSpans(Text, h, Locate(Text, Body(h))) : h \in Hunks}

(* touches: ranges must share a code point, a boundary may lie on an edge.   *)
Touches(rng, span) ==
    LET lo == IF rng.start > span.start THEN rng.start ELSE span.start
        hi == IF rng.end < span.end THEN rng.end ELSE span.end
    IN  IF rng.start = rng.end \/ span.start = span.end THEN lo <= hi ELSE lo < hi

Owned(rng) == \E s \in Spans : Touches(rng, s)

-----------------------------------------------------------------------------
(* What really changed *)

(* The script position of each line of the text.                             *)
Origin(i) == Position(script, i)

Lines == 1..Rank(script, Len(script))

Added(i) == script[Origin(i)].op = "add"

(* Something was deleted between line i and the one before it (after it).    *)
DeletedBefore(i) ==
    \E p \in DOMAIN script :
        /\ script[p].op = "del" /\ p < Origin(i)
        /\ \A q \in p..Origin(i) - 1 : ~Survives(script[q])
DeletedAfter(i) ==
    \E p \in DOMAIN script :
        /\ script[p].op = "del" /\ p > Origin(i)
        /\ \A q \in Origin(i) + 1..p : ~Survives(script[q])

Content(i) == [start |-> Starts(Text, i), end |-> Ends(Text, i)]

(* The end of a line and the beginning of the next: what a wrap finding owns. *)
Seam(i) == [start |-> Ends(Text, i) - 1, end |-> Starts(Text, i + 1) + 1]

-----------------------------------------------------------------------------
(* Properties *)

(* Nothing that changed escapes, wherever in the file its text repeats: every *)
(* added line is owned, and so is the seam of two lines that a deletion has  *)
(* brought together.                                                        *)
ChangeIsOwned ==
    Exact => \A i \in Lines :
        /\ Added(i) /\ Width[Text[i]] > 0 => Owned(Content(i))
        /\ /\ i + 1 \in Lines /\ DeletedAfter(i)
           /\ Width[Text[i]] > 0 /\ Width[Text[i + 1]] > 0
           => Owned(Seam(i))

(* An unchanged line is left alone, unless a deletion ended right before it  *)
(* or, at the very end of a text that ends in no newline, right after it.   *)
UnchangedIsLeftAlone ==
    Exact => \A i \in Lines :
        Width[Text[i]] > 0 /\ Owned(Content(i)) =>
            \/ Added(i)
            \/ DeletedBefore(i)
            \/ DeletedAfter(i) /\ i = Len(Text)
=============================================================================
