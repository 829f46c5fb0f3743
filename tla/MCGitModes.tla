------------------------------- MODULE MCGitModes -------------------------------
(* GitModes on repositories of three paths: p in every state, q in a few, and *)
(* r, which is neither judged nor checked.                                    *)
EXTENDS GitModes, TLC

MCLine == {"a", "b", "ab"}
MCWords == [l \in MCLine |-> IF l = "ab" THEN <<"a", "b">> ELSE <<l>>]
Short == UNION {[1..n -> {"a", "b"}] : n \in 0..3}
MCText == Short \cup {<<"ab">>}

Two == <<"a", "b">>
One == <<"ab">>
Other == <<"b">>

(* What a path is in tip, index and worktree. *)
AnyState == [tip : {Two, Absent}, index : {Two, One, Absent, Unmerged},
             worktree : {Two, Other, Link, Absent}]
State(t, i, w) == [tip |-> t, index |-> i, worktree |-> w]
Linked == [tip : {Link}, index : {Link, Two, Other}, worktree : {Other, Two, Link, Absent}]
Few == {State(Two, One, Other), State(Absent, Two, Absent)}
Apart == {State(Two, Two, Two), State(Two, Two, Absent)}

Repository(m, head, base, sp, sq, sr) ==
    LET side(f) == [x \in Path |-> CASE x = "p" -> sp[f] [] x = "q" -> sq[f] [] OTHER -> sr[f]]
    IN  [mode |-> m, attached |-> TRUE,
         tip |-> IF head = "born" THEN side("tip") ELSE head,
         index |-> side("index"), worktree |-> side("worktree"), upstream |-> base]

Listings ==
    {Repository(m, "born", NoBase, sp, sq, State(Two, Two, Two)) :
        m \in Mode \ {"base", "reflow"}, sp \in AnyState, sq \in Few}
Reflows ==
    {Repository("reflow", "born", NoBase, sp, sq, sr) :
        sp \in AnyState \cup Linked, sq \in Few, sr \in Apart}
Heads ==
    {[r EXCEPT !.attached = a] :
        a \in BOOLEAN,
        r \in {Repository(m, Broken, EmptyTree, sp, State(Two, Two, Two), State(Two, Two, Two)) :
                  m \in Mode, sp \in {State(Two, Two, One)}}}
    \cup {Repository(m, Unborn, EmptyTree, sp, sq, State(Absent, Absent, Two)) :
              m \in Mode, sp \in {State(Absent, Two, One), State(Absent, Absent, Two)}, sq \in Few}

(* --base: every pair of texts at p, and a file that is new, gone or linked. *)
Bases ==
    {Repository("base", "born",
                [x \in Path |-> CASE x = "p" -> old [] x = "q" -> Absent [] OTHER -> Two],
                State(Two, Two, new), State(Two, Two, Two), State(Two, Two, Two)) :
        old \in MCText, new \in {t \in MCText : Len(t) = 2 \/ t = <<>>}}
    \cup {Repository("base", "born",
                [x \in Path |-> CASE x = "p" -> old [] x = "q" -> b [] OTHER -> Two],
                State(Two, Two, new), State(Two, Two, w), State(Two, Two, Two)) :
        old \in {Absent, Link}, new \in {Two, Link}, b \in {Two, Absent}, w \in {Other, Absent, Link}}
    \cup {Repository("base", "born", NoBase, State(Two, Two, Two), State(Two, Two, Two),
                     State(Two, Two, Two))}

MCFound == Listings \cup Reflows \cup Heads \cup Bases
MCEdits == {Other, Link, Directory}
=============================================================================
