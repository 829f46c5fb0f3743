---------------------------- MODULE MCSharedFiles ----------------------------
(* Small documents and texts for SharedFiles.                                *)
EXTENDS SharedFiles

CONSTANTS old, new,        \* releases, and the commands and bodies they write
          theirs,          \* a hook of the user's
          u1, u2           \* words of the user's

mcCommandOf == [v \in Release |-> v]
mcBodyOf == [v \in Release |-> v]

Hooks(n) == BoundedSeq(KitCommand \cup OtherCommand, n)
Blocks(n) == {[matcher |-> m, hooks |-> h] : m \in {ApplyPatch, "other"}, h \in Hooks(n)}
                \cup {OddBlock}

mcDocs == {Absent, Unreadable} \cup BoundedSeq(Blocks(1), 2) \cup BoundedSeq(Blocks(2), 1)
mcTexts == {Absent, Unreadable} \cup BoundedSeq({NL, Open, Close, old, u1}, 3)
               \cup {t \in BoundedSeq({NL, Open, Close, u1}, 4) :
                        \E i, j \in DOMAIN t : i < j /\ {t[i], t[j]} \subseteq {Open, Close}}
               \cup {<<u1, NL>> \o Snippet(old) \o t : t \in BoundedSeq({NL, u2}, 3)}
mcFewDocs == {Absent, Unreadable, <<>>, <<NewBlock(old)>>,
              <<[matcher |-> ApplyPatch, hooks |-> <<theirs, old, theirs>>]>>,
              <<[matcher |-> "other", hooks |-> <<theirs>>]>>}

mcWritten == [k \in Kind |->
                 IF k = "hooks"
                 THEN {Absent, <<[matcher |-> ApplyPatch, hooks |-> <<theirs, old, theirs>>]>>}
                 ELSE {<<u2, NL, NL>>, <<u1, NL>> \o Snippet(old) \o <<NL, u2, NL>>}]

(* Every small document, every small text, each beside a file that no         *)
(* request may touch, and some of them together.                            *)
mcFound == {[hooks |-> d, agents |-> Unreadable] : d \in mcDocs}
               \cup {[hooks |-> Unreadable, agents |-> t] : t \in mcTexts}
               \cup [hooks : mcWritten["hooks"], agents : mcWritten["agents"]]
mcFoundFew == [hooks : mcFewDocs, agents : {Absent, Unreadable, <<u1, NL>>}]

(* Free, or taken by something that is no regular file.                      *)
mcSlots == [k \in Kind |-> {Absent, Irregular}]

mcRequests == Request
=============================================================================
