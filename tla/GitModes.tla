------------------------------- MODULE GitModes -------------------------------
(***************************************************************************)
(* The git modes of semlf (cli/semlf/providers.py, cli.py): what is read    *)
(* for --staged, --diff, --changed, --base, --all and reflow.               *)
(*                                                                         *)
(* A mode asks git for one listing and then reads the files on it one by    *)
(* one, each with a git command or an open of its own, while the user       *)
(* edits, stages and commits.  A call that fails stops the command loudly,  *)
(* and never shortens the list.                                             *)
(***************************************************************************)
EXTENDS LineDiff, SequencesExt

CONSTANTS
    Path,            \* the paths of the repository
    Judged,          \* those the detector finds prose in, by their names
    Excluded,        \* those an exclude pattern names
    Text,            \* contents: sequences of lines
    Words,           \* [line -> sequence of words]: the prose of a line
    LinkText,        \* what git prints for a symlink
    Link,            \* a symlink
    Absent, Directory,
    Unmerged,        \* an index entry in conflict
    Unborn, Broken,  \* HEAD's branch has no commit yet; HEAD names no commit
    NoBase,          \* REF is unknown here, or shares no history with HEAD
    Whole,           \* the spans of a source that is reported in full
    Nothing,         \* a side of a pair that does not exist (None)
    Found,           \* the modes and repositories a command is started in
    Edits,           \* what an edit can leave at a path
    MaxEdits, MaxFaults

Mode == {"staged", "diff", "changed", "base", "all", "reflow"}
TreeValue == Text \cup {Link, Absent}
WorktreeValue == TreeValue \cup {Directory}
Tree == [Path -> TreeValue]
EmptyTree == [p \in Path |-> Absent]

ASSUME GitAssumption ==
    /\ Judged \cup Excluded \subseteq Path
    /\ {<<>>, LinkText} \subseteq Text
    /\ \A t \in Text : t \in Seq(DOMAIN Words)
    /\ {Link, Absent, Directory, Unmerged, Nothing} \cap Text = {}
    /\ Absent \notin {Link, Directory, Unmerged} /\ Unmerged \notin {Link, Directory}
    /\ {Unborn, Broken} \cap Tree = {} /\ Unborn # Broken
    /\ \A r \in Found :
          /\ r.mode \in Mode
          /\ r.attached \in BOOLEAN
          /\ r.tip \in Tree \cup {Unborn, Broken}
          /\ r.tip = Unborn => r.attached
          /\ r.index \in [Path -> TreeValue \cup {Unmerged}]
          /\ r.worktree \in [Path -> WorktreeValue]
          /\ r.upstream \in Tree \cup {NoBase}
    /\ Edits \subseteq WorktreeValue
    /\ MaxEdits \in Nat /\ MaxFaults \in Nat

VARIABLES
    mode,      \* what the command was asked for
    attached,  \* HEAD names a branch
    tip,       \* the tree of HEAD's commit, or why there is none
    upstream,  \* the tree of merge-base(REF, HEAD)
    index,
    worktree,
    pc,        \* the next call of the command
    ref,       \* what the listing compares with: "HEAD", "empty" or "base"
    listing,   \* the three trees as the listing saw them: statuses and ids
    todo,      \* selected paths still to be read
    at,        \* the path being read
    half,      \* the side of it that was read first
    sources,   \* what the checker is given; for reflow, the pairs
    outcome,
    swapped,   \* paths that were no regular file some time since the listing
    quiet,     \* nothing has changed since the command was started
    heads,     \* what HEAD has been since then
    edits, faults

repo == <<attached, tip, upstream, index, worktree>>
vars == <<mode, repo, pc, ref, listing, todo, at, half, sources, outcome,
          swapped, quiet, heads, edits, faults>>

(* Where HEAD is not asked for by name, git takes an unresolvable one for    *)
(* no commit.                                                               *)
TreeOf(head) == IF head \in Tree THEN head ELSE EmptyTree
HeadTree == TreeOf(tip)
Compared == IF ref = "HEAD" THEN HeadTree
            ELSE IF ref = "base" THEN upstream ELSE EmptyTree

(* The worktree as git compares it: only what the index names, and a         *)
(* directory is no file.                                                    *)
InWorktree(p) ==
    IF index[p] = Absent \/ worktree[p] = Directory THEN Absent ELSE worktree[p]

Snapshot == [base |-> Compared, index |-> index,
             worktree |-> [p \in Path |-> InWorktree(p)]]

Init ==
    /\ \E r \in Found :
          /\ mode = r.mode /\ attached = r.attached /\ tip = r.tip
          /\ upstream = r.upstream /\ index = r.index /\ worktree = r.worktree
    /\ pc = IF mode = "changed" THEN "head"
            ELSE IF mode \in {"base", "reflow"} THEN "ref" ELSE "list"
    /\ ref = "HEAD"
    /\ listing = Snapshot
    /\ todo = {}
    /\ at = CHOOSE p \in Path : TRUE
    /\ half = Nothing
    /\ sources = {}
    /\ outcome = "none"
    /\ swapped = {}
    /\ quiet = TRUE
    /\ heads = {tip}
    /\ edits = 0
    /\ faults = 0

Go(next) ==
    /\ pc' = next
    /\ UNCHANGED <<listing, todo, at, half, sources, outcome, swapped>>

(* SourceError: a message, exit status 1, and nothing is checked. *)
Stop ==
    /\ outcome' = "error"
    /\ pc' = "done"
    /\ UNCHANGED <<ref, listing, todo, at, half, sources, swapped>>

Alone == UNCHANGED <<mode, repo, quiet, heads, edits>>
NoFault == UNCHANGED faults

-----------------------------------------------------------------------------
(* What to compare with *)

(* rev-parse HEAD.  A branch that names a missing object still resolves.    *)
ResolveHead ==
    /\ pc = "head"
    /\ \/ tip # Unborn /\ Go("list")
       \/ tip \notin Tree /\ Go("symbolic")
    /\ UNCHANGED ref
    /\ Alone /\ NoFault

SymbolicRef ==
    /\ pc = "symbolic"
    /\ IF attached THEN Go("probe") /\ UNCHANGED ref ELSE Stop
    /\ Alone /\ NoFault

(* A bug: HEAD did not resolve, and that is taken for an unborn branch. *)
ProbeIgnored ==
    /\ pc = "probe"
    /\ Go("list") /\ ref' = "empty"
    /\ Alone /\ NoFault

(* The empty tree stands in for HEAD only if its branch is proven unborn. *)
Probe ==
    /\ pc = "probe"
    /\ IF tip = Unborn THEN Go("list") /\ ref' = "empty" ELSE Stop
    /\ Alone /\ NoFault

(* rev-parse REF, and for --base the merge base, which commits on top of    *)
(* HEAD do not move.  reflow is asked about HEAD, by that name.             *)
ResolveRef ==
    /\ pc = "ref"
    /\ IF tip \notin Tree \/ (mode = "base" /\ upstream = NoBase) THEN Stop
       ELSE Go("list") /\ ref' = (IF mode = "base" THEN "base" ELSE "HEAD")
    /\ Alone /\ NoFault

-----------------------------------------------------------------------------
(* The listing *)

(* --diff-filter=AMTUX leaves deletions out. *)
Differs(old, new) == new # Absent /\ new # old

(* A bug: reflow filters like the other modes. *)
NamedAlike ==
    {p \in Path :
        \/ mode = "staged" /\ Differs(HeadTree[p], index[p])
        \/ mode = "diff" /\ (index[p] = Unmerged \/ Differs(index[p], InWorktree(p)))
        \/ mode \in {"changed", "base", "reflow"} /\ Differs(Compared[p], InWorktree(p))
        \/ mode = "all" /\ index[p] # Absent}

(* The paths git names; reflow asks for deletions as well. *)
Named ==
    {p \in Path :
        \/ mode = "staged" /\ Differs(HeadTree[p], index[p])
        \/ mode = "diff" /\ (index[p] = Unmerged \/ Differs(index[p], InWorktree(p)))
        \/ mode \in {"changed", "base"} /\ Differs(Compared[p], InWorktree(p))
        \/ mode = "all" /\ index[p] # Absent
        \/ mode = "reflow" /\ Compared[p] # InWorktree(p)}

(* A bug: ls-files has no status, and its stages are not looked at. *)
UnmergedByStatus ==
    mode \in {"staged", "diff"} /\ \E p \in Named : index[p] = Unmerged

(* Status U, or a stage that is not 0.  A diff between a tree and the       *)
(* worktree shows a path in conflict as modified.                           *)
ShownUnmerged ==
    mode \in {"staged", "diff", "all"} /\ \E p \in Named : index[p] = Unmerged

(* The recorded type keeps links out. *)
Regular(p) == (IF mode \in {"staged", "all"} THEN index[p] ELSE worktree[p]) \in Text

Checkable == Judged \ Excluded

Selected == IF mode = "reflow" THEN Named
            ELSE {p \in Named \cap Checkable : Regular(p)}

List ==
    /\ pc = "list"
    /\ IF ShownUnmerged \/ (mode = "changed" /\ ref = "HEAD" /\ tip \notin Tree)
       THEN Stop
       ELSE /\ pc' = "next"
            /\ listing' = Snapshot
            /\ todo' = Selected
            /\ swapped' = {p \in Path : worktree[p] \in {Link, Directory}}
            /\ UNCHANGED <<ref, at, half, sources, outcome>>
    /\ Alone /\ NoFault

-----------------------------------------------------------------------------
(* Reading *)

Deliver(source) ==
    /\ sources' = sources \cup {source}
    /\ pc' = "next"
    /\ UNCHANGED <<ref, listing, at, half, outcome, swapped>>

(* A bug: the index is asked again, by path. *)
ShowIndex(p) ==
    /\ pc = "next" /\ mode = "staged" /\ p \in todo
    /\ todo' = todo \ {p}
    /\ Deliver([path |-> p, text |-> index[p], spans |-> Whole])
    /\ Alone /\ NoFault

(* --staged: the blob the listing named, whatever the index holds by now. *)
CatBlob(p) ==
    /\ pc = "next" /\ mode = "staged" /\ p \in todo
    /\ todo' = todo \ {p}
    /\ Deliver([path |-> p, text |-> listing.index[p], spans |-> Whole])
    /\ Alone /\ NoFault

(* The other modes look at the path before they open it, and leave out      *)
(* what is a link or a directory by now.                                    *)
Look(p) ==
    /\ pc = "next" /\ mode \in {"diff", "changed", "base", "all"} /\ p \in todo
    /\ todo' = todo \ {p}
    /\ at' = p
    /\ pc' = IF worktree[p] \in {Link, Directory} THEN "next" ELSE "open"
    /\ UNCHANGED <<ref, listing, half, sources, outcome, swapped>>
    /\ Alone /\ NoFault

(* A bug: a file that is gone is passed over. *)
PassOver == pc = "open" /\ worktree[at] \in {Absent, Directory, Link}
            /\ Go("next") /\ UNCHANGED ref /\ Alone /\ NoFault

(* The file is gone, or is by now a link that leads nowhere. *)
OpenFails == pc = "open" /\ worktree[at] \in {Absent, Directory, Link}
             /\ Stop /\ Alone /\ NoFault

(* A link put there since is followed, to any text there is. *)
Open ==
    /\ pc = "open"
    /\ \E t \in Text :
          /\ worktree[at] \in {t, Link}
          /\ IF mode = "base"
             THEN pc' = "show" /\ half' = t
                  /\ UNCHANGED <<ref, listing, at, sources, outcome, swapped>>
             ELSE Deliver([path |-> at, text |-> t, spans |-> Whole])
    /\ UNCHANGED todo
    /\ Alone /\ NoFault

(* What `git show` prints for an entry. *)
Printed(entry) == IF entry = Link THEN LinkText ELSE entry

(* --base: the text at the merge base; there is none for an added file. *)
Show ==
    /\ pc = "show"
    /\ LET base == IF upstream[at] = Absent THEN <<>> ELSE Printed(upstream[at])
       IN  Deliver([path |-> at, text |-> half, spans |-> ChangedSpans(base, half)])
    /\ UNCHANGED todo
    /\ Alone /\ NoFault

(* reflow: the old side, from what HEAD is by now. *)
OldSide(p) ==
    /\ pc = "next" /\ mode = "reflow" /\ p \in todo
    /\ IF listing.base[p] # Absent /\ HeadTree[p] = Absent THEN Stop
       ELSE /\ pc' = "new"
            /\ todo' = todo \ {p}
            /\ at' = p
            /\ half' = IF listing.base[p] = Absent THEN Nothing ELSE Printed(HeadTree[p])
            /\ UNCHANGED <<ref, listing, sources, outcome, swapped>>
    /\ Alone /\ NoFault

(* The new side, if it is listed and still a file. *)
NewSide ==
    /\ pc = "new"
    /\ LET new == IF listing.worktree[at] # Absent /\ worktree[at] \in Text
                  THEN worktree[at] ELSE Nothing
       IN  Deliver([path |-> at, old |-> half, new |-> new])
    /\ UNCHANGED todo
    /\ Alone /\ NoFault

(* prose_reflow: the words are the same; what is not judged is the same to  *)
(* the letter.                                                              *)
Prose(t) == FlattenSeq([i \in DOMAIN t |-> Words[t[i]]])
SameProse(p, old, new) == IF p \in Judged THEN Prose(old) = Prose(new) ELSE old = new

(* Everything is read.  The sources go to the checker; reflow compares its   *)
(* pairs.                                                                   *)
Finish ==
    /\ pc = "next" /\ todo = {}
    /\ pc' = "done"
    /\ outcome' = IF mode = "reflow"
                     /\ \E s \in sources : Nothing \in {s.old, s.new}
                                           \/ ~SameProse(s.path, s.old, s.new)
                  THEN "changed" ELSE "ok"
    /\ UNCHANGED <<ref, listing, todo, at, half, sources, swapped>>
    /\ Alone /\ NoFault

-----------------------------------------------------------------------------
(* Failures and the user *)

(* A git command or an open fails by itself. *)
CallFails ==
    /\ faults < MaxFaults
    /\ faults' = faults + 1
    /\ \/ pc = "head" /\ Go("symbolic") /\ UNCHANGED ref
       \/ pc \in {"symbolic", "probe", "ref", "list", "open"} /\ Stop
       \/ pc = "next" /\ mode \in {"staged", "reflow"}
          /\ (\E p \in todo : mode = "staged" \/ listing.base[p] # Absent)
          /\ Stop
       \/ pc = "show" /\ UNCHANGED todo
          /\ Deliver([path |-> at, text |-> half, spans |-> ChangedSpans(<<>>, half)])
       \/ pc = "new" /\ UNCHANGED todo
          /\ Deliver([path |-> at, old |-> half, new |-> Nothing])
    /\ Alone

Change ==
    /\ outcome = "none"
    /\ edits < MaxEdits
    /\ edits' = edits + 1
    /\ quiet' = FALSE
    /\ UNCHANGED <<mode, attached, upstream, pc, ref, listing, todo, at, half,
                   sources, outcome, faults>>

Edit(p) ==
    /\ Change
    /\ \E v \in Edits \ {worktree[p]} :
          /\ worktree' = [worktree EXCEPT ![p] = v]
          /\ swapped' = IF v \in {Link, Directory} THEN swapped \cup {p} ELSE swapped
    /\ UNCHANGED <<tip, heads, index>>

(* git add and git rm --cached, which also settle a conflict. *)
Stage(p) ==
    /\ Change
    /\ \E v \in {worktree[p], Absent} \ {index[p], Directory} :
          index' = [index EXCEPT ![p] = v]
    /\ UNCHANGED <<tip, heads, worktree, swapped>>

Commit ==
    /\ Change
    /\ tip # Broken /\ index \in Tree /\ index # HeadTree
    /\ tip' = index
    /\ heads' = heads \cup {index}
    /\ UNCHANGED <<index, worktree, swapped>>

-----------------------------------------------------------------------------
Command ==
    \/ ResolveHead \/ SymbolicRef \/ Probe \/ ResolveRef
    \/ List
    \/ \E p \in Path : CatBlob(p) \/ Look(p) \/ OldSide(p)
    \/ OpenFails \/ Open \/ Show \/ NewSide
    \/ Finish
    \/ CallFails

Next == Command \/ Commit \/ \E p \in Path : Edit(p) \/ Stage(p)

Spec == Init /\ [][Next]_vars

-----------------------------------------------------------------------------
(* Properties *)

Sourced == [path : Path, text : Text,
            spans : {Whole} \cup SUBSET [start : Nat, end : Nat]]
Paired == [path : Path, old : Text \cup {Nothing}, new : Text \cup {Nothing}]

(* Every variable keeps its type. *)
TypeOK ==
    /\ mode \in Mode
    /\ tip \in Tree \cup {Unborn, Broken}
    /\ index \in [Path -> TreeValue \cup {Unmerged}]
    /\ worktree \in [Path -> WorktreeValue]
    /\ pc \in {"head", "symbolic", "probe", "ref", "list", "next", "open",
               "show", "new", "done"}
    /\ ref \in {"HEAD", "empty", "base"}
    /\ todo \subseteq Path /\ at \in Path /\ swapped \subseteq Path
    /\ half \in Text \cup {Nothing}
    /\ \A s \in sources : IF mode = "reflow" THEN s \in Paired ELSE s \in Sourced
    /\ outcome \in {"none", "ok", "changed", "error"}
    /\ edits \in 0..MaxEdits /\ faults \in 0..MaxFaults

(* What a mode owes its user, by the repository the listing saw: the text    *)
(* files in its after-image that its before-image did not have.             *)
After == IF mode \in {"staged", "all"} THEN listing.index ELSE listing.worktree
Before == IF mode = "diff" THEN listing.index ELSE listing.base
Owed == {p \in Judged \ Excluded :
            After[p] \in Text /\ (mode = "all" \/ After[p] # Before[p])}

(* "Never a silently shorter file list": a run that ends well has handed    *)
(* over every file it owes, whatever failed or went away meanwhile, but for *)
(* those that stopped being regular files; and it has handed over nothing   *)
(* else.                                                                    *)
NeverAShorterList ==
    outcome = "ok" /\ mode # "reflow" =>
        LET given == {s.path : s \in sources}
        IN  Owed \ (IF mode = "staged" THEN {} ELSE swapped) \subseteq given
            /\ given \subseteq Owed

(* --changed compares with one commit that HEAD was at while it ran, or with *)
(* the empty tree if HEAD had none then, however git's answers fail and      *)
(* whatever is committed between one question and the next: no file is shown *)
(* that is that commit's, and a broken HEAD shows nothing at all ("silently  *)
(* diffing against the empty tree would report every file changed").         *)
OnlyTheChangedAreShown ==
    outcome = "ok" /\ mode = "changed" =>
        \E h \in heads \ {Broken} :
            \A s \in sources : listing.worktree[s.path] # TreeOf(h)[s.path]

(* --staged shows one index: texts and selection are those of the moment of *)
(* the listing, however much is staged and committed while it reads.        *)
OneIndex ==
    outcome = "ok" /\ mode = "staged" =>
        sources = {[path |-> p, text |-> listing.index[p], spans |-> Whole] : p \in Owed}

(* --base: "a finding that predates the branch is not that author's to      *)
(* answer".  What is reported is owned line by line by the difference        *)
(* between the merge base and the very text that is checked, also when the  *)
(* file is written between listing and reading.  The one exception is the   *)
(* code's: a `git show` that fails is taken for an added file, which owns    *)
(* too much and never too little.                                           *)
OnlyTheChangeIsReported ==
    mode = "base" =>
        \A s \in sources :
            LET base == IF upstream[s.path] = Absent THEN <<>>
                        ELSE Printed(upstream[s.path])
            IN  \/ AccountFor(s.spans, base, s.text)
                \/ faults > 0 /\ AccountFor(s.spans, <<>>, s.text)

(* A symlink in HEAD with a regular file in its place that says what `git    *)
(* show` prints for a link: the path it leads to.                           *)
SpelledOut(p) ==
    HeadTree[p] = Link /\ InWorktree(p) \in Text /\ SameProse(p, LinkText, InWorktree(p))

(* "Only moves prose breaks": exit status 0 of reflow means that no file,    *)
(* judged or not, listed or not, was added, deleted, retyped or reworded.   *)
(* The one exception is the code's, which compares what git prints with what *)
(* the path holds and never asks for the type: a link that became a file     *)
(* with the text of its target.                                             *)
PureReflowIsTrue ==
    outcome = "ok" /\ mode = "reflow" /\ quiet =>
        \A p \in Path :
            \/ InWorktree(p) = HeadTree[p]
            \/ /\ {HeadTree[p], InWorktree(p)} \subseteq Text
               /\ SameProse(p, HeadTree[p], InWorktree(p))
            \/ SpelledOut(p)

(* ADR-0013, "Loud failure, never a shorter list": a comparison with the     *)
(* index, or a listing of it, that meets a path in conflict stops the       *)
(* command, whether or not the path is one that would be checked.           *)
UnmergedIsLoud ==
    outcome = "ok" /\ mode \in {"staged", "diff", "all"} =>
        \A p \in Path : listing.index[p] # Unmerged

=============================================================================
