------------------------------ MODULE Bootstrap ------------------------------
(***************************************************************************)
(* install.sh: it brings a checkout to the version that was asked for and   *)
(* hands over to the scripts/install.py found there.  The checkout outlives *)
(* the run: it keeps its origin and its HEAD, which is on a branch after a  *)
(* plain clone and on none after a run with --ref, and the next run starts  *)
(* from that.  `set -e` ends a run at the first git command that fails.     *)
(*                                                                         *)
(* Its working tree is a state of its own: it holds the files of HEAD, or   *)
(* the user's edits on top of them, or the halves of two commits after git  *)
(* was stopped between them, and git carries from one commit to another     *)
(* what does not stand in its way.                                          *)
(***************************************************************************)
CONSTANTS
    Repo,          \* the repositories a run may name
    Branch, Tag,   \* the names a ref can have
    Main,          \* the branch a clone starts on
    Commit,
    Ancestors,     \* [Commit -> SUBSET Commit]: a commit and what it builds on
    NoCommit,
    Uncommitted,   \* what a working tree can hold that no commit does
    Published,     \* where the refs can be before the first run
    NoHome,        \* nothing where the checkout belongs
    Foreign,       \* something there that is no git checkout
    Detached,      \* HEAD is on no branch
    Latest         \* the run names no ref

Ref == Branch \cup Tag
Clone == [origin : Repo, head : Commit, on : Branch \cup {Detached}]
Ask == [ref : Ref \cup {Latest}, repo : Repo, inPlace : BOOLEAN]

ASSUME BootstrapAssumption ==
    /\ Main \in Branch
    /\ Branch \cap Tag = {}
    /\ Latest \notin Ref
    /\ Detached \notin Branch
    /\ NoCommit \notin Commit \cup Uncommitted
    /\ Commit \cap Uncommitted = {}
    /\ {NoHome, Foreign} \cap Clone = {}
    /\ NoHome # Foreign
    /\ Ancestors \in [Commit -> SUBSET Commit]
    /\ \A c \in Commit : c \in Ancestors[c]
    /\ Published \subseteq [Repo -> [Ref -> Commit]]

VARIABLES
    remote,    \* where the refs of the repositories are
    home,      \* $SEMLF_HOME
    tree,      \* the commit its files are, or what they are instead
    ask,       \* what the run was asked for
    at,        \* how far the run has come: "rest", "git", "fetched", "ready"
    given      \* the commit git got for what was asked: FETCH_HEAD, or a tip

bootVars == <<remote, home, tree, ask, at, given>>

BootTypeOK ==
    /\ remote \in [Repo -> [Ref -> Commit \cup {NoCommit}]]
    /\ home \in Clone \cup {NoHome, Foreign}
    /\ tree \in Commit \cup Uncommitted \cup {NoCommit}
    /\ ask \in Ask
    /\ at \in {"rest", "git", "fetched", "ready"}
    /\ given \in Commit \cup {NoCommit}

BootInit ==
    /\ remote \in Published
    /\ home \in {NoHome, Foreign}
    /\ tree = NoCommit
    /\ ask = [ref |-> Latest, repo |-> CHOOSE r \in Repo : TRUE, inPlace |-> FALSE]
    /\ at = "rest"
    /\ given = NoCommit

-----------------------------------------------------------------------------
(* The run starts, with a ref or without.  Started as a file of the         *)
(* checkout itself, without --repo and --ref, it takes the shortcut: what   *)
(* is checked out is what is wanted, and git is not asked.                  *)
Begin(a) ==
    /\ at = "rest"
    /\ a.inPlace => home \in Clone /\ a.ref = Latest
    /\ ask' = a
    /\ at' = IF a.inPlace THEN "ready" ELSE "git"
    /\ given' = IF a.inPlace THEN home.head ELSE NoCommit
    /\ UNCHANGED <<remote, home, tree>>

(* git clone [--branch REF]: the one place where --repo counts.             *)
Wanted == IF ask.ref = Latest THEN Main ELSE ask.ref

CanClone == home = NoHome /\ remote[ask.repo][Wanted] # NoCommit

Cloned == [origin |-> ask.repo, head |-> remote[ask.repo][Wanted],
           on |-> IF Wanted \in Branch THEN Wanted ELSE Detached]

CloneIt ==
    /\ at = "git" /\ CanClone
    /\ home' = Cloned
    /\ tree' = Cloned.head
    /\ given' = Cloned.head
    /\ at' = "ready"
    /\ UNCHANGED <<remote, ask>>

(* git fetch origin REF, in a checkout that is there already.               *)
Fetch ==
    /\ at = "git" /\ home \in Clone /\ ask.ref # Latest
    /\ remote[home.origin][ask.ref] # NoCommit
    /\ given' = remote[home.origin][ask.ref]
    /\ at' = "fetched"
    /\ UNCHANGED <<remote, home, tree, ask>>

(* What the working tree is after git went from HEAD to c: files that are    *)
(* not HEAD's are kept, or git refuses (GitFails).                          *)
Carried(c) ==
    IF tree = home.head THEN {c}
    ELSE IF c = home.head THEN {tree} ELSE {c} \cup Uncommitted

(* git checkout --detach FETCH_HEAD *)
Checkout ==
    /\ at = "fetched"
    /\ home' = [home EXCEPT !.head = given, !.on = Detached]
    /\ tree' \in Carried(given)
    /\ at' = "ready"
    /\ UNCHANGED <<remote, ask, given>>

(* git pull --ff-only follows the branch HEAD is on, forward only; commits  *)
(* of the user's own on top of it are kept.                                 *)
CanPull ==
    /\ home \in Clone /\ home.on # Detached
    /\ LET tip == remote[home.origin][home.on]
       IN  /\ tip # NoCommit
           /\ tip \in Ancestors[home.head] \/ home.head \in Ancestors[tip]

FollowBranch ==
    LET tip == remote[home.origin][home.on]
        head == IF tip \in Ancestors[home.head] THEN home.head ELSE tip
    IN  /\ home' = [home EXCEPT !.head = head]
        /\ tree' \in Carried(head)
        /\ given' = tip

(* A bug: a pull that fails is not fatal, "to work offline". *)
PullOrNot ==
    /\ at = "git" /\ home \in Clone /\ ask.ref = Latest
    /\ IF CanPull THEN FollowBranch
       ELSE given' = remote[home.origin][Main] /\ UNCHANGED <<home, tree>>
    /\ at' = "ready"
    /\ UNCHANGED <<remote, ask>>

Pull ==
    /\ at = "git" /\ ask.ref = Latest /\ CanPull
    /\ FollowBranch
    /\ at' = "ready"
    /\ UNCHANGED <<remote, ask>>

(* The commit git is on its way to from another one, if it is.             *)
Underway ==
    IF at = "fetched" THEN {given} \ {home.head}
    ELSE IF at = "git" /\ ask.ref = Latest /\ CanPull
    THEN {remote[home.origin][home.on]} \ Ancestors[home.head]
    ELSE {}

(* It stops before HEAD is there: the files are of both commits, or already *)
(* of the other one.  A clone that stops is a checkout without all files.    *)
BrokenOff ==
    \/ /\ \E c \in Underway : tree' \in {c} \cup Uncommitted
       /\ UNCHANGED home
    \/ /\ at = "git" /\ CanClone
       /\ home' = Cloned
       /\ tree' \in Uncommitted

(* A git command fails, there is no install.py or nothing to run it with,    *)
(* or the run is killed: nothing is handed over, and what was fetched or     *)
(* checked out stays.                                                       *)
GitFails ==
    /\ at # "rest"
    /\ at' = "rest"
    /\ given' = NoCommit
    /\ BrokenOff \/ UNCHANGED <<home, tree>>
    /\ UNCHANGED <<remote, ask>>

(* Releases and rewritten branches, between runs and during them.           *)
RemoteMoves ==
    /\ \E r \in Repo, ref \in Ref : \E c \in Commit \cup {NoCommit} :
          /\ ref = Main => c # NoCommit
          /\ c # remote[r][ref]
          /\ remote' = [remote EXCEPT ![r][ref] = c]
    /\ UNCHANGED <<home, tree, ask, at, given>>

(* Between runs the checkout is the user's: another branch or commit, a     *)
(* commit on top, edited files or edits undone, or the whole of it gone.    *)
UserMovesHome ==
    /\ at = "rest"
    /\ \/ /\ home \in Clone
          /\ home' \in {h \in Clone : h.origin = home.origin}
          /\ tree' \in {home'.head} \cup Uncommitted
       \/ home' \in {NoHome, Foreign} /\ tree' = NoCommit
    /\ <<home, tree>>' # <<home, tree>>
    /\ UNCHANGED <<remote, ask, at, given>>
=============================================================================
