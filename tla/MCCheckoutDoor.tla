--------------------------- MODULE MCCheckoutDoor ---------------------------
(* One repository with a branch and a tag, a commit that is released, and    *)
(* two that build on it, of which each is a rewrite of the other.           *)
EXTENDS CheckoutDoor, TLC

CONSTANTS pub, main, tag, patched, released, next, rewritten

mcBuild == Commit \cup Uncommitted \cup {NoCommit}

mcAncestors ==
    [c \in Commit |-> {released, c}]

mcAsks == {[ref |-> r, repo |-> pub, inPlace |-> FALSE] : r \in {Latest, tag}}
             \cup {[ref |-> Latest, repo |-> pub, inPlace |-> TRUE]}

(* The branch ahead of the tag, or rewritten since. *)
mcPublished == {[p \in Repo |-> [r \in Ref |-> IF r = main THEN c ELSE released]] :
                   c \in Commit \ {released}}

(* The user's own script, or a symlink.  *)
mcFound == {Absent, Special, [bytes |-> patched, exec |-> TRUE]}

(* Nothing tells the two unreleased commits apart, nor two stamps.          *)
mcSymmetry == Permutations({next, rewritten}) \cup Permutations(Stamp)

(* What the last run was and how it ended matters to nothing once somebody   *)
(* has touched something and no run is under way: every run sets it anew,    *)
(* and the properties speak of an untouched end.                            *)
mcView ==
    <<remote, home, tree, at, build, disk, plan, step, staged, quiet, edits,
      IF at = "rest" /\ Idle /\ ~quiet THEN <<>> ELSE <<ask, given, req, outcome>> >>

mcRequests == [verb : {"install", "uninstall"}, force : BOOLEAN]
=============================================================================
