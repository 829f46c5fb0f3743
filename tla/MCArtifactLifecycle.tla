------------------------- MODULE MCArtifactLifecycle -------------------------
(* Small machines for ArtifactLifecycle: the checker, which is shared and     *)
(* never removed, a shared skill that refers to it, and opencode's plugin.   *)
EXTENDS ArtifactLifecycle, TLC

CONSTANTS checker, skill, plugin,   \* rows
          codex, opencode,          \* targets
          patched,                  \* bytes the user wrote
          unknown                   \* artifact_version's fallback

mcOwner == [a \in Artifact |-> IF a = plugin THEN opencode ELSE Shared]
mcOrder == [a \in Artifact |-> CASE a = checker -> 0 [] a = skill -> 3
                                 [] a = plugin -> 4]
mcNeeds == {p \in {<<skill, checker>>} : p \in Artifact \X Artifact}

(* Every release ships different bytes; they are the same for every row, as  *)
(* they are for the two rows of the checker.                                *)
mcRendered == [a \in Artifact |-> [v \in Version |-> v]]
mcFound == {Absent, patched, 1}
mcFoundFew == {Absent, patched}

(* Releases 1 and 3 ship the same file and 2 another one; a build whose      *)
(* version does not parse ships a third.                                    *)
mcRendered3 == [a \in Artifact |-> [v \in Version |->
                   IF v = 3 THEN 1 ELSE v]]

R(v, f, t) == [verb |-> v, force |-> f, targets |-> t]
Both == {codex, opencode}

mcAllRequests == {R(v, f, t) : v \in {"install", "uninstall"}, f \in BOOLEAN,
                               t \in {{codex}, {opencode}, Both}}
mcPairRequests == {R("install", f, Both) : f \in BOOLEAN}
                     \cup {R("uninstall", f, Both) : f \in BOOLEAN}
mcForcedInstall == {R("install", TRUE, {codex})}

=============================================================================
