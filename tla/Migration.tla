------------------------------- MODULE Migration -------------------------------
(***************************************************************************)
(* An older layout gave every agent its own copy of the skill; this one      *)
(* publishes it once, in a root that all agents read (cli/semlf/lifecycle.py: *)
(* project_retired, plan_forget_retired, plan_legacy_cleanup, plan_install,  *)
(* plan_shared_removal, plan_remove_targets).                                *)
(*                                                                         *)
(* A machine that comes from the older layout has records under retired      *)
(* names, and perhaps opencode's own copy, which would win over the shared   *)
(* one.  Install and uninstall must carry the proof of the shared file over, *)
(* remove the copy, and never take the one for the other: the two paths may  *)
(* be joined by a symlink or a bind mount, or be links to one file.          *)
(*                                                                         *)
(* One skill is modelled, with the release that is installed fixed; the      *)
(* order of releases is the subject of ArtifactLifecycle.                    *)
(***************************************************************************)
EXTENDS Integers, Sequences, FiniteSets, Functions

CONSTANTS
    Kit,          \* bytes that some release of the kit wrote
    Now,          \* the bytes the running release renders
    Mine,         \* bytes of the user
    Absent,       \* no file
    None,         \* no record
    Topologies,   \* how the two paths may be related
    Foreign,      \* stands for no target that reads the skill (agentsmd)
    MaxFaults,    \* steps that fail
    MaxOutside    \* changes between commands

ASSUME ByteAssumption ==
    /\ Now \in Kit
    /\ Mine \notin Kit
    /\ {Absent, None} \cap (Kit \cup {Mine}) = {}

Agent == {"codex", "opencode"}
Bytes == Kit \cup {Mine}

(* "apart": two files.  "hard": two names of one file.  "leaf": opencode's   *)
(* path is a symlink to the shared file.  "joined", "bound": a directory     *)
(* above is a symlink, or a bind mount, and the two paths are one entry.     *)
Topology == {"apart", "hard", "leaf", "joined", "bound"}

ASSUME TopologyAssumption ==
    /\ Topologies \subseteq Topology
    /\ Foreign \notin Agent
    /\ MaxFaults \in Nat
    /\ MaxOutside \in Nat

Live == "skill"
Retired == {"codex-skill", "opencode-skill"}
Name == {Live} \cup Retired

Request == [verb : {"install", "uninstall"}, force : BOOLEAN,
            targets : (SUBSET Agent \ {{}}) \cup {{Foreign}}]

VARIABLES
    topology,
    shared,     \* the file at the shared path
    legacy,     \* the file at opencode's own path, where that is another entry
    saved,      \* the backup beside the shared file
    rec,        \* [Name -> the digest it records, or None]
    req,        \* the request being served, or served last
    todo,       \* the steps that are left of it
    noted,      \* a step of it left a note: it will exit 1
    outcome,
    faults,
    outside

disk == <<topology, shared, legacy, saved, rec>>
vars == <<disk, req, todo, noted, outcome, faults, outside>>

Init ==
    /\ topology \in Topologies
    /\ shared \in Bytes \cup {Absent}
    /\ legacy \in Bytes \cup {Absent}
    /\ topology = "hard" => shared # Absent /\ legacy = shared
    /\ topology \notin {"apart", "hard"} => legacy = Absent
    /\ saved \in {Absent, Mine}
    /\ rec \in [Name -> Kit \cup {None}]
    /\ req = [verb |-> "install", force |-> FALSE, targets |-> {Foreign}]
    /\ todo = <<>>
    /\ noted = FALSE
    /\ outcome = "none"
    /\ faults = 0
    /\ outside = 0

-----------------------------------------------------------------------------
(* Which paths are one file, and what a record proves *)

(* The two parent directories are one.                                      *)
OneEntry == topology \in {"joined", "bound"}

(* The old opencode record names opencode's path, the others the shared one. *)
OwnPath(n) == n = "opencode-skill"

(* same_file: device and inode, through links and mounts.                    *)
SameFile(n) == shared # Absent /\ (OwnPath(n) => topology # "apart")

(* realpath sees symlinks, not mounts and not hard links.                    *)
SameRealpath(n) == OwnPath(n) => topology \in {"joined", "leaf"}

Proving == {n \in Retired : rec[n] # None /\ SameFile(n)}

(* RetiredRecordConflict.                                                   *)
Conflict == \E m, n \in Proving : rec[m] # rec[n]

(* project_retired: the record that is presented under the live name; of the *)
(* retired ones that prove the shared file the first.                       *)
Projected ==
    IF rec[Live] # None \/ Proving = {} THEN Live
    ELSE IF "codex-skill" \in Proving THEN "codex-skill"
    ELSE "opencode-skill"

(* classify_entry on the shared file.                                       *)
Managed == /\ shared # Absent
           /\ rec[Projected] = shared
           /\ SameRealpath(Projected)

-----------------------------------------------------------------------------
(* opencode's own copy *)

LegacyThere ==
    CASE topology \in {"apart", "hard"} -> legacy # Absent
      [] topology = "leaf" -> TRUE
      [] OneEntry -> shared # Absent

(* Two bugs: the files are compared instead of their directories; nothing is *)
(* compared.                                                                *)
RivalByFile == LegacyThere /\ ~SameFile("opencode-skill")
RivalAlways == LegacyThere

(* It is an entry of its own: removing it leaves the shared file in place.   *)
Rival == LegacyThere /\ ~OneEntry

(* A bug: the record is not compared with the bytes.                         *)
RecordedLegacy == rec["opencode-skill"] # None /\ topology # "leaf"

(* legacy_provable.  Nothing proves a symlink.                               *)
LegacyProvable ==
    /\ rec["opencode-skill"] # None
    /\ CASE topology \in {"apart", "hard"} -> legacy = rec["opencode-skill"]
         [] topology = "leaf" -> FALSE
         [] OneEntry -> shared = rec["opencode-skill"]

LegacyPlan == <<[op |-> "unlink-legacy"], [op |-> "forget", name |-> "opencode-skill"]>>

CleanupRefuses == Rival /\ ~LegacyProvable
Cleanup == IF Rival /\ LegacyProvable THEN LegacyPlan ELSE <<>>

(* The retired names whose file a cleanup could remove, on any request.      *)
LegacyOwned == IF Cleanup # <<>> THEN {"opencode-skill"} ELSE {}

(* What doctor says of the copy (_opencode_competitor_check).               *)
AdviceBranch(clears) ==
    IF ~LegacyThere THEN "quiet"
    ELSE IF shared = Absent THEN "run install"
    ELSE IF SameFile("opencode-skill") THEN "quiet"
    ELSE IF clears THEN "install clears it"
    ELSE "move it aside"

(* A bug: a copy that holds what the shared file holds is taken for the kit's. *)
AdviceByBytes == AdviceBranch(legacy = shared)

Advice == AdviceBranch(LegacyProvable)

-----------------------------------------------------------------------------
(* Preflight *)

Selects(r) == r.targets \cap Agent # {}

(* classify_artifact on the shared file, as the steps apply_file takes, or   *)
(* <<>> when it refuses.                                                    *)
SkillPlan(force) ==
    LET record == [op |-> "record"]
        publish == [op |-> "publish"]
    IN  CASE shared = Now -> <<record>>
          [] shared = Absent \/ (shared # Now /\ Managed) -> <<publish, record>>
          [] shared \notin {Absent, Now} /\ ~Managed /\ force /\ saved = Absent ->
                <<[op |-> "backup"], publish, record>>
          [] OTHER -> <<>>

(* plan_forget_retired, for the names in their order.                        *)
ForgetIf(n, names) ==
    IF n \in names THEN <<[op |-> "forget", name |-> n]>> ELSE <<>>
Forgets(names) == ForgetIf("codex-skill", names) \o ForgetIf("opencode-skill", names)

(* Three bugs: the row loop forgets the names of the cleanup too; the copy    *)
(* goes before the file that replaces it is there; the aliases go before     *)
(* the row that absorbs them.                                               *)
InstallPlanForgetful(r) ==
    (IF Selects(r) THEN SkillPlan(r.force) \o Forgets(Proving) ELSE <<>>)
    \o (IF "opencode" \in r.targets THEN Cleanup ELSE <<>>)
InstallPlanCleaningFirst(r) ==
    (IF "opencode" \in r.targets THEN Cleanup ELSE <<>>)
    \o (IF Selects(r) THEN SkillPlan(r.force) ELSE <<>>)
InstallPlanAliasesFirst(r) ==
    (IF Selects(r)
     THEN Forgets(Proving \ LegacyOwned) \o SkillPlan(r.force)
     ELSE <<>>)
    \o (IF "opencode" \in r.targets THEN Cleanup ELSE <<>>)

(* plan_install: the row and its aliases; the copy last, and only for a      *)
(* request that names opencode.                                             *)
InstallPlan(r) ==
    (IF Selects(r)
     THEN SkillPlan(r.force) \o Forgets(Proving \ LegacyOwned)
     ELSE <<>>)
    \o (IF "opencode" \in r.targets THEN Cleanup ELSE <<>>)

(* Disagreeing records refuse every install, the one of the snippet alone    *)
(* included.                                                                *)
InstallRefuses(r) ==
    \/ Conflict
    \/ Selects(r) /\ SkillPlan(r.force) = <<>>
    \/ "opencode" \in r.targets /\ CleanupRefuses

(* plan_shared_removal: a file that is not there is not forgotten either.    *)
SharedRemoval ==
    IF shared = Absent THEN <<>>
    ELSE <<[op |-> "unlink-shared"], [op |-> "forget", name |-> Live]>>
            \o Forgets(Proving)

(* plan_remove_targets: the copy, then the shared file for the request that  *)
(* names every agent.                                                       *)
UninstallPlan(r) ==
    (IF "opencode" \in r.targets THEN Cleanup ELSE <<>>)
    \o (IF Agent \subseteq r.targets THEN SharedRemoval ELSE <<>>)

UninstallRefuses(r) ==
    \/ "opencode" \in r.targets /\ CleanupRefuses
    \/ /\ Agent \subseteq r.targets
       /\ \/ Conflict
          \/ shared \notin {Absent, Now} /\ ~Managed /\ ~r.force

Plan(r) == IF r.verb = "install" THEN InstallPlan(r) ELSE UninstallPlan(r)
Refused(r) == IF r.verb = "install" THEN InstallRefuses(r) ELSE UninstallRefuses(r)

Refuse(r) ==
    /\ Refused(r)
    /\ outcome' = "refused"
    /\ todo' = <<>>
    /\ UNCHANGED noted

Accept(r) ==
    /\ ~Refused(r)
    /\ todo' = Plan(r)
    /\ noted' = FALSE
    /\ outcome' = IF Plan(r) = <<>> THEN "ok" ELSE "running"

Start(r) ==
    /\ outcome # "running"
    /\ req' = r
    /\ Refuse(r) \/ Accept(r)
    /\ UNCHANGED <<disk, faults, outside>>

-----------------------------------------------------------------------------
(* Apply *)

Advance(note) ==
    /\ todo' = Tail(todo)
    /\ noted' = (noted \/ note)
    /\ outcome' = IF Tail(todo) # <<>> THEN "running"
                  ELSE IF noted \/ note THEN "error" ELSE "ok"
    /\ UNCHANGED <<req, outside>>

AtStep(op) == outcome = "running" /\ Head(todo).op = op

(* A name of its own no longer is one of the same file.                      *)
Unlinked == IF topology = "hard" THEN "apart" ELSE topology

Backup ==
    /\ AtStep("backup")
    /\ saved' = shared
    /\ Advance(FALSE)
    /\ UNCHANGED <<topology, shared, legacy, rec, faults>>

(* A rename over the name: a second link keeps the old file.                 *)
Publish ==
    /\ AtStep("publish")
    /\ shared' = Now
    /\ topology' = Unlinked
    /\ Advance(FALSE)
    /\ UNCHANGED <<legacy, saved, rec, faults>>

Record ==
    /\ AtStep("record")
    /\ rec' = [rec EXCEPT ![Live] = Now]
    /\ Advance(FALSE)
    /\ UNCHANGED <<topology, shared, legacy, saved, faults>>

Forget ==
    /\ AtStep("forget")
    /\ rec' = [rec EXCEPT ![Head(todo).name] = None]
    /\ Advance(FALSE)
    /\ UNCHANGED <<topology, shared, legacy, saved, faults>>

(* What unlinking the path removes when it is one entry with the other.      *)
UnlinkLegacy ==
    /\ AtStep("unlink-legacy")
    /\ legacy' = Absent
    /\ shared' = IF OneEntry THEN Absent ELSE shared
    /\ topology' = IF topology = "leaf" THEN "apart" ELSE Unlinked
    /\ Advance(FALSE)
    /\ UNCHANGED <<saved, rec, faults>>

UnlinkShared ==
    /\ AtStep("unlink-shared")
    /\ shared' = Absent
    /\ topology' = Unlinked
    /\ Advance(FALSE)
    /\ UNCHANGED <<legacy, saved, rec, faults>>

(* A record that cannot be written or removed is a note, and the plan goes on. *)
Note ==
    /\ AtStep("forget") \/ AtStep("record")
    /\ faults < MaxFaults
    /\ faults' = faults + 1
    /\ Advance(TRUE)
    /\ UNCHANGED disk

(* Any other failure ends the plan; a publication gives its backup back.     *)
Abort ==
    /\ outcome = "running"
    /\ Head(todo).op \notin {"forget", "record"}
    /\ faults < MaxFaults
    /\ faults' = faults + 1
    /\ saved' = IF Head(todo).op = "publish" /\ ~Managed /\ shared \notin {Absent, Now}
                THEN Absent ELSE saved
    /\ todo' = <<>>
    /\ outcome' = "error"
    /\ UNCHANGED <<topology, shared, legacy, rec, req, noted, outside>>

Kill ==
    /\ outcome = "running"
    /\ faults < MaxFaults
    /\ faults' = faults + 1
    /\ todo' = <<>>
    /\ outcome' = "killed"
    /\ UNCHANGED <<disk, req, noted, outside>>

Apply == Backup \/ Publish \/ Record \/ Forget \/ UnlinkLegacy \/ UnlinkShared
            \/ Note \/ Abort \/ Kill

-----------------------------------------------------------------------------
(* Between commands *)

Change ==
    /\ outcome # "running"
    /\ outside < MaxOutside
    /\ outside' = outside + 1
    /\ outcome' = "none"
    /\ UNCHANGED <<req, todo, noted, faults>>

(* A user's editor replaces the file; with Mine, or back to what it was.     *)
UserShared(b) ==
    /\ Change
    /\ shared' = b
    /\ topology' = Unlinked
    /\ UNCHANGED <<legacy, saved, rec>>

UserLegacy(b) ==
    /\ Change
    /\ topology \in {"apart", "hard"}
    /\ legacy' = b
    /\ topology' = Unlinked
    /\ UNCHANGED <<shared, saved, rec>>

UserMovesBackup ==
    /\ Change
    /\ saved # Absent
    /\ saved' = Absent
    /\ UNCHANGED <<topology, shared, legacy, rec>>

(* A release of the older layout, for one agent: it writes that agent's copy  *)
(* and its record.                                                          *)
OldRelease(n, b) ==
    /\ Change
    /\ n \in Retired
    /\ topology # "leaf"
    /\ IF OwnPath(n) /\ ~OneEntry
       THEN legacy' = b /\ UNCHANGED shared
       ELSE shared' = b /\ UNCHANGED legacy
    /\ topology' = Unlinked
    /\ rec' = [rec EXCEPT ![n] = b]
    /\ UNCHANGED saved

Outside ==
    \/ \E b \in Bytes \cup {Absent} : UserShared(b) \/ UserLegacy(b)
    \/ UserMovesBackup
    \/ \E n \in Retired, b \in Kit : OldRelease(n, b)

Next == Apply \/ Outside \/ \E r \in Request : Start(r)

Spec == Init /\ [][Next]_vars

-----------------------------------------------------------------------------
(* Properties *)

Working == outcome = "running" /\ outside' = outside

(* opencode's own copy, as an entry that opencode would find.                *)
OwnCopy == topology = "leaf" \/ legacy # Absent
Proved == legacy # Absent /\ rec["opencode-skill"] = legacy

(* While its bytes stay, the shared file never loses its proof to a command  *)
(* that keeps quiet about it: a retired record goes when the live one has    *)
(* taken over.  Where the live record could not be written, the plan forgets *)
(* the retired one all the same, but the run is bound to exit 1.            *)
ProofIsCarriedOver ==
    [][Working /\ Managed /\ shared' = shared => Managed' \/ noted']_vars

(* As long as opencode's own copy stays, so does the proof that lets the     *)
(* next command remove it, whatever that copy is linked to and whichever     *)
(* agent the command is for.                                                *)
LegacyStaysProvable ==
    [][Working /\ Proved /\ legacy' = legacy => Proved']_vars

(* An install removes opencode's copy only when the shared file is this      *)
(* release's: opencode never loses both, nor falls back to an older one.     *)
ReplacementFirst ==
    [][Working /\ req.verb = "install" /\ OwnCopy /\ ~OwnCopy' => shared = Now]_vars

(* Cleaning up never takes the shared file, whichever way the two paths are  *)
(* joined: it goes only when every agent is named in an uninstall.           *)
SharedSurvivesCleanup ==
    [][Working /\ shared # Absent /\ shared' = Absent
         => req.verb = "uninstall" /\ Agent \subseteq req.targets]_vars

(* What a run that reports success leaves behind: after an install the       *)
(* shared file is this release's and the live name records it, and for       *)
(* opencode no copy that would win over the shared one, so that doctor has   *)
(* nothing to say about it.                                                 *)
MigrationIsComplete ==
    outcome = "ok" =>
        /\ req.verb = "install" /\ Selects(req) => shared = Now /\ rec[Live] = Now
        /\ "opencode" \in req.targets => ~OwnCopy /\ Advice = "quiet"

(* Doctor names `semlf install` for a copy beside which no shared skill is    *)
(* published, whether or not a record proves the copy.                      *)
UnprovenRemedy == Advice = "run install" /\ ~LegacyProvable

(* "A second copy of the condition is how a verb comes to promise what the   *)
(* other refuses" (legacy_provable): every remedy that doctor names for      *)
(* opencode's copy is held against the next install for opencode.  The copy  *)
(* doctor calls unprovable is refused; the one it says install clears, or    *)
(* sends the user to install for, install takes away, or refuses for another *)
(* reason than this copy.  The one exception is the code's, against the      *)
(* docstring (doctor.py:270-273, 290-294): an unproven copy beside which     *)
(* nothing is published, where the command doctor names always fails.        *)
DoctorErrsInOneCase ==
    [][\A r \in Request :
          Start(r) /\ r.verb = "install" /\ "opencode" \in r.targets =>
             /\ Advice = "move it aside" \/ UnprovenRemedy => outcome' = "refused"
             /\ Advice \in {"run install", "install clears it"} /\ ~UnprovenRemedy =>
                   \/ [op |-> "unlink-legacy"] \in Range(todo')
                   \/ Conflict
                   \/ SkillPlan(r.force) = <<>>]_vars

(* What was not written by the kit is removed by force only, and only at the *)
(* shared path; an install saves it first.                                  *)
UnprovenIsKept ==
    [][Working =>
         /\ legacy = Mine => legacy' = Mine
         /\ shared = Mine /\ shared' # Mine =>
               /\ req.force
               /\ req.verb = "install" => saved = Mine]_vars

(* Unless the retired records contradict each other, a command that ended,   *)
(* well or with an error, is admitted again.                                *)
RerunAdmitted ==
    outcome \in {"ok", "error"} /\ (\A m, n \in Retired : None \in {rec[m], rec[n]} \/ rec[m] = rec[n])
        => ~Refused(req)
=============================================================================
