------------------------------ MODULE CliZipapp ------------------------------
(***************************************************************************)
(* The zipapp ~/.local/bin/semlf as scripts/install.py --cli manages it.    *)
(*                                                                         *)
(* Two different questions are asked of the file.  Its identity (the        *)
(* contents of its members, its execute bit, its shebang) says whether it   *)
(* is this checkout's build; two builds of one checkout have one identity   *)
(* and different bytes, since a zip holds the time it was made.  Its digest *)
(* says whether the record proves it.  An install asks for the identity     *)
(* first, an uninstall lets a record that disagrees outrank it.             *)
(***************************************************************************)
CONSTANTS
    Build,           \* what a checkout can build: members, shebang
    Stamp,           \* the times that tell builds of one checkout apart
    UserText,        \* contents no checkout builds
    Absent, Torn, Directory, Special,  \* see FileValue and SlotValue
    NoRecord, Squatted,                \* see RecordValue
    NoBytes,
    NoRequest,
    Found,           \* what the user can have put at the destination
    Requests         \* the requests that are issued

Archive == [of : Build, stamp : Stamp]
Bytes == Archive \cup UserText

(* A regular file with or without its owner-execute bit, or an object that  *)
(* is not read: a symlink, a FIFO, an unreadable or oversized file.         *)
Regular == [bytes : Bytes, exec : BOOLEAN]
FileValue == Regular \cup {Absent, Directory, Special}
SlotValue == Bytes \cup {Absent, Torn}

(* The digest a record holds, or an object in its place that no record can  *)
(* replace.                                                                 *)
RecordValue == Bytes \cup {NoRecord, Squatted}

Request == [verb : {"install", "uninstall"}, force : BOOLEAN]
Action == {"none", "adopt", "write", "upgrade", "backup-replace", "remove"}

ASSUME CliValueAssumption ==
    /\ {Absent, Torn, NoBytes, NoRecord, Squatted} \cap Bytes = {}
    /\ {Absent, Directory, Special} \cap Regular = {}
    /\ Absent \notin {Torn, Directory, Special, NoBytes}
    /\ Directory # Special
    /\ NoRecord # Squatted
    /\ UserText \cap Archive = {}

ASSUME CliRequestAssumption ==
    /\ Requests \subseteq Request
    /\ NoRequest \notin Request
    /\ Found \subseteq FileValue

VARIABLES
    build,     \* what the checkout builds
    file,      \* ~/.local/bin/semlf
    bak,       \* the semlf.bak slot beside it
    record,    \* its provenance record
    req,       \* the request being served, or the last one served
    plan,      \* what is planned, "none" while no command runs
    step,      \* how far it has come
    staged,    \* the fresh build beside the destination
    outcome,   \* how the last command ended
    quiet      \* no change from outside since the last preflight

disk == <<file, bak, record>>
vars == <<build, file, bak, record, req, plan, step, staged, outcome, quiet>>

TypeOK ==
    /\ build \in Build
    /\ file \in FileValue
    /\ bak \in SlotValue
    /\ record \in RecordValue
    /\ req \in Request \cup {NoRequest}
    /\ plan \in Action
    /\ step \in {"start", "staged", "claimed", "saved", "published", "unlinked",
                "noted"}
    /\ staged \in Archive \cup {NoBytes}
    /\ outcome \in {"none", "ok", "refused", "error", "killed"}
    /\ quiet \in BOOLEAN

Init ==
    /\ build \in Build
    /\ file \in Found
    /\ bak \in {Absent} \cup UserText
    /\ record = NoRecord
    /\ req = NoRequest
    /\ plan = "none"
    /\ step = "start"
    /\ staged = NoBytes
    /\ outcome = "none"
    /\ quiet = FALSE

Idle == plan = "none"

-----------------------------------------------------------------------------
(* Preflight *)

(* pyz_state against a fresh build: the members and the execute bit, and    *)
(* never the stamp.                                                         *)
IsThisBuild ==
    file \in Regular /\ file.bytes \in Archive
        /\ file.bytes.of = build /\ file.exec

(* manifest.classify: the digest alone; the execute bit is not part of it.  *)
Managed == file \in Regular /\ file.bytes = record
Edited == file \in Regular /\ record \in Bytes /\ file.bytes # record

(* _plan_cli_install.  There is no comparison of versions: a managed copy   *)
(* gives way to any build.                                                  *)
InstallPlan(force) ==
    IF file = Absent THEN "write"
    ELSE IF file \notin Regular THEN "refuse"
    ELSE IF IsThisBuild THEN "adopt"
    ELSE IF Managed THEN "upgrade"
    ELSE IF force /\ bak = Absent THEN "backup-replace"
    ELSE "refuse"

(* _plan_cli: "none" when there is nothing to remove.                       *)
RemovePlan(force) ==
    IF file = Absent THEN "none"
    ELSE IF file # Directory
            /\ (force \/ Managed \/ (IsThisBuild /\ ~Edited)) THEN "remove"
    ELSE "refuse"

PlanFor(r) ==
    IF r.verb = "install" THEN InstallPlan(r.force) ELSE RemovePlan(r.force)

Admitted(r) == PlanFor(r) # "refuse"

Refuse(r) ==
    /\ Idle
    /\ ~Admitted(r)
    /\ req' = r
    /\ outcome' = "refused"
    /\ quiet' = TRUE
    /\ UNCHANGED <<build, disk, plan, step, staged>>

Accept(r) ==
    /\ Idle
    /\ Admitted(r)
    /\ req' = r
    /\ plan' = PlanFor(r)
    /\ outcome' = "ok"
    /\ quiet' = TRUE
    /\ UNCHANGED <<build, disk, step, staged>>

-----------------------------------------------------------------------------
(* Applying the plan *)

Installing == plan \in {"write", "upgrade", "backup-replace"}

(* The process ends.  A file staged beside the destination goes with it.    *)
End(how) ==
    /\ plan' = "none"
    /\ step' = "start"
    /\ staged' = NoBytes
    /\ outcome' = how

(* A fresh build is staged in the destination's directory. *)
Stage ==
    /\ Installing /\ step = "start"
    /\ \E s \in Stamp : staged' = [of |-> build, stamp |-> s]
    /\ step' = "staged"
    /\ UNCHANGED <<build, disk, req, plan, outcome, quiet>>

(* exclusive_backup: the slot is claimed with O_EXCL and then filled.       *)
ClaimSlot ==
    /\ plan = "backup-replace" /\ step = "staged"
    /\ bak = Absent
    /\ bak' = Torn
    /\ step' = "claimed"
    /\ UNCHANGED <<build, file, record, req, plan, staged, outcome, quiet>>

FillSlot ==
    /\ step = "claimed"
    /\ bak' = file.bytes
    /\ step' = "saved"
    /\ UNCHANGED <<build, file, record, req, plan, staged, outcome, quiet>>

(* A bug: --force overwrites like an upgrade, without the backup. *)
ReadyWithoutBackup == Installing /\ step = "staged"

ReadyToPublish ==
    \/ plan \in {"write", "upgrade"} /\ step = "staged"
    \/ plan = "backup-replace" /\ step = "saved"

Publish ==
    /\ ReadyToPublish
    /\ file' = [bytes |-> staged, exec |-> TRUE]
    /\ step' = "published"
    /\ UNCHANGED <<build, bak, record, req, plan, staged, outcome, quiet>>

(* A bug: an adoption records the digest of the build it compared with. *)
ProofOfFreshBuild ==
    IF plan = "adopt" THEN [of |-> build, stamp |-> CHOOSE s \in Stamp : TRUE]
    ELSE staged

(* What the record is to prove: the staged bytes, or for an adoption the    *)
(* bytes in place and not those of the build they were compared with.       *)
ProofOf == IF plan = "adopt" THEN file.bytes ELSE staged

ToRecord ==
    \/ plan = "adopt" /\ step = "start"
    \/ step = "published"

Record ==
    /\ ToRecord
    /\ record # Squatted
    /\ record' = ProofOf
    /\ step' = "noted"
    /\ UNCHANGED <<build, file, bak, req, plan, staged, outcome, quiet>>

Unlink ==
    /\ plan = "remove" /\ step = "start"
    /\ file' = Absent
    /\ step' = "unlinked"
    /\ UNCHANGED <<build, bak, record, req, plan, staged, outcome, quiet>>

Forget ==
    /\ step = "unlinked"
    /\ record # Squatted
    /\ record' = NoRecord
    /\ step' = "noted"
    /\ UNCHANGED <<build, file, bak, req, plan, staged, outcome, quiet>>

Finish ==
    /\ step = "noted"
    /\ End(outcome)
    /\ UNCHANGED <<build, disk, req, quiet>>

-----------------------------------------------------------------------------
(* Failures *)

(* A bug: a backup that could not be completed keeps its slot. *)
AbortKeepingSlot ==
    /\ ~Idle /\ step # "noted"
    /\ End("error")
    /\ UNCHANGED <<build, file, bak, record, req, quiet>>

(* Any step can raise; writing or removing a record where something squats  *)
(* always does.  The staged file is removed and the run ends in an error.   *)
(* exclusive_backup gives back a slot it could not fill; a slot that was    *)
(* filled stays, also when the rename after it fails.                       *)
Abort ==
    /\ ~Idle /\ step # "noted"
    /\ bak' = IF step = "claimed" THEN Absent ELSE bak
    /\ End("error")
    /\ UNCHANGED <<build, file, record, req, quiet>>

Kill ==
    /\ ~Idle
    /\ End("killed")
    /\ UNCHANGED <<build, disk, req, quiet>>

-----------------------------------------------------------------------------
(* The world between commands *)

Change ==
    /\ Idle
    /\ quiet' = FALSE

(* The file is replaced or removed, its execute bit is flipped, the backup  *)
(* is moved aside or one is made, the record is lost or squatted on.        *)
User ==
    /\ Change
    /\ \/ /\ \/ file' \in Found \cup {Absent}
             \/ file \in Regular /\ file' = [file EXCEPT !.exec = ~@]
          /\ UNCHANGED <<bak, record>>
       \/ bak' \in {Absent} \cup UserText /\ UNCHANGED <<file, record>>
       \/ record' \in {NoRecord, Squatted} /\ UNCHANGED <<file, bak>>
    /\ UNCHANGED <<build, req, plan, step, staged, outcome>>

(* The checkout is worked on, and may build another archive from now on.     *)
Move ==
    /\ Change
    /\ build' \in Build
    /\ UNCHANGED <<disk, req, plan, step, staged, outcome>>

-----------------------------------------------------------------------------
Apply ==
    \/ Stage \/ ClaimSlot \/ FillSlot \/ Publish \/ Record
    \/ Unlink \/ Forget
    \/ Finish

Next ==
    \/ \E r \in Requests : Refuse(r) \/ Accept(r)
    \/ Apply \/ Abort \/ Kill
    \/ User \/ Move

Spec == Init /\ [][Next]_vars

-----------------------------------------------------------------------------
(* Properties *)

Untouched == Idle /\ quiet

(* Exit status 0 is the truth (apply_plan): after an install the file is    *)
(* this checkout's build, runs, and is proven by its record, so that the    *)
(* next version finds it managed; after an uninstall it is gone.            *)
CliSuccessIsComplete ==
    Untouched /\ outcome = "ok" =>
        /\ req.verb = "install" => IsThisBuild /\ record = file.bytes
        /\ req.verb = "uninstall" => file = Absent

(* The bytes a destination holds, whatever its execute bit. *)
Content == IF file \in Regular THEN file.bytes ELSE file

(* "A re-run converges" (apply_plan): a command that raised or was killed   *)
(* at any step is admitted again, though the new file may be in place with  *)
(* a record of the old one, or with none.  The exception is the slot of a   *)
(* forced install, which only a failed copy gives back (_do keeps it when   *)
(* the rename fails): there the slot holds a copy of the file, or after a   *)
(* kill the beginning of one, and can be moved aside as the refusal says.   *)
CliRerunAdmitted ==
    Untouched /\ outcome \in {"error", "killed"} =>
        \/ Admitted(req)
        \/ /\ req = [verb |-> "install", force |-> TRUE]
           /\ \/ bak = Content
              \/ bak = Torn /\ outcome = "killed"

(* Bytes that no record proves and no checkout builds are in the file or in *)
(* its backup, through every failure and kill, unless the user asked for    *)
(* `--uninstall --force`: the promise of the lifecycle engine, kept by a    *)
(* leg that decides by identity where the engine decides by bytes.          *)
CliPromise == INSTANCE OwnershipPromise WITH
    Artifact <- {"cli"},
    KitBytes <- [a \in {"cli"} |-> Archive],
    FileValue <- Bytes \cup {Absent, Directory, Special},
    SlotValue <- SlotValue,
    file <- [a \in {"cli"} |-> Content],
    bak <- [a \in {"cli"} |-> bak],
    proof <- [a \in {"cli"} |-> IF record \in Bytes THEN {record} ELSE {}],
    busy <- ~Idle,
    waived <- IF plan = "remove" /\ req.force THEN {"cli"} ELSE {}

CliPromiseKept == CliPromise!Spec
=============================================================================
