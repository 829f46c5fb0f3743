-------------------------- MODULE ArtifactLifecycle --------------------------
(***************************************************************************)
(* The lifecycle engine of semlf (cli/semlf/lifecycle.py, classify.py,      *)
(* manifest.py) over its recorded single-file artifacts.                    *)
(*                                                                         *)
(* A command classifies every artifact of its request first, reading only,  *)
(* and any refusal ends it before the first write.  Otherwise the planned   *)
(* artifacts are applied one after another, and each takes several steps:   *)
(* back up, publish, record the provenance; or unlink, forget it.  Nothing  *)
(* is rolled back.  Any step can fail, the process can be killed between    *)
(* two steps, and the user edits the files between commands (during them    *)
(* too, where EditsDuringRun says so).                                      *)
(***************************************************************************)
EXTENDS Integers

CONSTANTS
    Artifact,        \* the recorded rows of the registry
    Target,          \* the agent targets (AGENT_TARGETS)
    Shared,          \* the owner of a row every agent target publishes
    Owner,           \* [Artifact -> Target \cup {Shared}]: the owner field
    Order,           \* [Artifact -> Nat]: the order field
    Retained,        \* shared rows no uninstall removes (checker, readme)
    Needs,           \* set of <<a, b>>: artifact a refers to the file of b
    Release,         \* version numbers that parse, ordered as dotted tuples
    Unorderable,     \* a version string that does not parse
    Rendered,        \* [Artifact -> [Version -> Bytes]]: the transforms
    UserText,        \* bytes only the user writes
    Absent, Torn, Directory, Special,  \* see FileValue and SlotValue
    NoRecord, Squatted,                \* see RecordValue
    NoRequest,
    Found,           \* what the destinations hold before the first command
    Requests,        \* the requests that are issued
    MaxFaults,       \* how many steps fail or processes are killed
    MaxEdits,        \* how often the machine is changed from outside
    KillsAllowed,    \* whether a process can be killed
    Interrupts,      \* whether Ctrl-C reaches a command while it replaces a file
    EditsDuringRun   \* whether the user edits while a command is at work

Version == Release \cup {Unorderable}

(* The bytes of every release of every artifact, and the user's own.        *)
KitBytes == [a \in Artifact |-> {Rendered[a][v] : v \in Version}]
Bytes == UNION {KitBytes[a] : a \in Artifact} \cup UserText

(* object_state, with symlink, special and unreadable in one value: the     *)
(* verbs treat the three alike.                                             *)
FileValue == Bytes \cup {Absent, Directory, Special}

(* A backup slot is free or it is not; Torn is a backup that was cut short. *)
SlotValue == Bytes \cup {Absent, Torn}

(* A record proves that the installer staged the bytes sha for this path.   *)
(* Squatted is an object at the record's path that no record can replace.   *)
Proof == [sha : Bytes, version : Version]
RecordValue == Proof \cup {NoRecord, Squatted}

Request == [verb : {"install", "uninstall"}, force : BOOLEAN,
            targets : SUBSET Target \ {{}}]

Action == {"none", "adopt", "write", "replace", "backup-replace", "remove"}

ASSUME RowAssumption ==
    /\ Shared \notin Target
    /\ Owner \in [Artifact -> Target \cup {Shared}]
    /\ Order \in [Artifact -> Nat]
    /\ \A a, b \in Artifact : Order[a] = Order[b] => a = b
    /\ Retained \subseteq {a \in Artifact : Owner[a] = Shared}
    /\ Needs \subseteq Artifact \X Artifact

ASSUME VersionAssumption ==
    /\ Release \subseteq Nat
    /\ Unorderable \notin Release
    /\ \A a \in Artifact : DOMAIN Rendered[a] = Version

ASSUME ValueAssumption ==
    /\ {Absent, Torn, Directory, Special} \cap Bytes = {}
    /\ Absent \notin {Torn, Directory, Special}
    /\ Torn \notin {Directory, Special}
    /\ Directory # Special
    /\ {NoRecord, Squatted} \cap Proof = {}
    /\ NoRecord # Squatted

ASSUME RequestAssumption ==
    /\ Requests \subseteq Request
    /\ NoRequest \notin Request
    /\ Found \subseteq FileValue
    /\ MaxFaults \in Nat
    /\ MaxEdits \in Nat
    /\ KillsAllowed \in BOOLEAN
    /\ Interrupts \in BOOLEAN
    /\ EditsDuringRun \in BOOLEAN

VARIABLES
    file,      \* the destinations
    bak,       \* the <name>.bak slot beside each destination
    record,    \* the provenance record of each artifact
    running,   \* the version of the semlf the user runs
    req,       \* the request being served, or the last one served
    phase,     \* "idle", "consent" (the prompt is up) or "apply"
    verdict,   \* what is planned for each artifact, "none" once it is done
    snapshot,  \* the bytes each artifact was classified by
    step,      \* how far the artifact being applied has come
    outcome,   \* how the last command ended
    quiet,     \* no change from outside since the last preflight
    faults,    \* failed steps so far
    edits      \* changes from outside so far

disk == <<file, bak, record>>
command == <<req, phase, verdict, snapshot, step, outcome>>
vars == <<file, bak, record, running, req, phase, verdict, snapshot, step,
          outcome, quiet, faults, edits>>

TypeOK ==
    /\ file \in [Artifact -> FileValue]
    /\ bak \in [Artifact -> SlotValue]
    /\ record \in [Artifact -> RecordValue]
    /\ running \in Version
    /\ req \in Request \cup {NoRequest}
    /\ phase \in {"idle", "consent", "apply"}
    /\ verdict \in [Artifact -> Action]
    /\ snapshot \in [Artifact -> Bytes \cup {Absent}]
    /\ step \in {"start", "claimed", "saved", "published", "unlinked"}
    /\ outcome \in {"none", "ok", "refused", "declined", "error", "killed"}
    /\ quiet \in BOOLEAN
    /\ faults \in 0..MaxFaults
    /\ edits \in 0..MaxEdits

NothingPlanned == [a \in Artifact |-> "none"]
NothingRead == [a \in Artifact |-> Absent]

Init ==
    /\ file \in [Artifact -> Found]
    /\ bak \in [Artifact -> {Absent} \cup (Found \cap Bytes)]
    /\ record = [a \in Artifact |-> NoRecord]
    /\ running \in Version
    /\ req = NoRequest
    /\ phase = "idle"
    /\ verdict = NothingPlanned
    /\ snapshot = NothingRead
    /\ step = "start"
    /\ outcome = "none"
    /\ quiet = FALSE
    /\ faults = 0
    /\ edits = 0

-----------------------------------------------------------------------------
(* Preflight: which artifacts a request names, and what becomes of each.    *)

Now(a) == Rendered[a][running]

(* The recorded rows an install request selects: a shared row with any      *)
(* agent target, every other row with its own.                              *)
Selected(r) == {a \in Artifact : Owner[a] \in r.targets \cup {Shared}}

(* The files an uninstall request removes: the targets' own, and the shared *)
(* skills only when every agent target is named.                            *)
Doomed(r) == {a \in Artifact :
                 \/ Owner[a] \in r.targets
                 \/ Owner[a] = Shared /\ r.targets = Target /\ a \notin Retained}

Scope(r) == IF r.verb = "install" THEN Selected(r) ELSE Doomed(r)

(* A bug: the record's path is compared and its digest is not. *)
ManagedByPath(a) == record[a] \in Proof /\ file[a] \in Bytes

(* The record proves the bytes in place. *)
Managed(a) == record[a] \in Proof /\ file[a] = record[a].sha

(* Managed bytes give way to a release that is not older than theirs, and   *)
(* to any with --force.                                                     *)
Replaceable(a, force) ==
    /\ Managed(a)
    /\ \/ force
       \/ /\ record[a].version \in Release /\ running \in Release
          /\ record[a].version <= running

(* Bytes that nothing proves are saved first, if --force says to replace    *)
(* them and the slot is free.                                               *)
Savable(a, force) ==
    file[a] \in Bytes /\ ~Managed(a) /\ force /\ bak[a] = Absent

(* A bug: a correct file without a record is not adopted. *)
VerdictWithoutAdoption(a, force) ==
    IF record[a] = Squatted THEN "refuse"
    ELSE IF file[a] = Absent THEN "write"
    ELSE IF Replaceable(a, force) THEN "replace"
    ELSE IF Savable(a, force) THEN "backup-replace"
    ELSE "refuse"

(* classify_artifact and the record preflight: the action that installs a,  *)
(* or "refuse".                                                             *)
InstallVerdict(a, force) ==
    IF record[a] = Squatted THEN "refuse"
    ELSE IF file[a] = Absent THEN "write"
    ELSE IF file[a] = Now(a) THEN "adopt"
    ELSE IF Replaceable(a, force) THEN "replace"
    ELSE IF Savable(a, force) THEN "backup-replace"
    ELSE "refuse"

(* plan_remove_file: "none" when there is nothing to remove.  What cannot   *)
(* be proved, or is no regular file, is removed with --force alone, and a   *)
(* directory never.                                                         *)
RemoveVerdict(a, force) ==
    IF file[a] = Absent THEN "none"
    ELSE IF file[a] # Directory
            /\ (force \/ file[a] = Now(a) \/ Managed(a)) THEN "remove"
    ELSE "refuse"

VerdictFor(r, a) ==
    IF a \notin Scope(r) THEN "none"
    ELSE IF r.verb = "install" THEN InstallVerdict(a, r.force)
    ELSE RemoveVerdict(a, r.force)

Admitted(r) == \A a \in Artifact : VerdictFor(r, a) # "refuse"

-----------------------------------------------------------------------------
(* Commands *)

(* Request-wide preflight: one refusal and nothing is written.              *)
Refuse(r) ==
    /\ phase = "idle"
    /\ ~Admitted(r)
    /\ req' = r
    /\ outcome' = "refused"
    /\ quiet' = TRUE
    /\ UNCHANGED <<disk, running, phase, verdict, snapshot, step, faults, edits>>

(* An admitted request: its plan is fixed here, with the bytes each file    *)
(* was classified by.  An install that names no target shows the plan and   *)
(* asks first (ask); one that names its targets, or says --yes, does not.   *)
Accept(r, ask) ==
    /\ phase = "idle"
    /\ Admitted(r)
    /\ ask => r.verb = "install"
    /\ req' = r
    /\ phase' = IF ask THEN "consent" ELSE "apply"
    /\ verdict' = [a \in Artifact |-> VerdictFor(r, a)]
    /\ snapshot' = [a \in Artifact |->
                       IF VerdictFor(r, a) # "none" /\ file[a] \in Bytes
                       THEN file[a] ELSE Absent]
    /\ outcome' = "ok"
    /\ quiet' = TRUE
    /\ UNCHANGED <<disk, running, step, faults, edits>>

Approve ==
    /\ phase = "consent"
    /\ phase' = "apply"
    /\ UNCHANGED <<disk, running, req, verdict, snapshot, step, outcome, quiet,
                   faults, edits>>

(* The process ends with nothing more planned. *)
End(how) ==
    /\ phase' = "idle"
    /\ verdict' = NothingPlanned
    /\ snapshot' = NothingRead
    /\ step' = "start"
    /\ outcome' = how

Decline ==
    /\ phase = "consent"
    /\ End("declined")
    /\ UNCHANGED <<disk, running, req, quiet, faults, edits>>

Finish ==
    /\ phase = "apply"
    /\ verdict = NothingPlanned
    /\ End(outcome)
    /\ UNCHANGED <<disk, running, req, quiet, faults, edits>>

-----------------------------------------------------------------------------
(* Applying one artifact *)

(* Two bugs: the order field is read backwards; it also orders uninstalls.  *)
BackwardOrder(a, b) == Order[b] < Order[a]
OneOrder(a, b) == Order[a] < Order[b]

(* An install walks the order field; an uninstall takes the targets' own    *)
(* files first and the shared ones last.                                    *)
Before(a, b) ==
    IF req.verb = "uninstall" /\ (Owner[a] = Shared) # (Owner[b] = Shared)
    THEN Owner[b] = Shared
    ELSE Order[a] < Order[b]

Applying(a) ==
    /\ phase = "apply"
    /\ verdict[a] # "none"
    /\ \A b \in Artifact \ {a} : verdict[b] # "none" => Before(a, b)

(* The backup slot is claimed with O_EXCL, then filled from the snapshot. *)
ClaimSlot(a) ==
    /\ Applying(a)
    /\ verdict[a] = "backup-replace" /\ step = "start"
    /\ bak[a] = Absent
    /\ bak' = [bak EXCEPT ![a] = Torn]
    /\ step' = "claimed"
    /\ UNCHANGED <<file, record, running, req, phase, verdict, snapshot,
                   outcome, quiet, faults, edits>>

(* A bug: the backup reads the file again. *)
FillFromFile(a) ==
    /\ Applying(a)
    /\ step = "claimed" /\ file[a] # Absent
    /\ bak' = [bak EXCEPT ![a] = file[a]]
    /\ step' = "saved"
    /\ UNCHANGED <<file, record, running, req, phase, verdict, snapshot,
                   outcome, quiet, faults, edits>>

FillSlot(a) ==
    /\ Applying(a)
    /\ step = "claimed" /\ file[a] # Absent
    /\ bak' = [bak EXCEPT ![a] = snapshot[a]]
    /\ step' = "saved"
    /\ UNCHANGED <<file, record, running, req, phase, verdict, snapshot,
                   outcome, quiet, faults, edits>>

(* "write" links a staged file into place and so never replaces anything;   *)
(* the other two rename over whatever is there, a directory excepted.       *)
CanPublish(a) ==
    \/ verdict[a] = "write" /\ step = "start" /\ file[a] = Absent
    \/ verdict[a] = "replace" /\ step = "start" /\ file[a] # Directory
    \/ verdict[a] = "backup-replace" /\ step = "saved" /\ file[a] # Directory

Publish(a) ==
    /\ Applying(a)
    /\ CanPublish(a)
    /\ file' = [file EXCEPT ![a] = Now(a)]
    /\ step' = "published"
    /\ UNCHANGED <<bak, record, running, req, phase, verdict, snapshot,
                   outcome, quiet, faults, edits>>

(* The artifact is done and the next one is taken up. *)
Advance(a) ==
    /\ verdict' = [verdict EXCEPT ![a] = "none"]
    /\ step' = "start"
    /\ UNCHANGED <<file, bak, running, req, phase, snapshot, quiet, edits>>

ToRecord(a) == step = "published" \/ verdict[a] = "adopt"

Record(a) ==
    /\ Applying(a)
    /\ ToRecord(a)
    /\ record[a] # Squatted
    /\ record' = [record EXCEPT ![a] = [sha |-> Now(a), version |-> running]]
    /\ Advance(a)
    /\ UNCHANGED <<outcome, faults>>

Unlink(a) ==
    /\ Applying(a)
    /\ verdict[a] = "remove" /\ step = "start"
    /\ file[a] \notin {Absent, Directory}
    /\ file' = [file EXCEPT ![a] = Absent]
    /\ step' = "unlinked"
    /\ UNCHANGED <<bak, record, running, req, phase, verdict, snapshot,
                   outcome, quiet, faults, edits>>

Forget(a) ==
    /\ Applying(a)
    /\ step = "unlinked"
    /\ record[a] # Squatted
    /\ record' = [record EXCEPT ![a] = NoRecord]
    /\ Advance(a)
    /\ UNCHANGED <<outcome, faults>>

-----------------------------------------------------------------------------
(* Failures *)

(* A step fails by itself only MaxFaults times; what the state of the disk   *)
(* forces to fail always fails.                                             *)
Fault(forced) ==
    \/ forced /\ UNCHANGED faults
    \/ ~forced /\ faults < MaxFaults /\ faults' = faults + 1

(* A bug: the note about a failed record does not reach the exit status. *)
NoteSwallowed(a) ==
    /\ Applying(a)
    /\ ToRecord(a) \/ step = "unlinked"
    /\ Fault(record[a] = Squatted)
    /\ Advance(a)
    /\ UNCHANGED <<record, outcome>>

(* The record could not be written or removed: the run goes on, and its     *)
(* exit status says that something is left half done.                       *)
RecordFails(a) ==
    /\ Applying(a)
    /\ ToRecord(a) \/ step = "unlinked"
    /\ Fault(record[a] = Squatted)
    /\ outcome' = "error"
    /\ Advance(a)
    /\ UNCHANGED record

(* A step the disk itself refuses: the slot is taken, the file to copy the   *)
(* attributes from is gone, a file has appeared where one is to be linked,  *)
(* a directory is in the way, or there is nothing an unlink could remove.   *)
Blocked(a) ==
    \/ verdict[a] = "backup-replace" /\ step = "start" /\ bak[a] # Absent
    \/ verdict[a] = "write" /\ step = "start" /\ file[a] # Absent
    \/ verdict[a] = "replace" /\ step = "start" /\ file[a] = Directory
    \/ step = "claimed" /\ file[a] = Absent
    \/ step = "saved" /\ file[a] = Directory
    \/ verdict[a] = "remove" /\ step = "start" /\ file[a] \in {Absent, Directory}

(* A bug: a failed attempt leaves its backup behind. *)
AbortKeepingSlot(a) ==
    /\ Applying(a)
    /\ ~ToRecord(a) /\ step # "unlinked"
    /\ Fault(Blocked(a))
    /\ End("error")
    /\ UNCHANGED <<file, bak, record, running, req, quiet, edits>>

(* A backup, a publication or an unlink raises: the run stops here, giving  *)
(* back the slot it holds.                                                  *)
Abort(a) ==
    /\ Applying(a)
    /\ ~ToRecord(a) /\ step # "unlinked"
    /\ Fault(Blocked(a))
    /\ bak' = IF step \in {"claimed", "saved"}
              THEN [bak EXCEPT ![a] = Absent] ELSE bak
    /\ End("error")
    /\ UNCHANGED <<file, record, running, req, quiet, edits>>

(* The process dies between two steps. *)
Kill ==
    /\ KillsAllowed
    /\ phase # "idle"
    /\ Fault(FALSE)
    /\ End("killed")
    /\ UNCHANGED <<disk, running, req, quiet, edits>>

(* Ctrl-C while a file is being replaced: the handlers run and give back the *)
(* slot, also when the rename has already happened.  Then the handler of     *)
(* publish_bytes looks for its temporary file in vain, and the run ends as   *)
(* it does for any other OSError.                                           *)
Interrupt(a) ==
    /\ Interrupts
    /\ Applying(a)
    /\ verdict[a] = "backup-replace"
    /\ step \in {"claimed", "saved", "published"}
    /\ Fault(FALSE)
    /\ bak' = [bak EXCEPT ![a] = Absent]
    /\ End(IF step = "published" THEN "error" ELSE "killed")
    /\ UNCHANGED <<file, record, running, req, quiet, edits>>

-----------------------------------------------------------------------------
(* The world outside the command *)

(* Between commands, and during them where EditsDuringRun says so. *)
Change ==
    /\ phase = "idle" \/ EditsDuringRun
    /\ edits < MaxEdits
    /\ edits' = edits + 1
    /\ quiet' = FALSE

UserEdit(a) ==
    /\ Change
    /\ \E v \in FileValue \ {file[a]} : file' = [file EXCEPT ![a] = v]
    /\ UNCHANGED <<bak, record, running, command, faults>>

(* The user moves a backup away, or puts something in its place. *)
UserBackup(a) ==
    /\ Change
    /\ \E v \in SlotValue \ {bak[a], Torn} : bak' = [bak EXCEPT ![a] = v]
    /\ UNCHANGED <<file, record, running, command, faults>>

(* A record is lost with its state directory, or something takes its place. *)
UserRecord(a) ==
    /\ Change
    /\ \E v \in {NoRecord, Squatted} \ {record[a]} :
          record' = [record EXCEPT ![a] = v]
    /\ UNCHANGED <<file, bak, running, command, faults>>

(* Another release of semlf is the one the next command runs. *)
SwitchRelease ==
    /\ phase = "idle"
    /\ Change
    /\ \E v \in Version \ {running} : running' = v
    /\ UNCHANGED <<disk, command, faults>>

-----------------------------------------------------------------------------
Apply(a) ==
    \/ ClaimSlot(a) \/ FillSlot(a) \/ Publish(a) \/ Record(a)
    \/ Unlink(a) \/ Forget(a)
    \/ RecordFails(a) \/ Abort(a)

Start(r) == Refuse(r) \/ \E ask \in BOOLEAN : Accept(r, ask)

Environment ==
    \/ SwitchRelease
    \/ \E a \in Artifact : UserEdit(a) \/ UserBackup(a) \/ UserRecord(a)

Next ==
    \/ \E r \in Requests : Start(r)
    \/ Approve \/ Decline \/ Finish
    \/ \E a \in Artifact : Apply(a)
    \/ Kill \/ \E a \in Artifact : Interrupt(a)
    \/ Environment

Spec == Init /\ [][Next]_vars

(* A command that started runs on, and a command that failed is run again.  *)
Fairness ==
    /\ WF_vars(Approve \/ Finish \/ \E a \in Artifact : Apply(a))
    /\ WF_vars(outcome = "error" /\ \E r \in Requests : r = req /\ Start(r))

FairSpec == Spec /\ Fairness

-----------------------------------------------------------------------------
(* Properties *)

Untouched == phase = "idle" /\ quiet

(* Exit status 0 is the truth: when an install has ended well and nothing   *)
(* has changed since, every selected artifact is this release's rendering   *)
(* and its record proves it; after an uninstall every file is gone.         *)
(* (apply_plan returns 0 only when no step raised and none left a note.)    *)
SuccessIsComplete ==
    Untouched /\ outcome = "ok" =>
        /\ req.verb = "install" =>
              \A a \in Selected(req) :
                  /\ file[a] = Now(a)
                  /\ record[a] = [sha |-> Now(a), version |-> running]
        /\ req.verb = "uninstall" =>
              \A a \in Doomed(req) : file[a] = Absent

(* "A re-run converges": whatever step of a command raised, and whatever    *)
(* was done before it, the same command is admitted again.  The backup slot *)
(* the failed attempt claimed must be free, or --force refuses for good.    *)
RerunAdmitted == Untouched /\ outcome = "error" => Admitted(req)

(* The same after the process was killed, with one exception: --force, where *)
(* the kill left a backup slot occupied.  It is one slot, and it holds what  *)
(* the file still holds, or the beginning of it: the user can move it aside, *)
(* as the refusal says, and loses nothing.                                  *)
KilledRerunAdmitted ==
    Untouched /\ outcome = "killed" =>
        \A a \in Artifact : VerdictFor(req, a) = "refuse" =>
            /\ req.force /\ file[a] \in Bytes /\ bak[a] \in {Torn, file[a]}
            /\ \A b \in Artifact \ {a} : VerdictFor(req, b) # "refuse"

(* "The destination is unchanged ..., so removing the backup keeps the rerun *)
(* convergent" (apply_file, lines 195-197): a backup is given back only      *)
(* while the destination still holds what it saved.                         *)
ReleasedBackupIsRedundant ==
    [][\A a \in Artifact :
          phase = "apply" /\ bak[a] # Absent /\ bak'[a] = Absent
          => bak[a] \in {Torn, file'[a]}]_vars

(* A published artifact never refers to a file that is not there yet: at    *)
(* every point where an install can be cut short, an artifact it is done    *)
(* with finds what it needs in place (the checker before the skill).        *)
NeededFirst ==
    phase = "apply" /\ quiet /\ req.verb = "install" =>
        \A p \in Needs :
            /\ p[1] \in Selected(req) /\ p[2] \in Selected(req)
            /\ \/ verdict[p[1]] = "none"
               \/ Applying(p[1]) /\ step = "published"
            => file[p[2]] = Now(p[2])

(* An uninstall takes a shared skill away only after every file of its      *)
(* targets is gone, so that a step that fails leaves no target installed    *)
(* without its skill.                                                       *)
SharedLeavesLast ==
    [][\A a \in Artifact :
          /\ phase = "apply" /\ phase' = "apply" /\ req.verb = "uninstall"
          /\ quiet' /\ Owner[a] = Shared /\ file[a] # Absent /\ file'[a] = Absent
          => \A b \in Doomed(req) : Owner[b] # Shared => file[b] = Absent]_vars

(* The kit keeps its promise to the owner of the files, under every         *)
(* interleaving of failures, kills and the user's edits between commands.   *)
Promise == INSTANCE OwnershipPromise WITH
    FileValue <- FileValue, SlotValue <- SlotValue,
    proof <- [a \in Artifact |->
                 IF record[a] \in Proof THEN {record[a].sha} ELSE {}],
    busy <- phase # "idle",
    waived <- IF phase # "idle" /\ req.verb = "uninstall" /\ req.force
              THEN Doomed(req) ELSE {}

PromiseKept == Promise!Spec

(* A command that failed, run again and again, ends well: installs and      *)
(* uninstalls, with --force and without.  It need not when somebody changes  *)
(* the machine, declines the plan, kills the run or asks for something else  *)
(* meanwhile.                                                               *)
Converges ==
    \A r \in Requests :
        (Untouched /\ outcome = "error" /\ req = r)
            ~> \/ Untouched /\ outcome = "ok" /\ req = r
               \/ ~quiet \/ outcome \in {"declined", "killed"} \/ req # r

=============================================================================
