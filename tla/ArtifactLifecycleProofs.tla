----------------------- MODULE ArtifactLifecycleProofs -----------------------
(***************************************************************************)
(* Theorems about ArtifactLifecycle, for every set of artifacts, releases,  *)
(* requests and bounds that its assumptions admit.                          *)
(***************************************************************************)
EXTENDS ArtifactLifecycle, TLAPS

-----------------------------------------------------------------------------
(* What the transforms produce, and what a preflight can answer *)

(* The running release's rendering of an artifact is bytes the kit writes.  *)
LEMMA NowInBytes ==
    ASSUME NEW a \in Artifact, running \in Version
    PROVE  /\ Now(a) \in KitBytes[a]
           /\ Now(a) \in Bytes
<1>1. Now(a) \in KitBytes[a]
  BY DEF Now, KitBytes
<1>2. KitBytes[a] \subseteq Bytes
  BY DEF Bytes, KitBytes
<1> QED
  BY <1>1, <1>2

(* A file that reads as bytes is no obstacle and is not missing. *)
LEMMA BytesAreNot ==
    ASSUME NEW b \in Bytes
    PROVE  b \notin {Absent, Torn, Directory, Special}
  BY ValueAssumption

(* A preflight answers with an action or a refusal. *)
LEMMA VerdictRange ==
    ASSUME NEW r, NEW a
    PROVE  VerdictFor(r, a) \in Action \cup {"refuse"}
  BY Zenon DEF VerdictFor, InstallVerdict, RemoveVerdict, Action

(* No two artifacts are applied at once. *)
LEMMA OneAtATime ==
    ASSUME NEW a \in Artifact, NEW b \in Artifact, Applying(a), Applying(b)
    PROVE  a = b
<1> SUFFICES ASSUME a # b PROVE FALSE
  OBVIOUS
<1>1. Before(a, b) /\ Before(b, a)
  BY DEF Applying
<1>2. Order[a] \in Nat /\ Order[b] \in Nat
  BY RowAssumption
<1> QED
  BY <1>1, <1>2 DEF Before

-----------------------------------------------------------------------------
(* Type correctness *)

LEMMA InitType == Init => TypeOK
<1> SUFFICES ASSUME Init PROVE TypeOK
  OBVIOUS
<1> USE DEF Init
<1>1. file \in [Artifact -> FileValue]
  BY RequestAssumption
<1>2. bak \in [Artifact -> SlotValue]
  BY DEF SlotValue
<1>3. record \in [Artifact -> RecordValue]
  BY DEF RecordValue
<1>4. verdict \in [Artifact -> Action]
  BY DEF NothingPlanned, Action
<1>5. snapshot \in [Artifact -> Bytes \cup {Absent}]
  BY DEF NothingRead
<1>6. faults \in 0..MaxFaults /\ edits \in 0..MaxEdits
  BY RequestAssumption
<1> QED
  BY <1>1, <1>2, <1>3, <1>4, <1>5, <1>6 DEF TypeOK

(* Ending a command resets what it had planned. *)
LEMMA EndType ==
    ASSUME NEW how, End(how)
    PROVE  /\ phase' = "idle" /\ step' = "start" /\ outcome' = how
           /\ verdict' \in [Artifact -> Action]
           /\ snapshot' \in [Artifact -> Bytes \cup {Absent}]
  BY DEF End, NothingPlanned, NothingRead, Action

(* A step that fails keeps the count within its bound. *)
LEMMA FaultType ==
    ASSUME NEW forced \in BOOLEAN, faults \in 0..MaxFaults, Fault(forced)
    PROVE  faults' \in 0..MaxFaults
  BY RequestAssumption DEF Fault

LEMMA ChangeType ==
    ASSUME edits \in 0..MaxEdits, Change
    PROVE  edits' \in 0..MaxEdits /\ quiet' \in BOOLEAN
<1>1. MaxEdits \in Nat
  BY RequestAssumption
<1>2. edits < MaxEdits /\ edits' = edits + 1
  BY DEF Change
<1>3. quiet' \in BOOLEAN
  BY DEF Change
<1> QED
  BY <1>1, <1>2, <1>3

(* Every action of Next keeps the type of every variable. *)
LEMMA StepType == TypeOK /\ [Next]_vars => TypeOK'
<1> SUFFICES ASSUME TypeOK, [Next]_vars PROVE TypeOK'
  OBVIOUS
<1> USE DEF TypeOK
<1>1. CASE \E r \in Requests : Refuse(r)
  BY <1>1, RequestAssumption DEF Refuse, disk
<1>2. CASE \E r \in Requests, ask \in BOOLEAN : Accept(r, ask)
  <2>1. PICK r \in Requests, ask \in BOOLEAN : Accept(r, ask)
    BY <1>2
  <2>2. verdict' \in [Artifact -> Action]
    BY <2>1, VerdictRange DEF Accept, Admitted
  <2>3. snapshot' \in [Artifact -> Bytes \cup {Absent}]
    BY <2>1 DEF Accept
  <2> QED
    BY <2>1, <2>2, <2>3, RequestAssumption DEF Accept, disk
<1>3. CASE Approve
  BY <1>3 DEF Approve, disk
<1>4. CASE Decline
  BY <1>4, EndType DEF Decline, disk
<1>5. CASE Finish
  BY <1>5, EndType DEF Finish, disk
<1>6. ASSUME NEW a \in Artifact, Apply(a) PROVE TypeOK'
  <2>1. Now(a) \in Bytes
    BY NowInBytes
  <2>2. CASE ClaimSlot(a)
    BY <2>2 DEF ClaimSlot, SlotValue
  <2>3. CASE FillSlot(a)
    BY <2>3 DEF FillSlot, SlotValue
  <2>4. CASE Publish(a)
    BY <2>1, <2>4 DEF Publish, FileValue
  <2>5. CASE Record(a)
    <3>1. [sha |-> Now(a), version |-> running] \in RecordValue
      BY <2>1 DEF RecordValue, Proof
    <3> QED
      BY <2>5, <3>1 DEF Record, Advance, Action
  <2>6. CASE Unlink(a)
    BY <2>6 DEF Unlink, FileValue
  <2>7. CASE Forget(a)
    BY <2>7 DEF Forget, Advance, Action, RecordValue
  <2>8. CASE RecordFails(a)
    <3>1. faults' \in 0..MaxFaults
      BY <2>8, FaultType DEF RecordFails
    <3> QED
      BY <2>8, <3>1 DEF RecordFails, Advance, Action
  <2>9. CASE Abort(a)
    <3>1. faults' \in 0..MaxFaults
      BY <2>9, FaultType DEF Abort, Blocked
    <3>2. bak' \in [Artifact -> SlotValue]
      BY <2>9 DEF Abort, SlotValue
    <3>3. End("error") /\ UNCHANGED <<file, record, running, req, quiet, edits>>
      BY <2>9 DEF Abort
    <3> QED
      BY <3>1, <3>2, <3>3, EndType
  <2> QED
    BY <1>6, <2>2, <2>3, <2>4, <2>5, <2>6, <2>7, <2>8, <2>9 DEF Apply
<1>7. CASE Kill
  <2>1. faults' \in 0..MaxFaults
    BY <1>7, FaultType DEF Kill
  <2> QED
    BY <1>7, <2>1, EndType DEF Kill, disk
<1>8. CASE Environment
  <2> USE DEF command, disk
  <2>1. CASE SwitchRelease
    <3>1. edits' \in 0..MaxEdits /\ quiet' \in BOOLEAN
      BY <2>1, ChangeType DEF SwitchRelease
    <3> QED
      BY <2>1, <3>1 DEF SwitchRelease
  <2>2. ASSUME NEW a \in Artifact, UserEdit(a) PROVE TypeOK'
    <3>1. edits' \in 0..MaxEdits /\ quiet' \in BOOLEAN
      BY <2>2, ChangeType DEF UserEdit
    <3> QED
      BY <2>2, <3>1 DEF UserEdit
  <2>3. ASSUME NEW a \in Artifact, UserBackup(a) PROVE TypeOK'
    <3>1. edits' \in 0..MaxEdits /\ quiet' \in BOOLEAN
      BY <2>3, ChangeType DEF UserBackup
    <3> QED
      BY <2>3, <3>1 DEF UserBackup
  <2>4. ASSUME NEW a \in Artifact, UserRecord(a) PROVE TypeOK'
    <3>1. edits' \in 0..MaxEdits /\ quiet' \in BOOLEAN
      BY <2>4, ChangeType DEF UserRecord
    <3> QED
      BY <2>4, <3>1 DEF UserRecord, RecordValue
  <2> QED
    BY <1>8, <2>1, <2>2, <2>3, <2>4 DEF Environment
<1>9. ASSUME NEW a \in Artifact, Interrupt(a) PROVE TypeOK'
  <2>1. faults' \in 0..MaxFaults
    BY <1>9, FaultType DEF Interrupt
  <2>2. bak' \in [Artifact -> SlotValue]
    BY <1>9 DEF Interrupt, SlotValue
  <2>3. /\ End("error") \/ End("killed")
        /\ UNCHANGED <<file, record, running, req, quiet, edits>>
    BY <1>9 DEF Interrupt
  <2> QED
    BY <2>1, <2>2, <2>3, EndType
<1>10. CASE UNCHANGED vars
  BY <1>10 DEF vars
<1> QED
  BY <1>1, <1>2, <1>3, <1>4, <1>5, <1>6, <1>7, <1>8, <1>9, <1>10 DEF Next, Start

(* Every variable keeps its type, whatever fails and whoever interferes.    *)
THEOREM TypeCorrect == Spec => []TypeOK
<1>1. Init => TypeOK
  BY InitType
<1>2. TypeOK /\ [Next]_vars => TypeOK'
  BY StepType
<1> QED
  BY <1>1, <1>2, PTL DEF Spec

-----------------------------------------------------------------------------
(* The inductive invariant behind the convergence of a failed command.      *)
(*                                                                         *)
(* While a command works, every artifact of its request is done, or half    *)
(* done, or still exactly as the preflight classified it.  That last clause *)
(* is what makes the invariant inductive: what a step does to one artifact  *)
(* must not move another one off the verdict it was admitted with.          *)

Mid(a) == Applying(a) /\ step # "start"

Installed(a) ==
    /\ verdict[a] = "none"
    /\ file[a] = Now(a)
    /\ record[a] # Squatted
    /\ outcome = "ok" => record[a] = [sha |-> Now(a), version |-> running]

HalfPublished(a) ==
    /\ verdict[a] \in {"write", "replace", "backup-replace"}
    /\ Mid(a)
    /\ step = "published"
    /\ file[a] = Now(a)
    /\ record[a] # Squatted

HalfSaved(a) ==
    /\ verdict[a] = "backup-replace"
    /\ Mid(a)
    /\ step \in {"claimed", "saved"}
    /\ req.force
    /\ file[a] \in Bytes /\ file[a] # Now(a) /\ ~Managed(a)
    /\ record[a] # Squatted
    /\ snapshot[a] = file[a]
    /\ step = "claimed" => bak[a] = Torn
    /\ step = "saved" => bak[a] = file[a]

Untried(a) ==
    /\ verdict[a] # "none"
    /\ ~Mid(a)
    /\ verdict[a] = VerdictFor(req, a)
    /\ verdict[a] = "backup-replace" => snapshot[a] = file[a]

InstallItem(a) ==
    Installed(a) \/ HalfPublished(a) \/ HalfSaved(a) \/ Untried(a)

Removed(a) ==
    /\ file[a] = Absent
    /\ \/ verdict[a] = "none"
       \/ verdict[a] = "remove" /\ Mid(a) /\ step = "unlinked"

RemoveItem(a) == Removed(a) \/ Untried(a)

Item(a) ==
    IF a \notin Scope(req) THEN verdict[a] = "none"
    ELSE IF req.verb = "install" THEN InstallItem(a)
    ELSE RemoveItem(a)

IdleInv == phase = "idle" => verdict = NothingPlanned /\ step = "start"

WorkInv ==
    phase # "idle" =>
        /\ req \in Requests
        /\ outcome \in {"ok", "error"}
        /\ phase = "consent" => step = "start" /\ outcome = "ok"
        /\ quiet => \A a \in Artifact : Item(a)

EndInv == SuccessIsComplete /\ RerunAdmitted /\ KilledRerunAdmitted

IInv == TypeOK /\ IdleInv /\ WorkInv /\ EndInv

(* What a preflight reads of an artifact decides its verdict. *)
LEMMA SameVerdict ==
    ASSUME NEW a \in Artifact, running' = running, req' = req,
           file'[a] = file[a], bak'[a] = bak[a], record'[a] = record[a]
    PROVE  /\ Now(a)' = Now(a)
           /\ Managed(a)' = Managed(a)
           /\ VerdictFor(req, a)' = VerdictFor(req, a)
<1>1. Now(a)' = Now(a)
  BY DEF Now
<1>2. Managed(a)' = Managed(a)
  BY DEF Managed
<1>3. Replaceable(a, req.force)' = Replaceable(a, req.force)
  BY <1>2 DEF Replaceable
<1>4. Savable(a, req.force)' = Savable(a, req.force)
  BY <1>2 DEF Savable
<1>5. InstallVerdict(a, req.force)' = InstallVerdict(a, req.force)
  BY <1>1, <1>3, <1>4 DEF InstallVerdict
<1>6. RemoveVerdict(a, req.force)' = RemoveVerdict(a, req.force)
  BY <1>1, <1>2 DEF RemoveVerdict
<1>7. Scope(req)' = Scope(req)
  BY DEF Scope, Selected, Doomed
<1> QED
  BY <1>1, <1>2, <1>5, <1>6, <1>7 DEF VerdictFor

(* A step on one artifact leaves every other one where it was. *)
LEMMA OthersStay ==
    ASSUME NEW a \in Artifact, NEW b \in Artifact, b # a, Applying(a), Item(b),
           running' = running, req' = req,
           file'[b] = file[b], bak'[b] = bak[b], record'[b] = record[b],
           verdict'[b] = verdict[b], snapshot'[b] = snapshot[b],
           Applying(b)' => step' = "start",
           outcome' = "ok" => outcome = "ok"
    PROVE  Item(b)'
<1>1. ~Mid(b) /\ ~Mid(b)'
  BY OneAtATime DEF Mid
<1>2. Now(b)' = Now(b) /\ VerdictFor(req, b)' = VerdictFor(req, b)
  BY SameVerdict
<1>3. Scope(req)' = Scope(req)
  BY DEF Scope, Selected, Doomed
<1>4. ~HalfPublished(b) /\ ~HalfSaved(b)
  BY <1>1 DEF HalfPublished, HalfSaved
<1>5. Installed(b) => Installed(b)'
  BY <1>2 DEF Installed
<1>6. Untried(b) => Untried(b)'
  BY <1>1, <1>2 DEF Untried
<1>7. Removed(b) => Removed(b)'
  BY <1>1 DEF Removed
<1> QED
  BY <1>3, <1>4, <1>5, <1>6, <1>7 DEF Item, InstallItem, RemoveItem

(* An artifact that holds no backup slot is admitted again. *)
LEMMA ItemAdmits ==
    ASSUME TypeOK, NEW a \in Artifact, Item(a), ~HalfSaved(a)
    PROVE  VerdictFor(req, a) # "refuse"
<1>1. CASE a \notin Scope(req)
  BY <1>1 DEF VerdictFor
<1>2. CASE Untried(a)
  <2>1. verdict[a] \in Action
    BY DEF TypeOK
  <2> QED
    BY <1>2, <2>1 DEF Untried, Action
<1>3. CASE a \in Scope(req) /\ req.verb = "install" /\ ~Untried(a)
  <2>1. file[a] = Now(a) /\ record[a] # Squatted
    BY <1>3 DEF Item, InstallItem, Installed, HalfPublished
  <2> QED
    BY <1>3, <2>1, Zenon DEF VerdictFor, InstallVerdict
<1>4. CASE a \in Scope(req) /\ req.verb # "install" /\ ~Untried(a)
  <2>1. file[a] = Absent
    BY <1>4 DEF Item, RemoveItem, Removed
  <2> QED
    BY <1>4, <2>1, Zenon DEF VerdictFor, RemoveVerdict
<1> QED
  BY <1>1, <1>2, <1>3, <1>4

(* Where the half done artifact was given its slot back, it is admitted too. *)
LEMMA ReleasedAdmits ==
    ASSUME TypeOK, NEW a \in Artifact, HalfSaved(a), Item(a),
           running' = running, req' = req,
           file' = file, record' = record, bak'[a] = Absent
    PROVE  VerdictFor(req, a)' # "refuse"
<1>1. a \in Scope(req) /\ req.verb = "install" => InstallVerdict(a, req.force)' = "backup-replace"
  <2>1. ~Managed(a)'
    BY DEF HalfSaved, Managed
  <2>2. Savable(a, req.force)'
    BY <2>1 DEF HalfSaved, Savable
  <2>3. ~Replaceable(a, req.force)'
    BY <2>1 DEF Replaceable
  <2>4. file'[a] # Now(a)' /\ file'[a] # Absent /\ record'[a] # Squatted
    BY BytesAreNot DEF HalfSaved, Now
  <2> QED
    BY <2>2, <2>3, <2>4, Zenon DEF InstallVerdict
<1>2. Scope(req)' = Scope(req)
  BY DEF Scope, Selected, Doomed
<1>3. verdict[a] = "backup-replace" /\ Mid(a) /\ step # "unlinked"
  BY DEF HalfSaved
<1>4. a \in Scope(req) /\ req.verb = "install"
  BY <1>3 DEF Item, RemoveItem, Removed, Untried
<1> QED
  BY <1>1, <1>2, <1>4 DEF VerdictFor

(* An artifact about to be applied is as the preflight left it.             *)
LEMMA StartsUntried ==
    ASSUME NEW a \in Artifact, Applying(a), Item(a), step = "start"
    PROVE  /\ a \in Scope(req)
           /\ Untried(a)
           /\ req.verb = "install" => verdict[a] = InstallVerdict(a, req.force)
           /\ req.verb # "install" => verdict[a] = RemoveVerdict(a, req.force)
<1>1. verdict[a] # "none"
  BY DEF Applying
<1>2. a \in Scope(req)
  BY <1>1 DEF Item
<1>3. Untried(a)
  BY <1>1, <1>2 DEF Item, InstallItem, RemoveItem, Installed, HalfPublished,
                    HalfSaved, Removed
<1> QED
  BY <1>2, <1>3 DEF Untried, VerdictFor

(* What the artifact being applied looks like after its first step.         *)
LEMMA MidIsHalf ==
    ASSUME NEW a \in Artifact, Applying(a), Item(a), step # "start"
    PROVE  /\ a \in Scope(req)
           /\ req.verb = "install" => HalfPublished(a) \/ HalfSaved(a)
           /\ req.verb # "install" => Removed(a) /\ step = "unlinked"
<1>1. verdict[a] # "none" /\ Mid(a)
  BY DEF Applying, Mid
<1>2. a \in Scope(req)
  BY <1>1 DEF Item
<1>3. ~Installed(a) /\ ~Untried(a)
  BY <1>1 DEF Installed, Untried
<1> QED
  BY <1>1, <1>2, <1>3 DEF Item, InstallItem, RemoveItem, Removed

(* The verdicts of the two verbs do not overlap. *)
LEMMA VerdictKinds ==
    ASSUME NEW a \in Artifact, NEW force
    PROVE  /\ InstallVerdict(a, force) \notin {"remove", "none"}
           /\ RemoveVerdict(a, force) \in {"none", "remove", "refuse"}
  BY Zenon DEF InstallVerdict, RemoveVerdict

(* Each step of the artifact being applied takes it from one stage to the   *)
(* next.                                                                    *)
LEMMA StepItem ==
    ASSUME TypeOK, NEW a \in Artifact, Item(a),
           ClaimSlot(a) \/ FillSlot(a) \/ Publish(a) \/ Record(a)
           \/ Unlink(a) \/ Forget(a) \/ RecordFails(a)
    PROVE  Item(a)'
<1>0. Applying(a) /\ running' = running /\ req' = req /\ phase' = phase
  BY DEF ClaimSlot, FillSlot, Publish, Record, Unlink, Forget, RecordFails,
         Advance
<1>1. Scope(req)' = Scope(req)
  BY <1>0 DEF Scope, Selected, Doomed
<1>2. Now(a)' = Now(a) /\ Now(a) \in Bytes
  BY <1>0, NowInBytes DEF Now, TypeOK
<1>3. verdict' = verdict => Applying(a)'
  BY <1>0 DEF Applying, Before
<1>4. CASE ClaimSlot(a)
  <2>1. step = "start" /\ verdict[a] = "backup-replace"
    BY <1>4 DEF ClaimSlot
  <2>2. req.verb = "install" /\ Untried(a) /\ a \in Scope(req)
    BY <1>0, <2>1, StartsUntried, VerdictKinds
  <2>3. InstallVerdict(a, req.force) = "backup-replace"
    BY <1>0, <2>1, <2>2, StartsUntried
  <2>4. Savable(a, req.force) /\ record[a] # Squatted /\ file[a] # Now(a)
    BY <2>3, Zenon DEF InstallVerdict
  <2>5. Managed(a)' = Managed(a)
    BY <1>4 DEF ClaimSlot, Managed
  <2>6. HalfSaved(a)'
    BY <1>0, <1>2, <1>3, <1>4, <2>1, <2>2, <2>4, <2>5
       DEF ClaimSlot, HalfSaved, Savable, Mid, Untried, TypeOK
  <2> QED
    BY <1>0, <1>1, <2>2, <2>6 DEF Item, InstallItem
<1>5. CASE FillSlot(a)
  <2>1. step = "claimed"
    BY <1>5 DEF FillSlot
  <2>2. req.verb = "install" /\ a \in Scope(req) /\ HalfSaved(a)
    BY <1>0, <2>1, MidIsHalf DEF HalfPublished
  <2>3. Managed(a)' = Managed(a)
    BY <1>5 DEF FillSlot, Managed
  <2>4. HalfSaved(a)'
    BY <1>0, <1>2, <1>3, <1>5, <2>2, <2>3 DEF FillSlot, HalfSaved, Mid, TypeOK
  <2> QED
    BY <1>0, <1>1, <2>2, <2>4 DEF Item, InstallItem
<1>6. CASE Publish(a)
  <2>1. verdict[a] \in {"write", "replace", "backup-replace"}
    BY <1>6 DEF Publish, CanPublish
  <2>2. req.verb = "install" /\ a \in Scope(req) /\ record[a] # Squatted
    <3>1. CASE step = "start"
      <4>1. a \in Scope(req) /\ req.verb = "install"
        BY <1>0, <2>1, <3>1, StartsUntried, VerdictKinds
      <4>2. InstallVerdict(a, req.force) # "refuse"
        BY <1>0, <2>1, <3>1, <4>1, StartsUntried
      <4> QED
        BY <4>1, <4>2, Zenon DEF InstallVerdict
    <3>2. CASE step # "start"
      BY <1>0, <1>6, <3>2, MidIsHalf
         DEF HalfPublished, HalfSaved, Publish, CanPublish
    <3> QED
      BY <3>1, <3>2
  <2>3. HalfPublished(a)'
    BY <1>0, <1>2, <1>3, <1>6, <2>1, <2>2
       DEF Publish, HalfPublished, Mid, TypeOK
  <2> QED
    BY <1>0, <1>1, <2>2, <2>3 DEF Item, InstallItem
<1>7. CASE Record(a) \/ (RecordFails(a) /\ ToRecord(a))
  <2>1. ToRecord(a) /\ file' = file /\ verdict'[a] = "none"
    BY <1>7 DEF Record, RecordFails, Advance, TypeOK
  <2>2. req.verb = "install" /\ a \in Scope(req)
        /\ file[a] = Now(a) /\ record[a] # Squatted
    <3>1. CASE step = "start"
      <4>1. verdict[a] = "adopt"
        BY <2>1, <3>1 DEF ToRecord
      <4>2. a \in Scope(req) /\ req.verb = "install"
            /\ InstallVerdict(a, req.force) = "adopt"
        BY <1>0, <3>1, <4>1, StartsUntried, VerdictKinds
      <4> QED
        BY <4>2, Zenon DEF InstallVerdict
    <3>2. CASE step # "start"
      <4>1. step = "published" \/ verdict[a] = "adopt"
        BY <2>1 DEF ToRecord
      <4>2. verdict[a] = "adopt" => ~HalfSaved(a) /\ ~HalfPublished(a) /\ ~Removed(a)
        BY <3>2, <4>1, <1>0 DEF HalfSaved, HalfPublished, Removed, Applying
      <4> QED
        BY <1>0, <3>2, <4>1, <4>2, MidIsHalf DEF HalfPublished, HalfSaved
    <3> QED
      BY <3>1, <3>2
  <2>3. record'[a] # Squatted
    <3>1. [sha |-> Now(a), version |-> running] # Squatted
      BY <1>2, ValueAssumption DEF Proof, TypeOK
    <3> QED
      BY <1>7, <2>2, <3>1 DEF Record, RecordFails, TypeOK
  <2>4. outcome' = "ok" => record'[a] = [sha |-> Now(a), version |-> running]
    BY <1>7 DEF Record, RecordFails, TypeOK
  <2>5. Installed(a)'
    BY <1>0, <1>2, <2>1, <2>2, <2>3, <2>4 DEF Installed
  <2> QED
    BY <1>0, <1>1, <2>2, <2>5 DEF Item, InstallItem
<1>8. CASE Unlink(a)
  <2>1. step = "start" /\ verdict[a] = "remove"
    BY <1>8 DEF Unlink
  <2>2. req.verb # "install" /\ a \in Scope(req)
    BY <1>0, <2>1, StartsUntried, VerdictKinds
  <2>3. Removed(a)'
    BY <1>0, <1>3, <1>8, <2>1 DEF Unlink, Removed, Mid, TypeOK
  <2> QED
    BY <1>0, <1>1, <2>2, <2>3 DEF Item, RemoveItem
<1>9. CASE Forget(a) \/ (RecordFails(a) /\ ~ToRecord(a))
  <2>1. step = "unlinked" /\ file' = file /\ verdict'[a] = "none"
    BY <1>9 DEF Forget, RecordFails, Advance, TypeOK
  <2>2. req.verb # "install" /\ a \in Scope(req) /\ Removed(a)
    BY <1>0, <2>1, MidIsHalf DEF HalfPublished, HalfSaved
  <2>3. Removed(a)'
    BY <2>1, <2>2 DEF Removed
  <2> QED
    BY <1>0, <1>1, <2>2, <2>3 DEF Item, RemoveItem
<1> QED
  BY <1>4, <1>5, <1>6, <1>7, <1>8, <1>9

(* A step that goes on applies one artifact, and touches nothing else.      *)
LEMMA StepFrame ==
    ASSUME TypeOK, NEW a \in Artifact,
           ClaimSlot(a) \/ FillSlot(a) \/ Publish(a) \/ Record(a)
           \/ Unlink(a) \/ Forget(a) \/ RecordFails(a)
    PROVE  /\ Applying(a) /\ phase = "apply" /\ phase' = "apply"
           /\ running' = running /\ req' = req /\ quiet' = quiet
           /\ outcome' = outcome \/ outcome' = "error"
           /\ \A b \in Artifact \ {a} :
                 /\ file'[b] = file[b] /\ bak'[b] = bak[b]
                 /\ record'[b] = record[b] /\ verdict'[b] = verdict[b]
                 /\ snapshot'[b] = snapshot[b]
                 /\ Applying(b)' => step' = "start"
<1>1. Applying(a) /\ phase = "apply"
  BY DEF ClaimSlot, FillSlot, Publish, Record, Unlink, Forget, RecordFails,
         Applying
<1>2. /\ phase' = "apply" /\ running' = running /\ req' = req /\ quiet' = quiet
      /\ snapshot' = snapshot
  BY <1>1 DEF ClaimSlot, FillSlot, Publish, Record, Unlink, Forget, RecordFails,
              Advance
<1>3. outcome' = outcome \/ outcome' = "error"
  BY DEF ClaimSlot, FillSlot, Publish, Record, Unlink, Forget, RecordFails
<1>4. \A b \in Artifact \ {a} :
         /\ file'[b] = file[b] /\ bak'[b] = bak[b]
         /\ record'[b] = record[b] /\ verdict'[b] = verdict[b]
  BY DEF ClaimSlot, FillSlot, Publish, Record, Unlink, Forget, RecordFails,
         Advance, TypeOK
<1>5. ASSUME NEW b \in Artifact \ {a}, Applying(b)', step' # "start"
      PROVE  FALSE
  <2>1. verdict' = verdict
    BY <1>5 DEF ClaimSlot, FillSlot, Publish, Record, Unlink, Forget,
                RecordFails, Advance
  <2>2. Applying(b)
    BY <1>1, <1>2, <1>5, <2>1 DEF Applying, Before
  <2> QED
    BY <1>1, <2>2, OneAtATime
<1> QED
  BY <1>1, <1>2, <1>3, <1>4, <1>5

(* Initially nothing runs and nothing has ended. *)
LEMMA InitInv == Init => IInv
  BY InitType DEF Init, IInv, IdleInv, WorkInv, EndInv, SuccessIsComplete,
                  RerunAdmitted, KilledRerunAdmitted, Untouched

(* The claims about a finished command hold while one is at work, and after  *)
(* any change from outside, because they say nothing then.                  *)
LEMMA NothingEnded ==
    ASSUME phase # "idle" \/ ~quiet \/ outcome \in {"refused", "declined"}
    PROVE  EndInv
  BY DEF EndInv, SuccessIsComplete, RerunAdmitted, KilledRerunAdmitted,
         Untouched

(* Every action of Next keeps the inductive invariant. *)
LEMMA StepInv == IInv /\ [Next]_vars => IInv'
<1> SUFFICES ASSUME IInv, [Next]_vars PROVE IdleInv' /\ WorkInv' /\ EndInv'
  BY StepType DEF IInv
<1>0. TypeOK /\ TypeOK'
  BY StepType DEF IInv
<1>1. CASE \E r \in Requests : Refuse(r)
  <2>1. phase = "idle" /\ phase' = "idle" /\ outcome' = "refused"
        /\ verdict' = verdict /\ step' = step
    BY <1>1 DEF Refuse
  <2> QED
    BY <2>1, NothingEnded DEF IInv, IdleInv, WorkInv, NothingPlanned,
       EndInv, SuccessIsComplete, RerunAdmitted, KilledRerunAdmitted, Untouched
<1>2. CASE \E r \in Requests, ask \in BOOLEAN : Accept(r, ask)
  <2>1. PICK r \in Requests, ask \in BOOLEAN : Accept(r, ask)
    BY <1>2
  <2>2. /\ phase' \in {"consent", "apply"} /\ req' = r /\ step' = "start"
        /\ outcome' = "ok"
    BY <2>1 DEF Accept, IInv, IdleInv
  <2>3. ASSUME NEW a \in Artifact PROVE Item(a)'
    <3>1. VerdictFor(req, a)' = VerdictFor(r, a)
      BY <2>1 DEF Accept, disk, VerdictFor, InstallVerdict, RemoveVerdict,
                  Replaceable, Savable, Managed, Now, Scope, Selected, Doomed
    <3>2. verdict'[a] = VerdictFor(r, a)
      BY <2>1 DEF Accept
    <3>3. ~Mid(a)'
      BY <2>2 DEF Mid
    <3>4. file'[a] = file[a]
      BY <2>1 DEF Accept, disk
    <3>5. CASE a \notin Scope(req')
      <4>1. VerdictFor(r, a) = "none"
        BY <2>2, <3>5 DEF VerdictFor
      <4> QED
        BY <3>2, <3>5, <4>1 DEF Item, Scope, Selected, Doomed
    <3>6. CASE a \in Scope(req') /\ verdict'[a] = "none"
      <4>1. r.verb # "install" /\ RemoveVerdict(a, r.force) = "none"
        BY <2>2, <3>2, <3>6, VerdictKinds DEF VerdictFor
      <4>2. file[a] = Absent
        BY <4>1, Zenon DEF RemoveVerdict
      <4>3. Removed(a)'
        BY <3>4, <3>6, <4>2 DEF Removed
      <4> QED
        BY <2>2, <3>6, <4>1, <4>3 DEF Item, RemoveItem, Scope, Selected, Doomed
    <3>7. CASE a \in Scope(req') /\ verdict'[a] # "none"
      <4>1. verdict'[a] = "backup-replace" => snapshot'[a] = file'[a]
        <5>1. ASSUME verdict'[a] = "backup-replace" PROVE file[a] \in Bytes
          <6>1. r.verb = "install" /\ InstallVerdict(a, r.force) = "backup-replace"
            BY <2>2, <3>2, <3>7, <5>1, VerdictKinds DEF VerdictFor
          <6> QED
            BY <6>1, Zenon DEF InstallVerdict, Savable
        <5> QED
          BY <2>1, <3>2, <3>4, <5>1 DEF Accept
      <4>2. Untried(a)'
        BY <3>1, <3>2, <3>3, <3>7, <4>1 DEF Untried
      <4> QED
        BY <3>7, <4>2 DEF Item, InstallItem, RemoveItem, Scope, Selected, Doomed
    <3> QED
      BY <3>5, <3>6, <3>7
  <2> QED
    BY <2>2, <2>3, <2>1 DEF IdleInv, WorkInv, EndInv, SuccessIsComplete,
       RerunAdmitted, KilledRerunAdmitted, Untouched
<1>3. CASE Approve
  <2>1. /\ phase = "consent" /\ phase' = "apply"
        /\ req' = req /\ running' = running /\ step = "start" /\ step' = "start"
        /\ file' = file /\ bak' = bak /\ record' = record /\ verdict' = verdict
        /\ snapshot' = snapshot /\ outcome' = outcome /\ quiet' = quiet
    BY <1>3 DEF Approve, disk, IInv, WorkInv
  <2>2. ASSUME NEW a \in Artifact, Item(a) PROVE Item(a)'
    <3>1. ~Mid(a) /\ ~Mid(a)'
      BY <2>1 DEF Mid
    <3>2. Now(a)' = Now(a) /\ VerdictFor(req, a)' = VerdictFor(req, a)
      BY <2>1, SameVerdict
    <3>3. Scope(req)' = Scope(req)
      BY <2>1 DEF Scope, Selected, Doomed
    <3>4. ~HalfPublished(a) /\ ~HalfSaved(a)
      BY <3>1 DEF HalfPublished, HalfSaved
    <3>5. Installed(a) => Installed(a)'
      BY <2>1, <3>2 DEF Installed
    <3>6. Untried(a) => Untried(a)'
      BY <2>1, <3>1, <3>2 DEF Untried
    <3>7. Removed(a) => Removed(a)'
      BY <2>1, <3>1 DEF Removed
    <3> QED
      BY <2>1, <2>2, <3>3, <3>4, <3>5, <3>6, <3>7
         DEF Item, InstallItem, RemoveItem
  <2> QED
    BY <2>1, <2>2 DEF IInv, IdleInv, WorkInv, EndInv, SuccessIsComplete,
       RerunAdmitted, KilledRerunAdmitted, Untouched
<1>4. CASE Decline
  BY <1>4 DEF Decline, End, IdleInv, WorkInv, NothingPlanned, EndInv,
     SuccessIsComplete, RerunAdmitted, KilledRerunAdmitted, Untouched
<1>5. CASE Finish
  <2>1. /\ phase = "apply" /\ verdict = NothingPlanned /\ phase' = "idle"
        /\ verdict' = NothingPlanned /\ step' = "start" /\ outcome' = outcome
        /\ running' = running /\ req' = req /\ quiet' = quiet
        /\ file' = file /\ bak' = bak /\ record' = record
    BY <1>5 DEF Finish, End, disk
  <2>2. ASSUME quiet, NEW a \in Artifact
        PROVE  /\ VerdictFor(req, a)' # "refuse"
               /\ a \in Scope(req) /\ req.verb = "install" => Installed(a)
               /\ a \in Scope(req) /\ req.verb # "install" => file[a] = Absent
    <3>1. Item(a)
      BY <2>1, <2>2 DEF IInv, WorkInv
    <3>2. verdict[a] = "none"
      BY <2>1 DEF NothingPlanned
    <3>3. ~HalfSaved(a) /\ ~HalfPublished(a) /\ ~Untried(a)
      BY <3>2 DEF HalfSaved, HalfPublished, Untried
    <3>4. VerdictFor(req, a) # "refuse"
      BY <1>0, <3>1, <3>3, ItemAdmits
    <3> QED
      BY <2>1, <3>1, <3>3, <3>4, SameVerdict
         DEF Item, InstallItem, RemoveItem, Removed
  <2>3. SuccessIsComplete'
    <3> SUFFICES ASSUME quiet, outcome = "ok"
                 PROVE  /\ req.verb = "install" =>
                              \A a \in Selected(req) :
                                  /\ file[a] = Now(a)
                                  /\ record[a] = [sha |-> Now(a), version |-> running]
                        /\ req.verb = "uninstall" =>
                              \A a \in Doomed(req) : file[a] = Absent
      BY <2>1 DEF SuccessIsComplete, Untouched, Selected, Doomed, Now
    <3>1. Selected(req) \subseteq Artifact /\ Doomed(req) \subseteq Artifact
      BY DEF Selected, Doomed
    <3> QED
      BY <2>2, <3>1 DEF Scope, Installed
  <2>4. RerunAdmitted' /\ KilledRerunAdmitted'
    <3>1. outcome' # "killed"
      BY <2>1 DEF IInv, WorkInv
    <3> QED
      BY <2>1, <2>2, <3>1
         DEF RerunAdmitted, KilledRerunAdmitted, Untouched, Admitted
  <2> QED
    BY <2>1, <2>3, <2>4 DEF IdleInv, WorkInv, EndInv
<1>6. ASSUME NEW a \in Artifact, Apply(a) PROVE IdleInv' /\ WorkInv' /\ EndInv'
  <2>1. CASE Abort(a)
    <3>1. /\ Applying(a) /\ phase = "apply" /\ phase' = "idle"
          /\ verdict' = NothingPlanned /\ step' = "start" /\ outcome' = "error"
          /\ running' = running /\ req' = req /\ quiet' = quiet
          /\ file' = file /\ record' = record
          /\ \A b \in Artifact \ {a} : bak'[b] = bak[b]
          /\ step \in {"claimed", "saved"} => bak'[a] = Absent
          /\ step \notin {"claimed", "saved"} => bak' = bak
      BY <1>0, <2>1 DEF Abort, End, Applying, TypeOK
    <3>2. ASSUME quiet, NEW b \in Artifact PROVE VerdictFor(req, b)' # "refuse"
      <4>1. Item(b)
        BY <3>1, <3>2 DEF IInv, WorkInv
      <4>2. CASE HalfSaved(b)
        <5>1. b = a
          BY <3>1, <4>2, OneAtATime DEF HalfSaved, Mid
        <5>2. bak'[b] = Absent
          BY <3>1, <4>2, <5>1 DEF HalfSaved
        <5> QED
          BY <1>0, <3>1, <4>1, <4>2, <5>2, ReleasedAdmits
      <4>3. CASE ~HalfSaved(b)
        <5>1. bak'[b] = bak[b]
          <6>1. CASE b = a /\ step \in {"claimed", "saved"}
            <7>1. HalfPublished(a) \/ HalfSaved(a) \/ step = "unlinked"
              BY <3>1, <4>1, <6>1, MidIsHalf
            <7> QED
              BY <4>3, <6>1, <7>1 DEF HalfPublished
          <6> QED
            BY <3>1, <6>1
        <5>2. VerdictFor(req, b) # "refuse"
          BY <1>0, <4>1, <4>3, ItemAdmits
        <5> QED
          BY <3>1, <5>1, <5>2, SameVerdict
      <4> QED
        BY <4>2, <4>3
    <3> QED
      BY <3>1, <3>2 DEF IdleInv, WorkInv, EndInv, SuccessIsComplete,
         RerunAdmitted, KilledRerunAdmitted, Untouched, Admitted
  <2>2. CASE ~Abort(a)
    <3>1. \/ ClaimSlot(a) \/ FillSlot(a) \/ Publish(a) \/ Record(a)
          \/ Unlink(a) \/ Forget(a) \/ RecordFails(a)
      BY <1>6, <2>2 DEF Apply
    <3>2. /\ Applying(a) /\ phase = "apply" /\ phase' = "apply"
          /\ running' = running /\ req' = req /\ quiet' = quiet
          /\ outcome' = outcome \/ outcome' = "error"
      BY <1>0, <3>1, StepFrame
    <3>3. ASSUME quiet, NEW b \in Artifact PROVE Item(b)'
      <4>1. Item(b)
        BY <3>2, <3>3 DEF IInv, WorkInv
      <4>2. CASE b = a
        BY <1>0, <3>1, <4>1, <4>2, StepItem
      <4>3. CASE b # a
        <5>1. /\ file'[b] = file[b] /\ bak'[b] = bak[b]
              /\ record'[b] = record[b] /\ verdict'[b] = verdict[b]
              /\ snapshot'[b] = snapshot[b]
              /\ Applying(b)' => step' = "start"
          BY <1>0, <3>1, <4>3, StepFrame
        <5> QED
          BY <3>2, <4>1, <4>3, <5>1, OthersStay
      <4> QED
        BY <4>2, <4>3
    <3> QED
      BY <3>2, <3>3 DEF IInv, IdleInv, WorkInv, EndInv, SuccessIsComplete,
         RerunAdmitted, KilledRerunAdmitted, Untouched
  <2> QED
    BY <2>1, <2>2
<1>7. CASE Kill
  <2>1. /\ phase # "idle" /\ phase' = "idle" /\ verdict' = NothingPlanned
        /\ step' = "start" /\ outcome' = "killed" /\ quiet' = quiet
        /\ running' = running /\ req' = req
        /\ file' = file /\ bak' = bak /\ record' = record
    BY <1>7 DEF Kill, End, disk
  <2>2. ASSUME quiet, NEW a \in Artifact, VerdictFor(req, a)' = "refuse"
        PROVE  HalfSaved(a)
    <3>1. Item(a)
      BY <2>1, <2>2 DEF IInv, WorkInv
    <3>2. VerdictFor(req, a) = "refuse"
      BY <2>1, <2>2, SameVerdict
    <3> QED
      BY <1>0, <3>1, <3>2, ItemAdmits
  <2>3. ASSUME quiet, NEW a \in Artifact, VerdictFor(req, a)' = "refuse"
        PROVE  req'.force /\ file'[a] \in Bytes /\ bak'[a] \in {Torn, file'[a]}
    BY <2>1, <2>2, <2>3 DEF HalfSaved
  <2>4. ASSUME quiet, NEW a \in Artifact, VerdictFor(req, a)' = "refuse",
               NEW b \in Artifact \ {a}
        PROVE  VerdictFor(req, b)' # "refuse"
    BY <2>2, <2>4, OneAtATime DEF HalfSaved, Mid
  <2>5. KilledRerunAdmitted'
    BY <2>1, <2>3, <2>4 DEF KilledRerunAdmitted, Untouched
  <2> QED
    BY <2>1, <2>5 DEF IdleInv, WorkInv, EndInv, SuccessIsComplete,
       RerunAdmitted, Untouched
<1>8. CASE Environment
  <2>1. /\ quiet' = FALSE /\ phase' = phase /\ verdict' = verdict
        /\ step' = step /\ req' = req /\ outcome' = outcome
    BY <1>8 DEF Environment, SwitchRelease, UserEdit, UserBackup, UserRecord,
                Change, command
  <2> QED
    BY <2>1 DEF IInv, IdleInv, WorkInv, NothingPlanned, EndInv,
       SuccessIsComplete, RerunAdmitted, KilledRerunAdmitted, Untouched
<1>9. ASSUME NEW a \in Artifact, Interrupt(a) PROVE IdleInv' /\ WorkInv' /\ EndInv'
  <2>1. /\ Applying(a) /\ phase = "apply" /\ phase' = "idle"
        /\ verdict' = NothingPlanned /\ step' = "start"
        /\ verdict[a] = "backup-replace"
        /\ step \in {"claimed", "saved", "published"}
        /\ outcome' = IF step = "published" THEN "error" ELSE "killed"
        /\ running' = running /\ req' = req /\ quiet' = quiet
        /\ file' = file /\ record' = record
        /\ \A b \in Artifact \ {a} : bak'[b] = bak[b]
        /\ bak'[a] = Absent
    BY <1>0, <1>9 DEF Interrupt, End, Applying, TypeOK
  <2>2. ASSUME quiet, NEW b \in Artifact PROVE VerdictFor(req, b)' # "refuse"
    <3>1. Item(b)
      BY <2>1, <2>2 DEF IInv, WorkInv
    <3>2. CASE HalfSaved(b)
      <4>1. b = a
        BY <2>1, <3>2, OneAtATime DEF HalfSaved, Mid
      <4> QED
        BY <1>0, <2>1, <3>1, <3>2, <4>1, ReleasedAdmits
    <3>3. CASE HalfPublished(b)
      <4>1. file'[b] = Now(b) /\ record'[b] # Squatted /\ Now(b)' = Now(b)
        BY <2>1, <3>3 DEF HalfPublished, Now
      <4>2. InstallVerdict(b, req.force)' # "refuse"
        BY <4>1, Zenon DEF InstallVerdict
      <4>3. b \notin Scope(req) \/ req.verb = "install"
        BY <2>1, <3>1, <3>3 DEF Item, RemoveItem, Removed, Untried, HalfPublished
      <4>4. Scope(req)' = Scope(req)
        BY <2>1 DEF Scope, Selected, Doomed
      <4> QED
        BY <2>1, <4>2, <4>3, <4>4 DEF VerdictFor
    <3>4. CASE ~HalfSaved(b) /\ ~HalfPublished(b)
      <4>1. b # a
        BY <2>1, <3>1, <3>4, MidIsHalf
      <4>2. VerdictFor(req, b) # "refuse"
        BY <1>0, <3>1, <3>4, ItemAdmits
      <4> QED
        BY <2>1, <4>1, <4>2, SameVerdict
    <3> QED
      BY <3>2, <3>3, <3>4
  <2> QED
    BY <2>1, <2>2 DEF IdleInv, WorkInv, EndInv, SuccessIsComplete,
       RerunAdmitted, KilledRerunAdmitted, Untouched, Admitted
<1>10. CASE UNCHANGED vars
  <2> USE <1>10 DEF vars
  <2>1. \A r : Scope(r)' = Scope(r) /\ Selected(r)' = Selected(r)
               /\ Doomed(r)' = Doomed(r)
    BY DEF Scope, Selected, Doomed
  <2>2. ASSUME NEW a \in Artifact
        PROVE  Now(a)' = Now(a) /\ VerdictFor(req, a)' = VerdictFor(req, a)
    BY SameVerdict
  <2>3. Admitted(req)' = Admitted(req)
    BY <2>2 DEF Admitted
  <2>4. EndInv'
    BY <2>1, <2>2, <2>3 DEF IInv, EndInv, SuccessIsComplete, RerunAdmitted,
                           KilledRerunAdmitted, Untouched, Selected, Doomed
  <2>5. ASSUME NEW a \in Artifact PROVE Item(a)' = Item(a)
    <3>1. Mid(a)' = Mid(a)
      BY DEF Mid, Applying, Before
    <3>2. Managed(a)' = Managed(a)
      BY SameVerdict
    <3> QED
      BY <2>1, <2>2, <3>1, <3>2 DEF Item, InstallItem, RemoveItem, Installed,
         HalfPublished, HalfSaved, Removed, Untried
  <2> QED
    BY <2>4, <2>5 DEF IInv, IdleInv, WorkInv
<1> QED
  BY <1>1, <1>2, <1>3, <1>4, <1>5, <1>6, <1>7, <1>8, <1>9, <1>10 DEF Next, Start

(* The inductive invariant holds throughout. *)
LEMMA Inductive == Spec => []IInv
<1>1. Init => IInv
  BY InitInv
<1>2. IInv /\ [Next]_vars => IInv'
  BY StepInv
<1> QED
  BY <1>1, <1>2, PTL DEF Spec

(* apply_plan returns 0 only for a request that is completely applied.      *)
THEOREM SuccessHolds == Spec => []SuccessIsComplete
<1>1. IInv => SuccessIsComplete
  BY DEF IInv, EndInv
<1> QED
  BY <1>1, Inductive, PTL

(* Whatever step of a command raised, the same command is admitted again.   *)
THEOREM RerunHolds == Spec => []RerunAdmitted
<1>1. IInv => RerunAdmitted
  BY DEF IInv, EndInv
<1> QED
  BY <1>1, Inductive, PTL

(* Wherever a command was killed, it is admitted again, unless one backup   *)
(* slot stands in the way of --force; then nothing is lost by moving it.     *)
THEOREM KilledRerunHolds == Spec => []KilledRerunAdmitted
<1>1. IInv => KilledRerunAdmitted
  BY DEF IInv, EndInv
<1> QED
  BY <1>1, Inductive, PTL

-----------------------------------------------------------------------------
(* The order in which artifacts are applied *)

(* An uninstall takes a shared file when the targets' own are gone           *)
(* (plan_remove_targets: the shared rows come last).                        *)
THEOREM SharedLastHolds == Spec => SharedLeavesLast
<1>1. IInv /\ Next =>
        (\A a \in Artifact :
            /\ phase = "apply" /\ phase' = "apply" /\ req.verb = "uninstall"
            /\ quiet' /\ Owner[a] = Shared /\ file[a] # Absent /\ file'[a] = Absent
            => \A b \in Doomed(req) : Owner[b] # Shared => file[b] = Absent)
  <2> SUFFICES ASSUME IInv, Next, NEW a \in Artifact,
                      phase = "apply", phase' = "apply", req.verb = "uninstall", quiet',
                      Owner[a] = Shared, file[a] # Absent, file'[a] = Absent,
                      NEW b \in Doomed(req), Owner[b] # Shared
               PROVE  file[b] = Absent
    OBVIOUS
  <2>1. b \in Artifact /\ b # a
    BY DEF Doomed
  <2>2. PICK c \in Artifact : Publish(c) \/ Unlink(c)
    BY DEF Next, Start, Refuse, Accept, Approve, Decline, Finish, End, Apply, ClaimSlot,
           FillSlot, Record, Forget, RecordFails, Advance, Abort, Kill, Interrupt,
           Environment, SwitchRelease, UserEdit, UserBackup, UserRecord, Change, command, disk
  <2>3. a = c
    BY <2>2 DEF Publish, Unlink, IInv, TypeOK
  <2>4. Applying(a) /\ quiet
    BY <2>2, <2>3 DEF Publish, Unlink
  <2>5. verdict[b] = "none"
    BY <2>1, <2>4 DEF Applying, Before
  <2>6. Item(b) /\ b \in Scope(req)
    BY <2>1, <2>4 DEF IInv, WorkInv, Scope
  <2> QED
    BY <2>5, <2>6 DEF Item, RemoveItem, Removed, Untried
<1>2. IInv /\ [Next]_vars =>
        [\A a \in Artifact :
            /\ phase = "apply" /\ phase' = "apply" /\ req.verb = "uninstall"
            /\ quiet' /\ Owner[a] = Shared /\ file[a] # Absent /\ file'[a] = Absent
            => \A b \in Doomed(req) : Owner[b] # Shared => file[b] = Absent]_vars
  BY <1>1
<1> QED
  BY <1>2, Inductive, PTL DEF Spec, SharedLeavesLast

(* Of what an install selects, what is done comes before what is not.        *)
OrderInv ==
    phase # "idle" /\ req.verb = "install" =>
        \A a \in Selected(req), b \in Artifact :
            verdict[a] = "none" /\ verdict[b] # "none" => Order[a] < Order[b]

LEMMA OrderStep == IInv /\ OrderInv /\ [Next]_vars => OrderInv'
<1> SUFFICES ASSUME IInv, OrderInv, [Next]_vars,
                    phase' # "idle", req'.verb = "install",
                    NEW a \in Selected(req'), NEW b \in Artifact,
                    verdict'[a] = "none", verdict'[b] # "none"
             PROVE  Order[a] < Order[b]
  BY DEF OrderInv, Selected
<1>1. a \in Artifact
  BY DEF Selected
<1>2. CASE \E r \in Requests : Start(r)
  <2>1. PICK r \in Requests : Start(r)
    BY <1>2
  <2>2. req' = r /\ (phase = "idle" => ~Refuse(r))
    BY <2>1 DEF Start, Refuse, Accept
  <2>3. verdict'[a] = VerdictFor(r, a)
    BY <1>1, <2>1, <2>2 DEF Start, Refuse, Accept
  <2>4. VerdictFor(r, a) = InstallVerdict(a, r.force)
    BY <2>2 DEF VerdictFor, Scope
  <2> QED
    BY <1>1, <2>3, <2>4, VerdictKinds
<1>3. CASE phase # "idle" /\ UNCHANGED <<req, verdict>>
  BY <1>3 DEF OrderInv
<1>4. ASSUME NEW c \in Artifact, Applying(c), req' = req,
             verdict' = [verdict EXCEPT ![c] = "none"]
      PROVE  Order[a] < Order[b]
  <2>1. b # c /\ verdict[b] # "none"
    BY <1>4 DEF IInv, TypeOK
  <2>2. CASE a = c
    BY <1>4, <2>1, <2>2 DEF Applying, Before
  <2>3. CASE a # c
    <3>1. verdict[a] = "none"
      BY <1>1, <1>4, <2>3 DEF IInv, TypeOK
    <3> QED
      BY <1>4, <2>1, <3>1 DEF OrderInv, Applying
  <2> QED
    BY <2>2, <2>3
<1>5. CASE \E c \in Artifact : Record(c) \/ Forget(c) \/ RecordFails(c)
  BY <1>4, <1>5 DEF Record, Forget, RecordFails, Advance
<1>6. CASE \E c \in Artifact : ClaimSlot(c) \/ FillSlot(c) \/ Publish(c) \/ Unlink(c)
  BY <1>3, <1>6 DEF ClaimSlot, FillSlot, Publish, Unlink, Applying
<1>7. CASE Approve \/ Environment \/ UNCHANGED vars
  BY <1>3, <1>7 DEF Approve, Environment, SwitchRelease, UserEdit, UserBackup, UserRecord,
                    command, vars, OrderInv
<1>8. CASE Decline \/ Finish \/ Kill \/ \E c \in Artifact : Abort(c) \/ Interrupt(c)
  BY <1>8 DEF Decline, Finish, Kill, Abort, Interrupt, End
<1> QED
  BY <1>2, <1>5, <1>6, <1>7, <1>8 DEF Next, Apply

(* Where the order field puts what is needed before what needs it, no cut   *)
(* leaves an artifact without it (the registry's order field).               *)
THEOREM NeededHolds ==
    ASSUME \A p \in Needs : Order[p[2]] < Order[p[1]]
    PROVE  Spec => []NeededFirst
<1>1. Init => OrderInv
  BY DEF Init, OrderInv
<1>2. IInv /\ OrderInv => NeededFirst
  <2> SUFFICES ASSUME IInv, OrderInv, phase = "apply", quiet, req.verb = "install",
                      NEW p \in Needs, p[1] \in Selected(req), p[2] \in Selected(req),
                      verdict[p[1]] = "none" \/ Applying(p[1])
               PROVE  file[p[2]] = Now(p[2])
    BY DEF NeededFirst
  <2>1. /\ p[1] \in Artifact /\ p[2] \in Artifact
        /\ Order[p[2]] < Order[p[1]]
        /\ Order[p[1]] \in Nat /\ Order[p[2]] \in Nat
    BY RowAssumption DEF Selected
  <2>2. verdict[p[2]] = "none"
    BY <2>1 DEF OrderInv, Applying, Before
  <2>3. Item(p[2]) /\ p[2] \in Scope(req)
    BY <2>1 DEF IInv, WorkInv, Scope
  <2> QED
    BY <2>2, <2>3 DEF Item, InstallItem, Installed, HalfPublished, HalfSaved, Untried
<1>3. IInv /\ OrderInv /\ [Next]_vars => OrderInv'
  BY OrderStep
<1> QED
  BY <1>1, <1>2, <1>3, Inductive, PTL DEF Spec

-----------------------------------------------------------------------------
(* The lifecycle keeps its promise *)

(* With the user's hands off the machine while a command works, nothing     *)
(* changes between its preflight and its last step.                         *)
Undisturbed == phase # "idle" => quiet

LEMMA UndisturbedStep ==
    ASSUME EditsDuringRun = FALSE, Undisturbed, [Next]_vars
    PROVE  Undisturbed'
<1>1. CASE Environment
  BY <1>1 DEF Environment, SwitchRelease, UserEdit, UserBackup, UserRecord,
              Change, command, Undisturbed
<1>2. CASE \E a \in Artifact : Apply(a)
  BY <1>2 DEF Apply, ClaimSlot, FillSlot, Publish, Record, Unlink, Forget,
              RecordFails, Abort, End, Advance, Applying, Undisturbed
<1>3. CASE \E r \in Requests : Start(r)
  BY <1>3 DEF Start, Refuse, Accept, Undisturbed
<1>4. CASE Approve \/ Decline \/ Finish \/ Kill \/ UNCHANGED vars
  BY <1>4 DEF Approve, Decline, Finish, Kill, End, vars, Undisturbed
<1>5. CASE \E a \in Artifact : Interrupt(a)
  BY <1>5 DEF Interrupt, End, Undisturbed
<1> QED
  BY <1>1, <1>2, <1>3, <1>4, <1>5 DEF Next

(* The state of the promise, as the refinement mapping computes it.         *)
Proved == [a \in Artifact |-> IF record[a] \in Proof THEN {record[a].sha} ELSE {}]
Waived == IF phase # "idle" /\ req.verb = "uninstall" /\ req.force
          THEN Doomed(req) ELSE {}

LEMMA ProvedStays ==
    ASSUME record' = record
    PROVE  Proved' = Proved
  BY DEF Proved

LEMMA WaivedStays ==
    ASSUME phase # "idle", phase' # "idle", req' = req
    PROVE  Waived' = Waived
  BY DEF Waived, Doomed

(* Every step that goes on is one the promise allows.                       *)
LEMMA StepPromised ==
    ASSUME TypeOK, NEW a \in Artifact, Item(a),
           ClaimSlot(a) \/ FillSlot(a) \/ Publish(a) \/ Record(a)
           \/ Unlink(a) \/ Forget(a) \/ RecordFails(a),
           req \in Request
    PROVE  [Promise!Next]_Promise!vars
<1>0. /\ Applying(a) /\ phase = "apply" /\ phase' = "apply" /\ req' = req
  BY StepFrame
<1>1. Waived' = Waived
  BY <1>0, WaivedStays
<1>2. Now(a) \in KitBytes[a] /\ Now(a) \in Bytes
  BY NowInBytes DEF TypeOK
<1>3. CASE ClaimSlot(a)
  <2>1. bak[a] = Absent /\ bak' = [bak EXCEPT ![a] = Torn] /\ file' = file
        /\ record' = record
    BY <1>3 DEF ClaimSlot
  <2>2. Promise!Claim(a)
    BY <1>0, <1>1, <2>1, ProvedStays DEF Promise!Claim, Waived, Proved
  <2> QED
    BY <2>2 DEF Promise!Next
<1>4. CASE FillSlot(a)
  <2>1. step = "claimed" /\ bak' = [bak EXCEPT ![a] = snapshot[a]]
        /\ file' = file /\ record' = record
    BY <1>4 DEF FillSlot
  <2>2. bak[a] = Torn /\ snapshot[a] = file[a]
    BY <1>0, <2>1, MidIsHalf DEF HalfPublished, HalfSaved
  <2>3. Promise!Save(a)
    BY <1>0, <1>1, <2>1, <2>2, ProvedStays DEF Promise!Save, Waived, Proved
  <2> QED
    BY <2>3 DEF Promise!Next
<1>5. CASE Publish(a)
  <2>1. /\ CanPublish(a) /\ file' = [file EXCEPT ![a] = Now(a)]
        /\ bak' = bak /\ record' = record
    BY <1>5 DEF Publish
  <2>2. file[a] = Absent \/ file[a] \in Proved[a] \/ bak[a] = file[a]
    <3>1. CASE verdict[a] = "write"
      BY <2>1, <3>1 DEF CanPublish
    <3>2. CASE verdict[a] = "replace"
      <4>1. step = "start"
        BY <2>1, <3>2 DEF CanPublish
      <4>2. InstallVerdict(a, req.force) = "replace"
        BY <1>0, <3>2, <4>1, StartsUntried, VerdictKinds
      <4>3. Managed(a)
        BY <4>2, Zenon DEF InstallVerdict, Replaceable
      <4> QED
        BY <4>3 DEF Managed, Proved
    <3>3. CASE verdict[a] = "backup-replace"
      BY <1>0, <2>1, <3>3, MidIsHalf DEF CanPublish, HalfPublished, HalfSaved
    <3> QED
      BY <2>1, <3>1, <3>2, <3>3 DEF CanPublish
  <2>3. Promise!Publish(a)
    BY <1>0, <1>1, <1>2, <2>1, <2>2, ProvedStays
       DEF Promise!Publish, Waived, Proved
  <2> QED
    BY <2>3 DEF Promise!Next
<1>6. CASE Record(a)
  <2>1. /\ ToRecord(a) /\ file' = file /\ bak' = bak
        /\ record' = [record EXCEPT ![a] = [sha |-> Now(a), version |-> running]]
    BY <1>6 DEF Record, Advance
  <2>2. file[a] = Now(a)
    <3>1. CASE step = "start"
      <4>1. InstallVerdict(a, req.force) = "adopt"
        BY <1>0, <2>1, <3>1, StartsUntried, VerdictKinds DEF ToRecord
      <4> QED
        BY <4>1, Zenon DEF InstallVerdict
    <3>2. CASE step # "start"
      <4>1. verdict[a] = "adopt" => ~HalfSaved(a) /\ ~HalfPublished(a) /\ ~Removed(a)
        BY <1>0 DEF HalfSaved, HalfPublished, Removed, Applying
      <4> QED
        BY <1>0, <2>1, <3>2, <4>1, MidIsHalf
           DEF ToRecord, HalfPublished, HalfSaved
    <3> QED
      BY <3>1, <3>2
  <2>3. Proved' = [Proved EXCEPT ![a] = {file[a]}]
    <3>1. [sha |-> Now(a), version |-> running] \in Proof
      BY <1>2 DEF Proof, TypeOK
    <3>2. \A b \in Artifact : Proved'[b] = [Proved EXCEPT ![a] = {file[a]}][b]
      BY <2>1, <2>2, <3>1 DEF Proved, TypeOK
    <3> QED
      BY <3>2 DEF Proved
  <2>4. Promise!Learn(a)
    BY <1>0, <1>1, <1>2, <2>1, <2>2, <2>3 DEF Promise!Learn, Waived, Proved
  <2> QED
    BY <2>4 DEF Promise!Next
<1>7. CASE Unlink(a)
  <2>1. /\ verdict[a] = "remove" /\ step = "start"
        /\ file' = [file EXCEPT ![a] = Absent] /\ bak' = bak /\ record' = record
    BY <1>7 DEF Unlink
  <2>2. /\ a \in Scope(req) /\ req.verb = "uninstall"
        /\ RemoveVerdict(a, req.force) = "remove"
    BY <1>0, <2>1, StartsUntried, VerdictKinds DEF Request
  <2>3. file[a] \in Proved[a] \cup KitBytes[a] \/ a \in Waived
    <3>1. req.force \/ file[a] = Now(a) \/ Managed(a)
      BY <2>2, Zenon DEF RemoveVerdict
    <3>2. CASE req.force
      BY <1>0, <2>2, <3>2 DEF Waived, Scope
    <3>3. CASE file[a] = Now(a)
      BY <1>2, <3>3
    <3>4. CASE Managed(a)
      BY <3>4 DEF Managed, Proved
    <3> QED
      BY <3>1, <3>2, <3>3, <3>4
  <2>4. Promise!Remove(a)
    BY <1>0, <1>1, <2>1, <2>3, ProvedStays DEF Promise!Remove, Waived, Proved
  <2> QED
    BY <2>4 DEF Promise!Next
<1>8. CASE Forget(a)
  <2>1. /\ step = "unlinked" /\ file' = file /\ bak' = bak
        /\ record' = [record EXCEPT ![a] = NoRecord]
    BY <1>8 DEF Forget, Advance
  <2>2. file[a] = Absent
    BY <1>0, <2>1, MidIsHalf DEF HalfPublished, HalfSaved, Removed
  <2>3. Proved' = [Proved EXCEPT ![a] = {}]
    <3>1. NoRecord \notin Proof
      BY ValueAssumption
    <3>2. \A b \in Artifact : Proved'[b] = [Proved EXCEPT ![a] = {}][b]
      BY <2>1, <3>1 DEF Proved, TypeOK
    <3> QED
      BY <3>2 DEF Proved
  <2>4. Promise!Unlearn(a)
    BY <1>0, <1>1, <2>1, <2>2, <2>3 DEF Promise!Unlearn, Waived, Proved
  <2> QED
    BY <2>4 DEF Promise!Next
<1>9. CASE RecordFails(a)
  <2>1. file' = file /\ bak' = bak /\ record' = record
    BY <1>9 DEF RecordFails, Advance
  <2> QED
    BY <1>0, <1>1, <2>1, ProvedStays DEF Promise!vars, Waived, Proved
<1> QED
  BY <1>3, <1>4, <1>5, <1>6, <1>7, <1>8, <1>9

(* A command that ends leaves the files as they are, and gives a slot back  *)
(* only where the file still holds what the slot held.                      *)
LEMMA EndPromised ==
    ASSUME phase # "idle", phase' = "idle", file' = file, record' = record,
           \/ bak' = bak
           \/ \E a \in Artifact : /\ bak[a] \in {Torn, file[a]}
                                  /\ bak' = [bak EXCEPT ![a] = Absent]
    PROVE  [Promise!Next]_Promise!vars
<1>1. Waived' = {}
  BY DEF Waived
<1>2. Proved' = Proved
  BY ProvedStays
<1>3. Promise!Rest
  BY <1>1, <1>2 DEF Promise!Rest, Waived, Proved
<1> QED
  BY <1>3 DEF Promise!Next

(* What the user does between two commands is the user's to do. *)
LEMMA UserPromised ==
    ASSUME TypeOK, TypeOK', NEW a \in Artifact, phase = "idle", phase' = "idle",
           UserEdit(a) \/ UserBackup(a) \/ UserRecord(a)
    PROVE  [Promise!Next]_Promise!vars
<1>1. Waived = {} /\ Waived' = {}
  BY DEF Waived
<1>2. \E v \in FileValue : file' = [file EXCEPT ![a] = v]
  BY DEF UserEdit, UserBackup, UserRecord, TypeOK
<1>3. \E v \in SlotValue : bak' = [bak EXCEPT ![a] = v]
  BY DEF UserEdit, UserBackup, UserRecord, TypeOK
<1>4. Proved' = Proved \/ Proved' = [Proved EXCEPT ![a] = {}]
  <2>1. CASE UserEdit(a) \/ UserBackup(a)
    BY <2>1, ProvedStays DEF UserEdit, UserBackup
  <2>2. CASE UserRecord(a)
    <3>1. PICK v \in {NoRecord, Squatted} : record' = [record EXCEPT ![a] = v]
      BY <2>2 DEF UserRecord
    <3>2. v \notin Proof
      BY ValueAssumption
    <3>3. \A b \in Artifact : Proved'[b] = [Proved EXCEPT ![a] = {}][b]
      BY <3>1, <3>2 DEF Proved, TypeOK
    <3> QED
      BY <3>3 DEF Proved
  <2> QED
    BY <2>1, <2>2
<1>5. Promise!User(a)
  BY <1>1, <1>2, <1>3, <1>4 DEF Promise!User, Waived, Proved
<1> QED
  BY <1>5 DEF Promise!Next

LEMMA RefinementStep ==
    ASSUME EditsDuringRun = FALSE, Interrupts = FALSE,
           IInv, IInv', Undisturbed, [Next]_vars
    PROVE  [Promise!Next]_Promise!vars
<1>0. TypeOK /\ TypeOK'
  BY DEF IInv
<1>1. CASE \E r \in Requests : Refuse(r)
  <2>1. phase = "idle" /\ phase' = "idle" /\ UNCHANGED <<file, bak, record>>
    BY <1>1 DEF Refuse, disk
  <2>2. Waived = {} /\ Waived' = {}
    BY <2>1 DEF Waived
  <2> QED
    BY <2>1, <2>2, ProvedStays DEF Promise!vars, Waived, Proved
<1>2. CASE \E r \in Requests, ask \in BOOLEAN : Accept(r, ask)
  <2>1. phase = "idle" /\ phase' # "idle" /\ UNCHANGED <<file, bak, record>>
    BY <1>2 DEF Accept, disk
  <2>2. Waived' \in SUBSET Artifact
    BY DEF Waived, Doomed
  <2>3. Promise!Ask
    BY <2>1, <2>2, ProvedStays DEF Promise!Ask, Waived, Proved
  <2> QED
    BY <2>3 DEF Promise!Next
<1>3. CASE Approve
  <2>1. phase # "idle" /\ phase' # "idle" /\ req' = req
        /\ UNCHANGED <<file, bak, record>>
    BY <1>3 DEF Approve, disk
  <2> QED
    BY <2>1, ProvedStays, WaivedStays DEF Promise!vars, Waived, Proved
<1>4. CASE Decline \/ Finish \/ Kill
  <2>1. phase # "idle" /\ phase' = "idle" /\ UNCHANGED <<file, bak, record>>
    BY <1>4 DEF Decline, Finish, Kill, End, disk
  <2> QED
    BY <2>1, EndPromised
<1>5. ASSUME NEW a \in Artifact, Apply(a) PROVE [Promise!Next]_Promise!vars
  <2>1. phase # "idle"
    BY <1>5 DEF Apply, ClaimSlot, FillSlot, Publish, Record, Unlink, Forget,
                RecordFails, Abort, Applying
  <2>2. Item(a) /\ req \in Request
    BY <2>1, RequestAssumption DEF IInv, WorkInv, Undisturbed
  <2>3. CASE Abort(a)
    <3>1. phase' = "idle" /\ file' = file /\ record' = record /\ Applying(a)
          /\ step # "unlinked" /\ ~ToRecord(a)
      BY <2>3 DEF Abort, End
    <3>2. CASE step \in {"claimed", "saved"}
      <4>1. bak' = [bak EXCEPT ![a] = Absent]
        BY <2>3, <3>2 DEF Abort
      <4>2. bak[a] \in {Torn, file[a]}
        BY <2>2, <3>1, <3>2, MidIsHalf DEF HalfPublished, HalfSaved
      <4> QED
        BY <2>1, <3>1, <4>1, <4>2, EndPromised
    <3>3. CASE step \notin {"claimed", "saved"}
      <4>1. bak' = bak
        BY <2>3, <3>3 DEF Abort
      <4> QED
        BY <2>1, <3>1, <4>1, EndPromised
    <3> QED
      BY <3>2, <3>3
  <2>4. CASE ~Abort(a)
    BY <1>0, <1>5, <2>2, <2>4, StepPromised DEF Apply
  <2> QED
    BY <2>3, <2>4
<1>6. CASE SwitchRelease
  <2>1. phase = "idle" /\ phase' = "idle" /\ UNCHANGED <<file, bak, record>>
    BY <1>6 DEF SwitchRelease, command, disk
  <2>2. Waived = {} /\ Waived' = {}
    BY <2>1 DEF Waived
  <2> QED
    BY <2>1, <2>2, ProvedStays DEF Promise!vars, Waived, Proved
<1>7. ASSUME NEW a \in Artifact, UserEdit(a) \/ UserBackup(a) \/ UserRecord(a)
      PROVE  [Promise!Next]_Promise!vars
  <2>1. phase = "idle" /\ phase' = "idle"
    BY <1>7 DEF UserEdit, UserBackup, UserRecord, Change, command
  <2> QED
    BY <1>0, <1>7, <2>1, UserPromised
<1>8. CASE UNCHANGED vars
  BY <1>8, ProvedStays DEF vars, Promise!vars, Proved, Doomed
<1>9. ~ \E a \in Artifact : Interrupt(a)
  BY DEF Interrupt
<1> QED
  BY <1>1, <1>2, <1>3, <1>4, <1>5, <1>6, <1>7, <1>8, <1>9
     DEF Next, Start, Environment

(* The lifecycle keeps the promise OwnershipPromise states, on every machine *)
(* whose files are left alone while a command works on them, as long as no   *)
(* Ctrl-C reaches it there.                                                 *)
THEOREM PromiseHolds ==
    ASSUME EditsDuringRun = FALSE, Interrupts = FALSE
    PROVE  Spec => PromiseKept
<1>1. Init => Promise!Init
  <2> SUFFICES ASSUME Init PROVE Promise!Init
    OBVIOUS
  <2>1. TypeOK
    BY InitType
  <2>2. \A a \in Artifact : record[a] \notin Proof
    BY ValueAssumption DEF Init
  <2> QED
    BY <2>1, <2>2 DEF Init, TypeOK, Promise!Init
<1>2. Init => Undisturbed
  BY DEF Init, Undisturbed
<1>3. Undisturbed /\ [Next]_vars => Undisturbed'
  BY UndisturbedStep
<1>4. IInv /\ IInv' /\ Undisturbed /\ [Next]_vars => [Promise!Next]_Promise!vars
  BY RefinementStep
<1> QED
  BY <1>1, <1>2, <1>3, <1>4, Inductive, PTL DEF Spec, PromiseKept, Promise!Spec
=============================================================================
