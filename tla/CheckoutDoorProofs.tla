-------------------------- MODULE CheckoutDoorProofs --------------------------
(***************************************************************************)
(* install.py --cli and install.sh, for any builds, stamps, contents,       *)
(* repositories, histories and requests.  Alone, install.py --cli ends well  *)
(* only when its request is applied, what failed is admitted again, and the  *)
(* promise of the lifecycle engine holds.  With install.sh before it, the    *)
(* composition is a behaviour of CliZipapp, whose theorems carry over, and   *)
(* what it installs is what install.sh was asked for.                       *)
(***************************************************************************)
EXTENDS CheckoutDoor, TLAPS

-----------------------------------------------------------------------------
(* What a preflight decides *)

(* Each plan of an install says what its preflight found.                   *)
LEMMA InstallPlanMeans ==
    ASSUME NEW force
    PROVE  /\ InstallPlan(force) \in {"write", "refuse", "adopt", "upgrade",
                                      "backup-replace"}
           /\ InstallPlan(force) = "write" => file = Absent
           /\ InstallPlan(force) \in {"adopt", "upgrade", "backup-replace"} =>
                 file \in Regular
           /\ InstallPlan(force) = "adopt" => IsThisBuild
           /\ InstallPlan(force) = "upgrade" => Managed /\ ~IsThisBuild
           /\ InstallPlan(force) = "backup-replace" =>
                 force /\ bak = Absent /\ ~Managed /\ ~IsThisBuild
BY Zenon DEF InstallPlan

(* Each plan of an uninstall, likewise.                                     *)
LEMMA RemovePlanMeans ==
    ASSUME NEW force
    PROVE  /\ RemovePlan(force) \in {"none", "remove", "refuse"}
           /\ RemovePlan(force) = "none" => file = Absent
           /\ RemovePlan(force) = "remove" =>
                 /\ file \notin {Absent, Directory}
                 /\ force \/ Managed \/ (IsThisBuild /\ ~Edited)
BY Zenon DEF RemovePlan

(* What an install takes: nothing there, its own build, a managed copy, and *)
(* with --force and a free slot anything that can be read.                  *)
LEMMA InstallAdmits ==
    ASSUME NEW force,
           \/ file = Absent
           \/ IsThisBuild
           \/ Managed
           \/ file \in Regular /\ force /\ bak = Absent
    PROVE  InstallPlan(force) # "refuse"
<1>1. CASE file = Absent
  BY <1>1, Zenon DEF InstallPlan
<1>2. CASE file # Absent
  <2>1. file \in Regular
    BY <1>2 DEF IsThisBuild, Managed
  <2> QED
    BY <1>2, <2>1, Zenon DEF InstallPlan
<1> QED
  BY <1>1, <1>2

(* What an uninstall takes. *)
LEMMA RemoveAdmits ==
    ASSUME NEW force,
           \/ file = Absent
           \/ file # Directory /\ (force \/ Managed \/ (IsThisBuild /\ ~Edited))
    PROVE  RemovePlan(force) # "refuse"
BY Zenon DEF RemovePlan

(* A preflight reads the checkout and the disk, and nothing else.           *)
LEMMA SamePlan ==
    ASSUME build' = build, file' = file, bak' = bak, record' = record, NEW force
    PROVE  /\ InstallPlan(force)' = InstallPlan(force)
           /\ RemovePlan(force)' = RemovePlan(force)
           /\ IsThisBuild' = IsThisBuild /\ Managed' = Managed /\ Edited' = Edited
BY DEF InstallPlan, RemovePlan, IsThisBuild, Managed, Edited

-----------------------------------------------------------------------------
(* The inductive invariant: what a command has done so far, plan by plan.   *)
(* Each step leaves the disk in a state the next preflight would admit.     *)

Adopting ==
    plan = "adopt" =>
        /\ req.verb = "install" /\ step \in {"start", "noted"}
        /\ file \in Regular /\ IsThisBuild
        /\ step = "noted" => record = file.bytes

(* Before the publication an install stands where its preflight stood, but   *)
(* for the slot; after it the file is the staged build.                     *)
Ahead ==
    /\ plan = "write" => file = Absent /\ step \in {"start", "staged"}
    /\ plan = "upgrade" => Managed /\ ~IsThisBuild /\ step \in {"start", "staged"}
    /\ plan = "backup-replace" =>
          /\ req.force /\ file \in Regular /\ ~Managed /\ ~IsThisBuild
          /\ step \in {"start", "staged", "claimed", "saved"}
          /\ step \in {"start", "staged"} => bak = Absent
          /\ step = "claimed" => bak = Torn
          /\ step = "saved" => bak = file.bytes

Behind ==
    /\ step \in {"published", "noted"}
    /\ file = [bytes |-> staged, exec |-> TRUE]
    /\ step = "noted" => record = staged

Replacing ==
    Installing =>
        /\ req.verb = "install"
        /\ step # "start" => staged \in Archive /\ staged.of = build
        /\ Ahead \/ Behind

Removing ==
    plan = "remove" =>
        /\ req.verb = "uninstall"
        /\ \/ /\ step = "start"
              /\ file \notin {Absent, Directory}
              /\ req.force \/ Managed \/ (IsThisBuild /\ ~Edited)
           \/ step \in {"unlinked", "noted"} /\ file = Absent

Working ==
    /\ Idle => step = "start"
    /\ ~Idle => outcome = "ok" /\ req \in Requests
    /\ Adopting /\ Replacing /\ Removing

Ended == CliSuccessIsComplete /\ CliRerunAdmitted

IInv == TypeOK /\ Working /\ Ended

(* A build that was published is this checkout's.                           *)
LEMMA BehindIsThisBuild ==
    ASSUME Behind, staged \in Archive, staged.of = build
    PROVE  IsThisBuild /\ file \in Regular /\ file.bytes = staged
<1>1. file \in Regular
  BY DEF Behind, Regular, Bytes
<1>2. file.bytes = staged /\ file.exec = TRUE
  BY DEF Behind
<1> QED
  BY <1>1, <1>2 DEF IsThisBuild

LEMMA InitHolds == Init => IInv
<1> SUFFICES ASSUME Init PROVE IInv
  OBVIOUS
<1>1. TypeOK
  <2>1. file \in FileValue
    BY CliRequestAssumption DEF Init
  <2>2. bak \in SlotValue
    BY DEF Init, SlotValue, Bytes
  <2> QED
    BY <2>1, <2>2 DEF Init, TypeOK, RecordValue, Action
<1>2. Working
  BY DEF Init, Working, Idle, Adopting, Replacing, Installing, Removing
<1>3. Ended
  BY DEF Init, Ended, CliSuccessIsComplete, CliRerunAdmitted, Untouched
<1> QED
  BY <1>1, <1>2, <1>3 DEF IInv
-----------------------------------------------------------------------------
(* Steps *)

(* The type of the file, the slot and the record after a step of a command. *)
LEMMA StepType ==
    ASSUME TypeOK, Working, [Next]_vars
    PROVE  TypeOK'
<1> USE DEF TypeOK
<1>1. CASE \E r \in Requests : Refuse(r)
  BY <1>1, CliRequestAssumption DEF Refuse, disk
<1>2. CASE \E r \in Requests : Accept(r)
  <2>1. PICK r \in Requests : Accept(r)
    BY <1>2
  <2>2. PlanFor(r) \in Action
    BY <2>1, InstallPlanMeans, RemovePlanMeans DEF Accept, Admitted, PlanFor, Action
  <2> QED
    BY <2>1, <2>2, CliRequestAssumption DEF Accept, disk
<1>3. CASE Stage
  BY <1>3 DEF Stage, disk, Archive
<1>4. CASE ClaimSlot
  BY <1>4 DEF ClaimSlot, SlotValue
<1>5. CASE FillSlot
  <2>1. file \in Regular
    BY <1>5 DEF FillSlot, Working, Idle, Adopting, Replacing, Removing, Installing,
                Ahead, Behind, Action
  <2>2. file.bytes \in SlotValue
    BY <2>1 DEF Regular, SlotValue
  <2> QED
    BY <1>5, <2>2 DEF FillSlot
<1>6. CASE Publish
  <2>1. staged \in Archive
    BY <1>6 DEF Publish, ReadyToPublish, Working, Replacing, Installing
  <2>2. [bytes |-> staged, exec |-> TRUE] \in FileValue
    BY <2>1 DEF FileValue, Regular, Bytes
  <2> QED
    BY <1>6, <2>2 DEF Publish
<1>7. CASE Record
  <2>1. ProofOf \in Bytes
    BY <1>7 DEF Record, ToRecord, ProofOf, Working, Idle, Adopting, Replacing,
                Removing, Installing, Action, Regular, Bytes
  <2> QED
    BY <1>7, <2>1 DEF Record, RecordValue
<1>8. CASE Unlink \/ Forget
  BY <1>8 DEF Unlink, Forget, FileValue, RecordValue
<1>9. CASE Finish \/ Kill
  BY <1>9 DEF Finish, Kill, End, disk, Action
<1>10. CASE Abort
  BY <1>10 DEF Abort, End, Action, SlotValue
<1>11. CASE User
  <2>1. file' \in FileValue
    <3>1. CASE file' \in Found \cup {Absent}
      BY <3>1, CliRequestAssumption DEF FileValue
    <3>2. CASE file \in Regular /\ file' = [file EXCEPT !.exec = ~@]
      BY <3>2 DEF FileValue, Regular
    <3>3. CASE file' = file
      BY <3>3
    <3> QED
      BY <1>11, <3>1, <3>2, <3>3 DEF User
  <2>2. bak' \in SlotValue /\ record' \in RecordValue
    BY <1>11 DEF User, SlotValue, RecordValue, Bytes
  <2> QED
    BY <1>11, <2>1, <2>2 DEF User, Change
<1>12. CASE Move
  BY <1>12 DEF Move, Change, disk
<1>13. CASE UNCHANGED vars
  BY <1>13 DEF vars, disk
<1> QED
  BY <1>1, <1>2, <1>3, <1>4, <1>5, <1>6, <1>7, <1>8, <1>9, <1>10, <1>11, <1>12, <1>13
     DEF Next, Apply

(* What is planned is what the preflight found.                             *)
LEMMA AcceptWorks ==
    ASSUME TypeOK, Working, NEW r \in Requests, Accept(r)
    PROVE  Working'
<1>1. /\ plan' = PlanFor(r) /\ PlanFor(r) # "refuse" /\ req' = r /\ outcome' = "ok"
      /\ step' = "start"
    BY DEF Accept, Admitted, Working
<1>2. /\ IsThisBuild' = IsThisBuild /\ Managed' = Managed /\ Edited' = Edited
      /\ file' = file /\ bak' = bak
  BY SamePlan DEF Accept, disk
<1>3. r \in Request
  BY CliRequestAssumption
<1>4. CASE r.verb = "install"
  <2>1. plan' = InstallPlan(r.force)
    BY <1>1, <1>4 DEF PlanFor
  <2>2. Adopting'
    BY <1>1, <1>2, <1>4, <2>1, InstallPlanMeans DEF Adopting
  <2>3. Ahead'
    BY <1>1, <1>2, <1>4, <2>1, InstallPlanMeans DEF Ahead
  <2>4. plan' # "remove" /\ plan' # "none"
    BY <2>1, InstallPlanMeans
  <2> QED
    BY <1>1, <1>4, <2>2, <2>3, <2>4 DEF Working, Idle, Replacing, Removing
<1>5. CASE r.verb # "install"
  <2>1. plan' = RemovePlan(r.force) /\ r.verb = "uninstall"
    BY <1>1, <1>3, <1>5 DEF PlanFor, Request
  <2>2. plan' \in {"none", "remove"}
    BY <1>1, <2>1, RemovePlanMeans
  <2>3. Removing'
    BY <1>1, <1>2, <2>1, RemovePlanMeans DEF Removing
  <2> QED
    BY <1>1, <2>2, <2>3 DEF Working, Idle, Adopting, Replacing, Installing
<1> QED
  BY <1>4, <1>5

(* Each step of a plan takes its file from one stage to the next.           *)
LEMMA ApplyWorks ==
    ASSUME TypeOK, Working, ~Idle,
           \/ Stage \/ ClaimSlot \/ FillSlot \/ Publish \/ Record \/ Unlink \/ Forget
    PROVE  Working'
<1> USE DEF TypeOK, Working, Idle
<1>0. plan' = plan /\ req' = req /\ outcome' = outcome /\ build' = build
  BY DEF Stage, ClaimSlot, FillSlot, Publish, Record, Unlink, Forget, disk
<1>1. CASE Stage
  <2>1. staged' \in Archive /\ staged'.of = build /\ step' = "staged"
    BY <1>1 DEF Stage, Archive
  <2>2. Ahead
    BY <1>1 DEF Stage, Replacing, Behind
  <2>3. Ahead'
    BY <1>0, <1>1, <2>1, <2>2, SamePlan DEF Stage, disk, Ahead
  <2> QED
    BY <1>0, <1>1, <2>1, <2>3 DEF Stage, Replacing, Adopting, Removing, Installing
<1>2. CASE ClaimSlot
  <2>1. Ahead /\ Managed' = Managed /\ IsThisBuild' = IsThisBuild
    BY <1>0, <1>2 DEF ClaimSlot, Replacing, Installing, Behind, Managed, IsThisBuild
  <2>2. Ahead'
    BY <1>0, <1>2, <2>1 DEF ClaimSlot, Ahead
  <2> QED
    BY <1>0, <1>2, <2>2 DEF ClaimSlot, Replacing, Adopting, Removing, Installing
<1>3. CASE FillSlot
  <2>1. plan = "backup-replace" /\ Ahead
    BY <1>3 DEF FillSlot, Replacing, Adopting, Removing, Installing, Behind, Ahead,
                Action
  <2>2. Managed' = Managed /\ IsThisBuild' = IsThisBuild
    BY <1>0, <1>3 DEF FillSlot, Managed, IsThisBuild
  <2>3. Ahead'
    BY <1>0, <1>3, <2>1, <2>2 DEF FillSlot, Ahead
  <2> QED
    BY <1>0, <1>3, <2>1, <2>3 DEF FillSlot, Replacing, Adopting, Removing, Installing
<1>4. CASE Publish
  <2>1. Installing /\ staged' = staged /\ step' = "published" /\ step # "start"
    BY <1>4 DEF Publish, ReadyToPublish, Installing
  <2>2. Behind'
    BY <1>4, <2>1 DEF Publish, Behind
  <2> QED
    BY <1>0, <2>1, <2>2 DEF Replacing, Adopting, Removing, Installing
<1>5. CASE Record
  <2>1. CASE plan = "adopt"
    <3>1. IsThisBuild' = IsThisBuild /\ file' = file
      BY <1>0, <1>5 DEF Record, IsThisBuild
    <3> QED
      BY <1>0, <1>5, <2>1, <3>1 DEF Record, ProofOf, Replacing, Adopting, Removing, Installing
  <2>2. CASE plan # "adopt"
    <3>1. Installing /\ Behind
      <4>1. step = "published"
        BY <1>5, <2>2 DEF Record, ToRecord
      <4>2. Installing
        BY <2>2, <4>1 DEF Removing, Installing, Action
      <4> QED
        BY <4>1, <4>2 DEF Replacing, Installing, Ahead
    <3>2. Behind'
      BY <1>5, <2>2, <3>1 DEF Record, ProofOf, Behind
    <3>3. staged' = staged /\ step # "start" /\ plan \in {"write", "upgrade", "backup-replace"}
      BY <1>5, <3>1 DEF Record, Behind, Installing
    <3>4. Replacing'
      BY <1>0, <3>1, <3>2, <3>3 DEF Replacing
    <3> QED
      BY <1>0, <3>3, <3>4 DEF Adopting, Removing
  <2> QED
    BY <2>1, <2>2
<1>6. CASE Unlink \/ Forget
  <2>1. plan = "remove" /\ file' = Absent /\ step' \in {"unlinked", "noted"}
    BY <1>6 DEF Unlink, Forget, Replacing, Adopting, Removing, Installing, Ahead, Behind,
                Action
  <2> QED
    BY <1>0, <2>1 DEF Replacing, Adopting, Removing, Installing
<1> QED
  BY <1>1, <1>2, <1>3, <1>4, <1>5, <1>6

(* What a command leaves behind, wherever it stops, its repetition takes;    *)
(* but for the slot of a forced install, which then holds the file.         *)
LEMMA StoppedAdmits ==
    ASSUME TypeOK, Working, ~Idle
    PROVE  \/ PlanFor(req) # "refuse"
           \/ /\ plan = "backup-replace" /\ file \in Regular
              /\ req = [verb |-> "install", force |-> TRUE]
              /\ \/ step = "claimed" /\ bak = Torn
                 \/ step = "saved" /\ bak = file.bytes
<1>0. req \in Request /\ plan \in Action /\ plan # "none"
  BY CliRequestAssumption DEF Working, Idle, TypeOK
<1>1. CASE plan = "adopt"
  BY <1>1, InstallAdmits DEF Working, Adopting, PlanFor
<1>2. CASE Installing
  <2>1. req.verb = "install" /\ (Ahead \/ Behind)
    BY <1>2 DEF Working, Replacing
  <2>2. CASE Behind
    <3>1. IsThisBuild
      BY <1>2, <2>2, BehindIsThisBuild DEF Working, Replacing, Behind
    <3> QED
      BY <2>1, <3>1, InstallAdmits DEF PlanFor
  <2>3. CASE Ahead /\ plan \in {"write", "upgrade"}
    BY <2>1, <2>3, InstallAdmits DEF Ahead, PlanFor
  <2>4. CASE Ahead /\ plan = "backup-replace" /\ step \in {"start", "staged"}
    BY <2>1, <2>4, InstallAdmits DEF Ahead, PlanFor
  <2>5. CASE Ahead /\ plan = "backup-replace" /\ step \in {"claimed", "saved"}
    <3>1. req.force = TRUE
      BY <1>0, <2>5 DEF Ahead, Request
    <3>2. req = [verb |-> "install", force |-> TRUE]
      BY <1>0, <2>1, <3>1 DEF Request
    <3> QED
      BY <2>5, <3>2 DEF Ahead
  <2> QED
    BY <1>2, <2>1, <2>2, <2>3, <2>4, <2>5 DEF Installing, Ahead
<1>3. CASE plan = "remove"
  <2>1. req.verb # "install"
    BY <1>3 DEF Working, Removing
  <2>2. \/ file = Absent
        \/ file # Directory /\ (req.force \/ Managed \/ (IsThisBuild /\ ~Edited))
    BY <1>3 DEF Working, Removing
  <2>3. RemovePlan(req.force) # "refuse"
    BY <2>2, RemoveAdmits
  <2> QED
    BY <2>1, <2>3 DEF PlanFor
<1> QED
  BY <1>0, <1>1, <1>2, <1>3 DEF Action, Installing

(* A command that stops plans nothing more. *)
LEMMA EndWorks ==
    ASSUME NEW how, End(how)
    PROVE  Working' /\ Idle'
BY DEF End, Working, Idle, Adopting, Replacing, Removing, Installing

LEMMA FinishEnds ==
    ASSUME TypeOK, Working, Finish
    PROVE  Ended'
<1>1. /\ step = "noted" /\ ~Idle /\ outcome = "ok" /\ outcome' = "ok" /\ req' = req
      /\ build' = build /\ file' = file /\ record' = record
  BY DEF Finish, End, disk, Working
<1>2. CASE plan = "remove"
  <2>1. file = Absent /\ req.verb = "uninstall"
    BY <1>1, <1>2 DEF Working, Removing
  <2> QED
    BY <1>1, <2>1 DEF Ended, CliSuccessIsComplete, CliRerunAdmitted
<1>3. CASE plan = "adopt"
  <2>1. IsThisBuild /\ record = file.bytes /\ req.verb = "install"
    BY <1>1, <1>3 DEF Working, Adopting
  <2> QED
    BY <1>1, <2>1 DEF Ended, CliSuccessIsComplete, CliRerunAdmitted, IsThisBuild
<1>4. CASE Installing
  <2>1. req.verb = "install" /\ Behind /\ staged \in Archive /\ staged.of = build
    BY <1>1, <1>4 DEF Working, Replacing, Ahead, Installing
  <2>2. IsThisBuild /\ file.bytes = staged /\ record = staged
    BY <1>1, <2>1, BehindIsThisBuild DEF Behind
  <2> QED
    BY <1>1, <2>1, <2>2 DEF Ended, CliSuccessIsComplete, CliRerunAdmitted, IsThisBuild
<1> QED
  BY <1>1, <1>2, <1>3, <1>4 DEF TypeOK, Action, Idle, Installing

LEMMA FailureEnds ==
    ASSUME TypeOK, Working, Abort \/ Kill
    PROVE  Ended'
<1>1. /\ ~Idle /\ req' = req /\ build' = build /\ file' = file /\ record' = record
      /\ outcome' \in {"error", "killed"}
  BY DEF Abort, Kill, End, disk
<1>2. bak' = bak \/ (step = "claimed" /\ bak' = Absent /\ outcome' = "error")
  BY DEF Abort, Kill, End, disk
<1>3. CASE bak' = bak
  <2>1. CASE PlanFor(req) # "refuse"
    <3>1. PlanFor(req)' # "refuse"
      BY <1>1, <1>3, <2>1, SamePlan DEF PlanFor
    <3> QED
      BY <1>1, <3>1 DEF Ended, CliSuccessIsComplete, CliRerunAdmitted, Admitted
  <2>2. CASE PlanFor(req) = "refuse"
    <3>1. /\ file \in Regular /\ req = [verb |-> "install", force |-> TRUE]
          /\ \/ step = "claimed" /\ bak = Torn
             \/ step = "saved" /\ bak = file.bytes
      BY <1>1, <2>2, StoppedAdmits
    <3>2. CASE step = "saved"
      BY <1>1, <1>3, <3>1, <3>2 DEF Ended, CliSuccessIsComplete, CliRerunAdmitted, Content
    <3>3. CASE step = "claimed" /\ outcome' = "killed"
      BY <1>1, <1>3, <3>1, <3>3 DEF Ended, CliSuccessIsComplete, CliRerunAdmitted
    <3>4. CASE step = "claimed" /\ outcome' # "killed"
      <4>1. bak' = Absent
        BY <3>4 DEF Abort, Kill, End
      <4> QED
        BY <1>3, <3>1, <3>4, <4>1, CliValueAssumption DEF Bytes
    <3> QED
      BY <3>1, <3>2, <3>3, <3>4
  <2> QED
    BY <2>1, <2>2
<1>4. CASE step = "claimed" /\ bak' = Absent /\ outcome' = "error"
  <2>1. plan = "backup-replace"
    BY <1>1, <1>4 DEF Working, Idle, Adopting, Replacing, Removing, Installing, Ahead,
                      Behind, TypeOK, Action
  <2>2. req.verb = "install" /\ req.force /\ file \in Regular
    BY <1>4, <2>1 DEF Working, Replacing, Installing, Ahead, Behind
  <2>3. file' \in Regular /\ req'.force /\ bak' = Absent
    BY <1>1, <1>4, <2>2
  <2>4. InstallPlan(req.force)' # "refuse"
    BY <2>3, Zenon DEF InstallPlan
  <2> QED
    BY <1>1, <2>2, <2>4 DEF Ended, CliSuccessIsComplete, CliRerunAdmitted, Admitted, PlanFor
<1> QED
  BY <1>2, <1>3, <1>4

(* Before a command ends, and once the world has changed since, nothing is   *)
(* claimed.                                                                 *)
LEMMA NothingEnded ==
    ASSUME ~Idle \/ ~quiet \/ outcome = "refused"
    PROVE  Ended
BY DEF Ended, CliSuccessIsComplete, CliRerunAdmitted, Untouched

LEMMA StepHolds == IInv /\ [Next]_vars => IInv'
<1> SUFFICES ASSUME IInv, [Next]_vars PROVE Working' /\ Ended'
  BY StepType DEF IInv
<1>0. TypeOK /\ Working
  BY DEF IInv
<1>1. CASE \E r \in Requests : Refuse(r)
  <2>1. /\ Idle /\ Idle' /\ step' = step /\ outcome' = "refused"
        /\ plan' = plan
    BY <1>1 DEF Refuse, Idle
  <2>2. Working'
    BY <1>0, <2>1 DEF Working, Idle, Adopting, Replacing, Removing, Installing
  <2> QED
    BY <2>1, <2>2 DEF Ended, CliSuccessIsComplete, CliRerunAdmitted
<1>2. CASE \E r \in Requests : Accept(r)
  <2>1. PICK r \in Requests : Accept(r)
    BY <1>2
  <2>2. Working'
    BY <1>0, <2>1, AcceptWorks
  <2>3. CASE ~Idle'
    BY <2>2, <2>3 DEF Ended, CliSuccessIsComplete, CliRerunAdmitted, Untouched
  <2>4. CASE Idle'
    <3>1. r.verb # "install" /\ RemovePlan(r.force) = "none"
      BY <2>1, <2>4, InstallPlanMeans DEF Accept, Idle, PlanFor
    <3>2. file' = Absent /\ req' = r /\ outcome' = "ok"
      BY <2>1, <3>1, RemovePlanMeans DEF Accept, disk
    <3> QED
      BY <2>2, <3>1, <3>2 DEF Ended, CliSuccessIsComplete, CliRerunAdmitted
  <2> QED
    BY <2>2, <2>3, <2>4
<1>3. CASE Stage \/ ClaimSlot \/ FillSlot \/ Publish \/ Record \/ Unlink \/ Forget
  <2>1. ~Idle
    BY <1>0, <1>3 DEF Stage, ClaimSlot, FillSlot, Publish, ReadyToPublish, Record,
       ToRecord, Unlink, Forget, Installing, Working, Idle
  <2>2. Working' /\ plan' = plan
    BY <1>0, <1>3, <2>1, ApplyWorks
       DEF Stage, ClaimSlot, FillSlot, Publish, Record, Unlink, Forget
  <2> QED
    BY <2>1, <2>2 DEF Idle, Ended, CliSuccessIsComplete, CliRerunAdmitted, Untouched
<1>4. CASE Finish
  BY <1>0, <1>4, FinishEnds, EndWorks DEF Finish
<1>5. CASE Abort \/ Kill
  BY <1>0, <1>5, FailureEnds, EndWorks DEF Abort, Kill
<1>6. CASE User \/ Move
  <2>1. Idle /\ plan' = plan /\ step' = step /\ quiet' = FALSE
    BY <1>6 DEF User, Move, Change
  <2>2. Working'
    BY <1>0, <2>1 DEF Working, Idle, Adopting, Replacing, Removing, Installing
  <2> QED
    BY <2>1, <2>2 DEF Ended, CliSuccessIsComplete, CliRerunAdmitted, Untouched
<1>7. CASE UNCHANGED vars
  <2> USE <1>7 DEF vars, disk
  <2>1. /\ IsThisBuild' = IsThisBuild /\ Managed' = Managed /\ Edited' = Edited
        /\ Admitted(req)' = Admitted(req)
    BY SamePlan DEF Admitted, PlanFor
  <2>2. Working'
    BY <1>0, <2>1 DEF Working, Idle, Adopting, Replacing, Removing, Installing, Ahead,
                      Behind
  <2>3. Ended'
    BY <2>1 DEF IInv, Ended, CliSuccessIsComplete, CliRerunAdmitted, Untouched, Idle,
                Content
  <2> QED
    BY <2>2, <2>3
<1> QED
  BY <1>1, <1>2, <1>3, <1>4, <1>5, <1>6, <1>7 DEF Next, Apply

LEMMA Inductive == Spec => []IInv
BY InitHolds, StepHolds, PTL DEF Spec

(* An install that exits 0 leaves this checkout's build in place and proven, *)
(* an uninstall nothing (apply_plan, _plan_cli_install, _plan_cli).         *)
THEOREM CliSuccessHolds == Spec => []CliSuccessIsComplete
<1>1. IInv => CliSuccessIsComplete
  BY DEF IInv, Ended
<1> QED
  BY <1>1, Inductive, PTL

(* Wherever a command raised or was killed, it is admitted again, or the     *)
(* slot of its --force holds what the file still holds.                     *)
THEOREM CliRerunHolds == Spec => []CliRerunAdmitted
<1>1. IInv => CliRerunAdmitted
  BY DEF IInv, Ended
<1> QED
  BY <1>1, Inductive, PTL

-----------------------------------------------------------------------------
(* The promise of the lifecycle engine *)

(* The state of the promise, as the refinement mapping computes it.         *)
Proved == IF record \in Bytes THEN {record} ELSE {}
Waived == IF plan = "remove" /\ req.force THEN {"cli"} ELSE {}
Only(value) == [a \in {"cli"} |-> value]

LEMMA ContentType == TypeOK => Content \in Bytes \cup {Absent, Directory, Special}
BY DEF TypeOK, Content, FileValue, Regular

(* Steps that move neither the files nor the proof, nor start or end a       *)
(* command, are no steps of the promise.                                    *)
LEMMA StutterPromised ==
    ASSUME Content' = Content, bak' = bak, record' = record, Idle' = Idle,
           Waived' = Waived
    PROVE  UNCHANGED CliPromise!vars
BY DEF CliPromise!vars, Waived

(* A command that stops may give back a slot that was only claimed.          *)
LEMMA RestPromised ==
    ASSUME ~Idle, Idle', Content' = Content, record' = record,
           bak' = bak \/ (bak = Torn /\ bak' = Absent)
    PROVE  CliPromise!Next
<1>1. Waived' = {}
  BY DEF Waived, Idle
<1>2. \/ Only(bak)' = Only(bak)
      \/ /\ Only(bak)["cli"] = Torn
         /\ Only(bak)' = [Only(bak) EXCEPT !["cli"] = Absent]
  BY DEF Only
<1>3. CliPromise!Rest
  BY <1>1, <1>2 DEF CliPromise!Rest, Waived, Only
<1> QED
  BY <1>3 DEF CliPromise!Next

LEMMA ApplyPromised ==
    ASSUME IInv, ~Idle,
           \/ Stage \/ ClaimSlot \/ FillSlot \/ Publish \/ Record \/ Unlink \/ Forget
    PROVE  [CliPromise!Next]_CliPromise!vars
<1>0. /\ TypeOK /\ Working /\ Idle' = Idle /\ Waived' = Waived /\ "cli" \in {"cli"}
  BY DEF IInv, Stage, ClaimSlot, FillSlot, Publish, Record, Unlink, Forget, disk, Idle,
         Waived
<1>1. CASE Stage
  BY <1>0, <1>1, StutterPromised DEF Stage, disk, Content
<1>2. CASE ClaimSlot
  <2>1. Content' = Content /\ record' = record /\ bak = Absent /\ bak' = Torn
    BY <1>2 DEF ClaimSlot, Content
  <2>2. CliPromise!Claim("cli")
    BY <1>0, <2>1 DEF CliPromise!Claim, Waived
  <2> QED
    BY <1>0, <2>2 DEF CliPromise!Next
<1>3. CASE FillSlot
  <2>1. file \in Regular /\ bak = Torn
    BY <1>0, <1>3 DEF FillSlot, Working, Idle, Adopting, Replacing, Removing, Installing,
                Ahead, Behind, TypeOK, Action
  <2>2. Content' = Content /\ record' = record /\ bak' = Content
    BY <1>3, <2>1 DEF FillSlot, Content
  <2>3. CliPromise!Save("cli")
    BY <1>0, <2>1, <2>2 DEF CliPromise!Save, Waived
  <2> QED
    BY <1>0, <2>3 DEF CliPromise!Next
<1>4. CASE Publish
  <2>1. /\ Installing /\ Ahead /\ staged \in Archive
        /\ plan = "backup-replace" => step = "saved"
    BY <1>0, <1>4 DEF Publish, ReadyToPublish, Working, Replacing, Installing, Behind
  <2>2. Content = Absent \/ Content \in Proved \/ bak = Content
    <3>1. CASE plan = "write"
      BY <2>1, <3>1, CliValueAssumption DEF Ahead, Content
    <3>2. CASE plan = "upgrade"
      BY <2>1, <3>2 DEF Ahead, Managed, Content, Proved, Regular
    <3>3. CASE plan = "backup-replace"
      BY <2>1, <3>3 DEF Ahead, Content
    <3> QED
      BY <2>1, <3>1, <3>2, <3>3 DEF Installing
  <2>3. Content' = staged /\ bak' = bak /\ record' = record
    BY <1>4, <2>1 DEF Publish, Content, Regular, Bytes
  <2>4. CliPromise!Publish("cli")
    BY <1>0, <2>1, <2>2, <2>3 DEF CliPromise!Publish, Waived, Proved
  <2> QED
    BY <1>0, <2>4 DEF CliPromise!Next
<1>5. CASE Record
  <2>1. file \in Regular /\ ProofOf = file.bytes /\ file.bytes \in Archive
    <3>1. CASE plan = "adopt"
      BY <1>0, <3>1 DEF Working, Adopting, ProofOf, IsThisBuild
    <3>2. CASE plan # "adopt"
      <4>1. step = "published"
        BY <1>5, <3>2 DEF Record, ToRecord
      <4>2. Installing
        BY <1>0, <3>2, <4>1 DEF Working, Idle, Removing, Installing, TypeOK, Action
      <4>3. Behind /\ staged \in Archive
        BY <1>0, <4>1, <4>2 DEF Working, Replacing, Installing, Ahead
      <4> QED
        BY <3>2, <4>3 DEF Behind, Regular, Bytes, ProofOf
    <3> QED
      BY <3>1, <3>2
  <2>2. Content' = Content /\ bak' = bak /\ Content \in Archive /\ Proved' = {Content}
    BY <1>5, <2>1 DEF Record, Content, Proved, Bytes
  <2>3. CliPromise!Learn("cli")
    BY <1>0, <2>2 DEF CliPromise!Learn, Waived, Proved
  <2> QED
    BY <1>0, <2>3 DEF CliPromise!Next
<1>6. CASE Unlink
  <2>1. /\ plan = "remove" /\ step = "start" /\ file' = Absent
        /\ UNCHANGED <<bak, record>>
    BY <1>6 DEF Unlink
  <2>2. /\ file \notin {Absent, Directory}
        /\ req.force \/ Managed \/ IsThisBuild
    BY <1>0, <2>1 DEF Working, Removing
  <2>3. Content \in Proved \cup Archive \/ "cli" \in Waived
    BY <2>1, <2>2 DEF Managed, IsThisBuild, Content, Proved, Waived, Regular
  <2>4. Content' = Absent
    BY <2>1, CliValueAssumption DEF Content
  <2>5. CliPromise!Remove("cli")
    BY <1>0, <2>1, <2>3, <2>4 DEF CliPromise!Remove, Waived, Proved
  <2> QED
    BY <1>0, <2>5 DEF CliPromise!Next
<1>7. CASE Forget
  <2>1. file = Absent
    BY <1>0, <1>7 DEF Forget, Working, Idle, Adopting, Replacing, Removing, Installing,
                Ahead, Behind, TypeOK, Action
  <2>2. Content = Absent /\ Content' = Content /\ bak' = bak /\ Proved' = {}
    BY <1>7, <2>1, CliValueAssumption DEF Forget, Content, Proved
  <2>3. CliPromise!Unlearn("cli")
    BY <1>0, <2>2 DEF CliPromise!Unlearn, Waived, Proved
  <2> QED
    BY <1>0, <2>3 DEF CliPromise!Next
<1> QED
  BY <1>1, <1>2, <1>3, <1>4, <1>5, <1>6, <1>7

(* What the user does between two commands is the user's to do.             *)
LEMMA UserPromised ==
    ASSUME TypeOK', User
    PROVE  CliPromise!Next
<1>1. Idle /\ Idle' /\ Waived' = {} /\ Waived = {}
  BY DEF User, Change, Idle, Waived
<1>2. Content' \in Bytes \cup {Absent, Directory, Special} /\ bak' \in SlotValue
  BY DEF TypeOK, Content, FileValue, Regular
<1>3. Proved' = Proved \/ Proved' = {}
  BY CliValueAssumption DEF User, Proved
<1>4. CliPromise!User("cli")
  BY <1>1, <1>2, <1>3 DEF CliPromise!User, Waived, Proved
<1> QED
  BY <1>4 DEF CliPromise!Next

LEMMA RefinementStep ==
    ASSUME IInv, IInv', [Next]_vars
    PROVE  [CliPromise!Next]_CliPromise!vars
<1>0. TypeOK /\ TypeOK' /\ Working
  BY DEF IInv
<1>1. CASE \E r \in Requests : Refuse(r)
  <2>1. Idle /\ Idle' /\ Content' = Content /\ bak' = bak /\ record' = record
    BY <1>1 DEF Refuse, disk, Idle, Content
  <2>2. Waived' = Waived
    BY <2>1 DEF Idle, Waived
  <2> QED
    BY <2>1, <2>2, StutterPromised
<1>2. CASE \E r \in Requests : Accept(r)
  <2>1. Idle /\ Content' = Content /\ bak' = bak /\ record' = record
    BY <1>2 DEF Accept, disk, Idle, Content
  <2>2. CASE Idle'
    <3>1. Waived' = Waived
      BY <2>1, <2>2 DEF Idle, Waived
    <3> QED
      BY <2>1, <2>2, <3>1, StutterPromised
  <2>3. CASE ~Idle'
    <3>1. CliPromise!Ask
      BY <2>1, <2>3 DEF CliPromise!Ask, Waived
    <3> QED
      BY <3>1 DEF CliPromise!Next
  <2> QED
    BY <2>2, <2>3
<1>3. CASE Stage \/ ClaimSlot \/ FillSlot \/ Publish \/ Record \/ Unlink \/ Forget
  <2>1. ~Idle
    BY <1>0, <1>3 DEF Stage, ClaimSlot, FillSlot, Publish, ReadyToPublish, Record,
       ToRecord, Unlink, Forget, Installing, Working, Idle
  <2> QED
    BY <1>3, <2>1, ApplyPromised
<1>4. CASE Finish \/ Abort \/ Kill
  <2>1. /\ ~Idle /\ Idle' /\ Content' = Content /\ record' = record
        /\ bak' = bak \/ (step = "claimed" /\ bak' = Absent)
    BY <1>0, <1>4 DEF Finish, Abort, Kill, End, disk, Idle, Content, Working
  <2>2. step = "claimed" => bak = Torn
    BY <1>0, <2>1 DEF Working, Idle, Adopting, Replacing, Removing, Installing,
                Ahead, Behind, TypeOK, Action
  <2> QED
    BY <2>1, <2>2, RestPromised
<1>5. CASE User
  BY <1>0, <1>5, UserPromised
<1>6. CASE Move
  <2>1. /\ Idle /\ Idle' /\ Content' = Content /\ bak' = bak /\ record' = record
        /\ Waived' = Waived
    BY <1>6 DEF Move, Change, disk, Idle, Content, Waived
  <2> QED
    BY <2>1, StutterPromised
<1>7. CASE UNCHANGED vars
  BY <1>7, StutterPromised DEF vars, disk, Idle, Content, Waived
<1> QED
  BY <1>1, <1>2, <1>3, <1>4, <1>5, <1>6, <1>7 DEF Next, Apply

(* Bytes that no record proves and no checkout builds are never lost to      *)
(* install.py --cli, whatever fails and wherever it is killed.              *)
THEOREM CliPromiseHolds == Spec => CliPromiseKept
<1>1. Init => CliPromise!Init
  <2> SUFFICES ASSUME Init PROVE CliPromise!Init
    OBVIOUS
  <2>1. TypeOK
    BY InitHolds DEF IInv
  <2>2. Content \in Bytes \cup {Absent, Directory, Special} /\ bak \in SlotValue
    BY <2>1, ContentType DEF TypeOK
  <2>3. Proved = {} /\ Idle /\ Waived = {}
    BY CliValueAssumption DEF Init, Proved, Idle, Waived
  <2> QED
    BY <2>2, <2>3 DEF CliPromise!Init, Proved, Waived
<1>2. IInv /\ IInv' /\ [Next]_vars => [CliPromise!Next]_CliPromise!vars
  BY RefinementStep
<1> QED
  BY <1>1, <1>2, Inductive, PTL DEF Spec, CliPromiseKept, CliPromise!Spec

-----------------------------------------------------------------------------
(* install.sh *)

(* The repositories hold commits, and so does the checkout; a run under way *)
(* has a request, and works on a checkout from its first git command on.    *)
BootInv ==
    /\ remote \in [Repo -> [Ref -> Commit \cup {NoCommit}]]
    /\ home \in Clone \cup {NoHome, Foreign}
    /\ tree \in Commit \cup Uncommitted \cup {NoCommit}
    /\ at \in {"rest", "git", "fetched", "ready"}
    /\ at # "rest" => ask \in Ask
    /\ at \in {"git", "fetched"} => ~ask.inPlace
    /\ at = "fetched" => home \in Clone /\ given \in Commit /\ ask.ref # Latest

(* The checkout is at what was asked for.                                   *)
Brought ==
    /\ home \in Clone
    /\ given \in Ancestors[home.head]
    /\ ask.ref # Latest \/ ask.inPlace => home.head = given

(* The commands of install.sh do not overlap with install.py, and what they  *)
(* brought the checkout to stays until install.py has ended and somebody     *)
(* has touched something.                                                   *)
HandInv ==
    /\ build = tree
    /\ at # "rest" => Idle
    /\ at = "ready" => Brought
    /\ at = "rest" /\ (~Idle \/ quiet) => Brought

DoorInv == BootInv /\ HandInv

LEMMA CommitsReach == \A c \in Commit : c \in Ancestors[c] /\ c # NoCommit
BY BootstrapAssumption

(* Git carries to a commit the tree of that commit, or what is no commit's.  *)
LEMMA CarriedType ==
    ASSUME tree \in Commit \cup Uncommitted \cup {NoCommit}, NEW c \in Commit
    PROVE  Carried(c) \subseteq Commit \cup Uncommitted \cup {NoCommit}
BY DEF Carried

LEMMA ClonedType ==
    ASSUME BootInv, at = "git", CanClone
    PROVE  /\ Cloned \in Clone
           /\ Cloned.head \in Commit
<1>1. Wanted \in Ref /\ ask.repo \in Repo
  BY BootstrapAssumption DEF BootInv, Ask, Ref, Wanted
<1>2. remote[ask.repo][Wanted] \in Commit
  BY <1>1 DEF BootInv, CanClone
<1> QED
  BY <1>1, <1>2 DEF Cloned, Clone

(* What install.sh does to the checkout and its own state.                  *)
LEMMA GitStep ==
    ASSUME BootInv,
           \/ \E a \in Asks : Begin(a)
           \/ CloneIt \/ Fetch \/ Checkout \/ Pull \/ GitFails
    PROVE  BootInv' /\ (at' = "ready" => Brought')
<1> USE DEF BootInv
<1>1. CASE \E a \in Asks : Begin(a)
  <2> PICK a \in Asks : Begin(a)
    BY <1>1
  <2>1. a \in Ask
    BY DoorAssumption
  <2>2. BootInv'
    BY <1>1, <2>1 DEF Begin
  <2>3. ASSUME at' = "ready" PROVE Brought'
    <3>1. /\ home \in Clone /\ ask'.ref = Latest /\ given' = home.head /\ home' = home
      BY <1>1, <2>3 DEF Begin
    <3> QED
      BY <3>1, CommitsReach DEF Brought, Clone
  <2> QED
    BY <2>2, <2>3
<1>2. CASE CloneIt
  <2>1. /\ home' = Cloned /\ given' = Cloned.head /\ tree' = Cloned.head
        /\ at' = "ready" /\ remote' = remote /\ ask' = ask
    BY <1>2 DEF CloneIt
  <2>2. Cloned \in Clone /\ Cloned.head \in Commit
    BY <1>2, ClonedType DEF CloneIt
  <2> QED
    BY <1>2, <2>1, <2>2, CommitsReach DEF CloneIt, Brought
<1>3. CASE Fetch
  <2>1. home.origin \in Repo /\ ask.ref \in Ref
    BY <1>3 DEF Fetch, Clone, Ask
  <2>2. given' \in Commit
    BY <1>3, <2>1 DEF Fetch
  <2> QED
    BY <1>3, <2>2 DEF Fetch
<1>4. CASE Checkout
  <2>1. home' \in Clone /\ home'.head = given
    BY <1>4 DEF Checkout, Clone
  <2>2. tree' \in Commit \cup Uncommitted \cup {NoCommit}
    BY <1>4, CarriedType DEF Checkout
  <2> QED
    BY <1>4, <2>1, <2>2, CommitsReach DEF Checkout, Brought
<1>5. CASE Pull
  <2> DEFINE tip == remote[home.origin][home.on]
             head == IF tip \in Ancestors[home.head] THEN home.head ELSE tip
  <2>1. /\ home \in Clone /\ home.origin \in Repo /\ home.on \in Ref /\ tip # NoCommit
    BY <1>5 DEF Pull, CanPull, Clone, Ref
  <2>2. tip \in Commit /\ home.head \in Commit
    BY <2>1 DEF Clone
  <2>3. /\ home' = [home EXCEPT !.head = head] /\ tree' \in Carried(head)
        /\ given' = tip /\ at' = "ready" /\ remote' = remote /\ ask' = ask
    BY <1>5 DEF Pull, FollowBranch
  <2>4. home' \in Clone /\ tip \in Ancestors[home'.head]
    BY <2>1, <2>2, <2>3, CommitsReach DEF Clone
  <2>5. ask.ref = Latest /\ ~ask.inPlace
    BY <1>5 DEF Pull
  <2>6. tree' \in Commit \cup Uncommitted \cup {NoCommit}
    <3> HIDE DEF tip
    <3>1. head \in Commit
      BY <2>2
    <3> HIDE DEF head
    <3> QED
      BY <2>3, <3>1, CarriedType
  <2> QED
    BY <1>5, <2>3, <2>4, <2>5, <2>6 DEF Pull, Brought
<1>6. CASE GitFails
  <2>1. at' = "rest" /\ remote' = remote /\ ask' = ask
    BY <1>6 DEF GitFails
  <2>2. CASE UNCHANGED <<home, tree>>
    BY <2>1, <2>2
  <2>3. ASSUME NEW c \in Underway, tree' \in {c} \cup Uncommitted, UNCHANGED home
        PROVE  BootInv'
    <3>1. c \in Commit
      <4>1. CASE at = "fetched"
        BY <2>3, <4>1 DEF Underway
      <4>2. CASE at # "fetched"
        <5>1. CanPull /\ c = remote[home.origin][home.on]
          BY <2>3, <4>2 DEF Underway
        <5>2. home \in Clone /\ home.origin \in Repo /\ home.on \in Ref /\ c # NoCommit
          BY <5>1 DEF CanPull, Clone, Ref
        <5> QED
          BY <5>1, <5>2
      <4> QED
        BY <4>1, <4>2
    <3> QED
      BY <2>1, <2>3, <3>1
  <2>4. CASE at = "git" /\ CanClone /\ home' = Cloned /\ tree' \in Uncommitted
    BY <2>1, <2>4, ClonedType
  <2> QED
    BY <1>6, <2>1, <2>2, <2>3, <2>4 DEF GitFails, BrokenOff
<1> QED
  BY <1>1, <1>2, <1>3, <1>4, <1>5, <1>6

-----------------------------------------------------------------------------
(* Both together *)

LEMMA DoorStart == DoorInit => DoorInv /\ Init
<1> SUFFICES ASSUME DoorInit PROVE DoorInv
  BY DEF DoorInit
<1>1. remote \in [Repo -> [Ref -> Commit \cup {NoCommit}]]
  <2>1. remote \in [Repo -> [Ref -> Commit]]
    BY BootstrapAssumption DEF DoorInit, BootInit
  <2> QED
    BY <2>1
<1>2. BootInv
  BY <1>1 DEF DoorInit, BootInit, BootInv
<1>3. HandInv
  BY DEF DoorInit, BootInit, Init, HandInv, Idle
<1> QED
  BY <1>2, <1>3 DEF DoorInv

(* While install.py runs, the checkout it builds from stays as it is.       *)
LEMMA InstallStays ==
    ASSUME HandInv, UNCHANGED bootVars, build' = build,
           Idle' /\ quiet' => ~Idle \/ quiet, ~Idle' => ~Idle
    PROVE  HandInv'
<1>1. Brought' = Brought
  BY DEF bootVars, Brought
<1> QED
  BY <1>1 DEF HandInv, bootVars

(* One step of the composition keeps its invariant, and is one of CliZipapp  *)
(* or none.                                                                 *)
LEMMA DoorStep ==
    ASSUME DoorInv, [DoorNext]_doorVars
    PROVE  DoorInv' /\ [Next]_vars
<1>0. BootInv /\ HandInv
  BY DEF DoorInv
<1>1. CASE Git
  <2>1. /\ \/ \E a \in Asks : Begin(a)
           \/ CloneIt \/ Fetch \/ Checkout \/ Pull \/ GitFails
        /\ OnTheCheckout
    BY <1>1 DEF Git
  <2>2. BootInv' /\ (at' = "ready" => Brought')
    BY <1>0, <2>1, GitStep
  <2>3. /\ Idle /\ Idle' /\ quiet' = FALSE /\ build' = tree'
        /\ UNCHANGED <<disk, req, plan, step, staged, outcome>> /\ Change
    BY <2>1 DEF OnTheCheckout, Change, Idle
  <2>4. HandInv'
    BY <2>2, <2>3 DEF HandInv
  <2>5. build' \in Build
    BY <2>2, <2>3, DoorAssumption DEF BootInv
  <2>6. Move
    BY <2>3, <2>5 DEF Move
  <2> QED
    BY <2>2, <2>4, <2>6 DEF DoorInv, Next
<1>2. CASE \E r \in Requests : HandOver(r)
  <2>1. PICK r \in Requests : HandOver(r)
    BY <1>2
  <2>2. /\ at = "ready" /\ at' = "rest" /\ UNCHANGED <<remote, home, tree, ask, given>>
        /\ build' = build /\ (Refuse(r) \/ Accept(r))
    BY <2>1 DEF HandOver, Refuse, Accept
  <2>3. Brought'
    BY <1>0, <2>2 DEF HandInv, Brought
  <2>4. BootInv'
    BY <1>0, <2>2 DEF BootInv
  <2>5. HandInv'
    BY <1>0, <2>2, <2>3 DEF HandInv
  <2> QED
    BY <2>2, <2>4, <2>5 DEF DoorInv, Next
<1>3. CASE Install
  <2>1. UNCHANGED bootVars /\ (Apply \/ Abort \/ Kill)
    BY <1>3 DEF Install
  <2>2. build' = build /\ quiet' = quiet
    BY <2>1 DEF Apply, Stage, ClaimSlot, FillSlot, Publish, Record, Unlink, Forget,
                Finish, Abort, Kill, disk
  <2>3. ~Idle' => ~Idle
    BY <2>1 DEF Apply, Stage, ClaimSlot, FillSlot, Publish, Record, Unlink, Forget,
                Finish, Abort, Kill, End, disk, Idle
  <2>4. HandInv'
    BY <1>0, <2>1, <2>2, <2>3, InstallStays
  <2>5. BootInv'
    BY <1>0, <2>1 DEF BootInv, bootVars
  <2> QED
    BY <2>1, <2>4, <2>5 DEF DoorInv, Next
<1>4. CASE World /\ RemoteMoves /\ UNCHANGED vars
  <2>1. PICK r \in Repo, ref \in Ref, c \in Commit \cup {NoCommit} :
           remote' = [remote EXCEPT ![r][ref] = c]
    BY <1>4 DEF RemoteMoves
  <2>2. remote' \in [Repo -> [Ref -> Commit \cup {NoCommit}]]
    BY <1>0, <2>1 DEF BootInv
  <2>3. UNCHANGED <<home, tree, ask, at, given, build, plan, quiet>>
    BY <1>4 DEF RemoteMoves, vars
  <2>4. BootInv'
    BY <1>0, <2>2, <2>3 DEF BootInv
  <2>5. HandInv'
    BY <1>0, <2>3 DEF HandInv, Brought, Idle
  <2> QED
    BY <1>4, <2>4, <2>5 DEF DoorInv
<1>5. CASE World /\ UserMovesHome /\ OnTheCheckout
  <2>1. /\ at = "rest" /\ at' = "rest" /\ home' \in Clone \cup {NoHome, Foreign}
        /\ tree' \in Commit \cup Uncommitted \cup {NoCommit}
        /\ UNCHANGED <<remote, ask, given>>
    BY <1>5 DEF UserMovesHome, Clone
  <2>2. /\ Idle /\ Idle' /\ quiet' = FALSE /\ build' = tree'
        /\ UNCHANGED <<disk, req, plan, step, staged, outcome>> /\ Change
    BY <1>5 DEF OnTheCheckout, Change, Idle
  <2>3. BootInv'
    BY <1>0, <2>1 DEF BootInv
  <2>4. HandInv'
    BY <2>1, <2>2 DEF HandInv
  <2>5. build' \in Build
    BY <2>1, <2>2, DoorAssumption
  <2>6. Move
    BY <2>2, <2>5 DEF Move
  <2> QED
    BY <2>3, <2>4, <2>6 DEF DoorInv, Next
<1>6. CASE World /\ User /\ UNCHANGED bootVars
  <2>1. build' = build /\ quiet' = FALSE /\ Idle /\ Idle'
    BY <1>6 DEF User, Change, Idle
  <2>2. HandInv'
    BY <1>0, <1>6, <2>1, InstallStays
  <2>3. BootInv'
    BY <1>0, <1>6 DEF BootInv, bootVars
  <2> QED
    BY <1>6, <2>2, <2>3 DEF DoorInv, Next
<1>7. CASE UNCHANGED doorVars
  <2>1. UNCHANGED vars /\ UNCHANGED bootVars
    BY <1>7 DEF doorVars
  <2>2. build' = build /\ quiet' = quiet /\ Idle' = Idle
    BY <2>1 DEF vars, Idle
  <2>3. HandInv'
    BY <1>0, <2>1, <2>2, InstallStays
  <2>4. BootInv'
    BY <1>0, <2>1 DEF BootInv, bootVars
  <2> QED
    BY <2>1, <2>3, <2>4 DEF DoorInv
<1> QED
  BY <1>1, <1>2, <1>3, <1>4, <1>5, <1>6, <1>7 DEF DoorNext, World

LEMMA DoorInductive == DoorSpec => []DoorInv
<1>1. DoorInit => DoorInv
  BY DoorStart
<1>2. DoorInv /\ [DoorNext]_doorVars => DoorInv'
  BY DoorStep
<1> QED
  BY <1>1, <1>2, PTL DEF DoorSpec

(* install.sh and install.py on one checkout do to the zipapp what           *)
(* install.py --cli does on a checkout that anybody may move: all that is    *)
(* proved of CliZipapp holds here.                                          *)
THEOREM DoorIsCliZipapp == DoorSpec => Spec
<1>1. DoorInit => Init
  BY DoorStart
<1>2. DoorInv /\ [DoorNext]_doorVars => [Next]_vars
  BY DoorStep
<1> QED
  BY <1>1, <1>2, DoorInductive, PTL DEF DoorSpec, Spec

(* A run that exits 0 has brought the checkout to what install.sh was asked  *)
(* for, whatever earlier runs, the user and the remote left behind, and has  *)
(* installed that commit's build when the files are that commit's.          *)
THEOREM InstalledHolds == DoorSpec => []InstalledIsWhatWasAsked
<1>1. DoorInv /\ CliSuccessIsComplete => InstalledIsWhatWasAsked
  <2> SUFFICES ASSUME DoorInv, CliSuccessIsComplete, Untouched, at = "rest",
                      outcome = "ok", req.verb = "install"
               PROVE  /\ given \in Ancestors[home.head]
                      /\ ask.ref # Latest \/ ask.inPlace => home.head = given
                      /\ tree = home.head => file.bytes.of = home.head
                      /\ record = file.bytes
    BY DEF InstalledIsWhatWasAsked
  <2>1. Brought
    BY DEF DoorInv, HandInv, Untouched
  <2>2. file.bytes.of = tree /\ record = file.bytes
    BY DEF CliSuccessIsComplete, IsThisBuild, DoorInv, HandInv
  <2> QED
    BY <2>1, <2>2 DEF Brought
<1> QED
  BY <1>1, DoorInductive, DoorIsCliZipapp, CliSuccessHolds, PTL
==============================================================================
