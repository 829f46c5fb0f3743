--------------------------- MODULE OwnershipPromise ---------------------------
(***************************************************************************)
(* What the lifecycle verbs of semlf promise the owner of the machine,      *)
(* with every detail of how they keep it left out.  A destination holds     *)
(* bytes; the kit may put its own bytes there, take them away again, and    *)
(* save what it is about to replace in a one-slot backup.                   *)
(*                                                                         *)
(* The promise is in the guards: while the kit is at work, bytes leave a    *)
(* destination only when a proof says the kit wrote them, when they are a   *)
(* rendering of the kit, when the backup slot already holds them, or when   *)
(* the user waived the promise for that file (`uninstall --force`).  The    *)
(* slot is claimed only when it is free, and emptied again only while the   *)
(* destination still holds the bytes.  A proof is learned from bytes that   *)
(* are in place and dropped only after they are gone.                       *)
(*                                                                         *)
(* ArtifactLifecycle implements this specification.                         *)
(***************************************************************************)
CONSTANTS
    Artifact,    \* the artifacts the kit installs
    KitBytes,    \* [Artifact -> set of byte strings the kit renders for it]
    FileValue,   \* what a destination can hold
    SlotValue,   \* what a backup slot can hold
    Absent,      \* nothing is there
    Torn         \* a backup that was started and not completed

VARIABLES
    file,        \* [Artifact -> FileValue]: the destinations
    bak,         \* [Artifact -> SlotValue]: the backup slots
    proof,       \* [Artifact -> set of bytes the kit can prove it wrote]
    busy,        \* the kit is at work; otherwise the machine is the user's
    waived       \* the artifacts the user asked to have removed regardless

vars == <<file, bak, proof, busy, waived>>

Init ==
    /\ file \in [Artifact -> FileValue]
    /\ bak \in [Artifact -> SlotValue]
    /\ proof = [a \in Artifact |-> {}]
    /\ busy = FALSE
    /\ waived = {}

(* The user starts a command, possibly waiving the promise for some files. *)
Ask ==
    /\ ~busy
    /\ busy' = TRUE
    /\ waived' \in SUBSET Artifact
    /\ UNCHANGED <<file, bak, proof>>

(* Kit bytes appear at a destination. *)
Publish(a) ==
    /\ busy
    /\ \/ file[a] = Absent
       \/ file[a] \in proof[a]
       \/ bak[a] = file[a]
    /\ \E b \in KitBytes[a] : file' = [file EXCEPT ![a] = b]
    /\ UNCHANGED <<bak, proof, busy, waived>>

(* A destination is emptied. *)
Remove(a) ==
    /\ busy
    /\ file[a] \in proof[a] \cup KitBytes[a] \/ a \in waived
    /\ file' = [file EXCEPT ![a] = Absent]
    /\ UNCHANGED <<bak, proof, busy, waived>>

(* A free backup slot is claimed; the copy is not complete yet. *)
Claim(a) ==
    /\ busy
    /\ bak[a] = Absent
    /\ bak' = [bak EXCEPT ![a] = Torn]
    /\ UNCHANGED <<file, proof, busy, waived>>

(* The claimed slot receives what the destination holds. *)
Save(a) ==
    /\ busy
    /\ bak[a] = Torn
    /\ bak' = [bak EXCEPT ![a] = file[a]]
    /\ UNCHANGED <<file, proof, busy, waived>>

(* The kit can prove from now on that it wrote what is in place. *)
Learn(a) ==
    /\ busy
    /\ file[a] \in KitBytes[a]
    /\ proof' = [proof EXCEPT ![a] = {file[a]}]
    /\ UNCHANGED <<file, bak, busy, waived>>

(* A proof is dropped, once nothing is left for it to prove. *)
Unlearn(a) ==
    /\ busy
    /\ file[a] = Absent
    /\ proof' = [proof EXCEPT ![a] = {}]
    /\ UNCHANGED <<file, bak, busy, waived>>

(* The command ends, however it ends.  It may give one slot back on the way, *)
(* which loses nothing while the destination still holds the bytes.         *)
Rest ==
    /\ busy
    /\ busy' = FALSE
    /\ waived' = {}
    /\ \/ UNCHANGED bak
       \/ \E a \in Artifact : /\ bak[a] \in {Torn, file[a]}
                              /\ bak' = [bak EXCEPT ![a] = Absent]
    /\ UNCHANGED <<file, proof>>

(* Between commands the files are the user's to change, and the proofs the  *)
(* user's to lose, but not to forge.                                        *)
User(a) ==
    /\ ~busy
    /\ \E v \in FileValue : file' = [file EXCEPT ![a] = v]
    /\ \E s \in SlotValue : bak' = [bak EXCEPT ![a] = s]
    /\ \/ UNCHANGED proof
       \/ proof' = [proof EXCEPT ![a] = {}]
    /\ UNCHANGED <<busy, waived>>

Next ==
    \/ Ask \/ Rest
    \/ \E a \in Artifact : \/ Publish(a) \/ Remove(a)
                           \/ Claim(a) \/ Save(a)
                           \/ Learn(a) \/ Unlearn(a)
                           \/ User(a)

Spec == Init /\ [][Next]_vars
=============================================================================
