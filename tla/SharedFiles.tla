----------------------------- MODULE SharedFiles -----------------------------
(***************************************************************************)
(* The two files semlf shares with their owner: Codex's hooks.json and an    *)
(* AGENTS.md the user names (lifecycle.py, plan_codex_hook, plan_agentsmd,   *)
(* their removals, and publish_shared).                                     *)
(*                                                                         *)
(* The new text of a file is computed at preflight and written later.  The   *)
(* write copies the file that is then in place to <name>.bak, over whatever  *)
(* backup is there, and renames the new text into place.  --force changes    *)
(* nothing here.                                                            *)
(***************************************************************************)
EXTENDS HookMerge, SnippetSplice, Integers

CONSTANTS
    Kind,        \* the files in play, a subset of {"hooks", "agents"}
    Release,     \* what semlf can be when it runs
    CommandOf,   \* [Release -> KitCommand]: the hook it installs
    BodyOf,      \* [Release -> Body]: the snippet it installs
    Absent,      \* no such file
    Unreadable,  \* not a regular file, not decodable, or of an odd shape
    Torn,        \* a copy that was started and not completed
    Irregular,   \* a backup slot with something in it that is no regular file
    NoChange, Refused, NoRequest,
    Found,       \* what both files hold at first: a set of [Kind -> content]
    Written,     \* [Kind -> set of contents] the user leaves in a file later
    FoundSlot,   \* [Kind -> set of contents] the user leaves in a slot
    Requests,    \* the requests that are issued
    MaxFaults,   \* how many steps fail or processes are killed
    MaxEdits,    \* how often the user changes something
    EditPhases   \* the phases of a command the user can edit in

Verb == {"install", "uninstall"}
Request == [verb : Verb, kinds : SUBSET Kind \ {{}}]

Readable(k) == IF k = "hooks" THEN Doc ELSE Seq(Token)
Content(k) == {Absent, Unreadable} \cup Readable(k)

ASSUME KindAssumption ==
    /\ Kind \subseteq {"hooks", "agents"}
    /\ CommandOf \in [Release -> KitCommand]
    /\ BodyOf \in [Release -> Body]
    /\ \A f \in Found : DOMAIN f = Kind /\ \A k \in Kind : f[k] \in Content(k)
    /\ \A k \in Kind :
          /\ Written[k] \subseteq Content(k)
          /\ FoundSlot[k] \subseteq Content(k) \cup {Torn, Irregular}
          /\ {Absent, Unreadable, Torn, Irregular, NoChange, Refused} \cap Readable(k) = {}
    /\ Absent # Unreadable
    /\ Torn \notin {Absent, Unreadable, Irregular}
    /\ Irregular \notin {Absent, Unreadable}
    /\ NoChange \notin {Absent, Unreadable, Refused} /\ Refused \notin {Absent, Unreadable}
    /\ Requests \subseteq Request
    /\ EditPhases \subseteq {"consent", "apply"}
    /\ MaxFaults \in Nat /\ MaxEdits \in Nat

VARIABLES
    file,      \* [Kind -> content]
    slot,      \* [Kind -> content]: <name>.bak
    running,   \* the release the user runs
    req,       \* the request being served, or the last one served
    phase,     \* "idle", "consent" or "apply"
    plan,      \* [Kind -> content]: the text to write, or NoChange
    step,      \* of the file being written: "start", "copying", "copied"
    outcome,   \* how the last command ended
    quiet,     \* the user has changed nothing since the last preflight
    faults, edits

content == <<file, slot>>
vars == <<file, slot, running, req, phase, plan, step, outcome, quiet, faults, edits>>

(* What of a file's content is not the kit's. *)
Others(k, c) ==
    IF c \in {Absent, Unreadable} THEN <<>>
    ELSE IF k = "hooks" THEN OthersHooks(c) ELSE OthersWords(c)

NothingPlanned == [k \in Kind |-> NoChange]

Init ==
    /\ file \in Found
    /\ slot \in {f \in [Kind -> UNION {FoundSlot[k] : k \in Kind}] :
                    \A k \in Kind : f[k] \in FoundSlot[k]}
    /\ running \in Release
    /\ req = NoRequest
    /\ phase = "idle"
    /\ plan = NothingPlanned
    /\ step = "start"
    /\ outcome = "none"
    /\ quiet = FALSE
    /\ faults = 0
    /\ edits = 0

-----------------------------------------------------------------------------
(* Preflight *)

(* A bug: the slot is not looked at before the write. *)
HookInstallUnchecked(c, usable) ==
    IF c = Absent THEN <<NewBlock(CommandOf[running])>>
    ELSE IF c = Unreadable THEN Refused
    ELSE IF UpToDate(c, CommandOf[running]) THEN NoChange
    ELSE Merge(c, CommandOf[running])

(* plan_codex_hook: an up-to-date hook is left alone whatever its slot holds. *)
HookInstall(c, usable) ==
    IF c = Absent THEN <<NewBlock(CommandOf[running])>>
    ELSE IF c = Unreadable THEN Refused
    ELSE IF UpToDate(c, CommandOf[running]) THEN NoChange
    ELSE IF ~usable THEN Refused
    ELSE Merge(c, CommandOf[running])

(* plan_remove_codex_hook *)
HookRemove(c, usable) ==
    IF c = Absent THEN NoChange
    ELSE IF c = Unreadable \/ ~usable THEN Refused
    ELSE IF Strip(c) = c THEN NoChange
    ELSE Strip(c)

(* plan_agentsmd: the slot is not part of this preflight. *)
SnippetInstall(c) ==
    IF c = Absent THEN Snippet(BodyOf[running])
    ELSE IF c = Unreadable \/ ~WellFormed(c) THEN Refused
    ELSE IF Spliced(c, BodyOf[running]) = c THEN NoChange
    ELSE Spliced(c, BodyOf[running])

(* plan_remove_agentsmd *)
SnippetRemove(c, usable) ==
    IF c = Absent THEN NoChange
    ELSE IF c = Unreadable \/ ~usable \/ ~WellFormed(c) THEN Refused
    ELSE IF ~HasBlock(c) THEN NoChange
    ELSE Unspliced(c)

(* bak_sibling_ok *)
Usable(k) == slot[k] # Irregular

PlanFor(r, k) ==
    IF k \notin r.kinds THEN NoChange
    ELSE IF k = "hooks"
         THEN IF r.verb = "install" THEN HookInstall(file[k], Usable(k))
              ELSE HookRemove(file[k], Usable(k))
    ELSE IF r.verb = "install" THEN SnippetInstall(file[k])
         ELSE SnippetRemove(file[k], Usable(k))

Admitted(r) == \A k \in Kind : PlanFor(r, k) # Refused

-----------------------------------------------------------------------------
(* Commands *)

Refuse(r) ==
    /\ phase = "idle"
    /\ ~Admitted(r)
    /\ req' = r
    /\ outcome' = "refused"
    /\ quiet' = TRUE
    /\ UNCHANGED <<content, running, phase, plan, step, faults, edits>>

(* Only an install that names no target asks, and it never names a snippet. *)
Accept(r, ask) ==
    /\ phase = "idle"
    /\ Admitted(r)
    /\ ask => r.verb = "install" /\ r.kinds = {"hooks"}
    /\ req' = r
    /\ phase' = IF ask THEN "consent" ELSE "apply"
    /\ plan' = [k \in Kind |-> PlanFor(r, k)]
    /\ outcome' = "ok"
    /\ quiet' = TRUE
    /\ UNCHANGED <<content, running, step, faults, edits>>

Approve ==
    /\ phase = "consent"
    /\ phase' = "apply"
    /\ UNCHANGED <<content, running, req, plan, step, outcome, quiet,
                   faults, edits>>

End(how) ==
    /\ phase' = "idle"
    /\ plan' = NothingPlanned
    /\ step' = "start"
    /\ outcome' = how

Decline ==
    /\ phase = "consent"
    /\ End("declined")
    /\ UNCHANGED <<content, running, req, quiet, faults, edits>>

Finish ==
    /\ phase = "apply"
    /\ plan = NothingPlanned
    /\ End("ok")
    /\ UNCHANGED <<content, running, req, quiet, faults, edits>>

(* Both verbs write hooks.json before the snippet. *)
Writing(k) ==
    /\ phase = "apply"
    /\ plan[k] # NoChange
    /\ k = "agents" /\ "hooks" \in Kind => plan["hooks"] = NoChange

(* A bug: a backup that is there already is kept, as it is for the files the *)
(* kit owns alone.                                                          *)
CopyOnce(k) ==
    /\ Writing(k)
    /\ step = "start" /\ file[k] # Absent /\ Usable(k)
    /\ slot' = [slot EXCEPT ![k] = IF @ = Absent THEN Torn ELSE @]
    /\ step' = IF slot[k] = Absent THEN "copying" ELSE "copied"
    /\ UNCHANGED <<file, running, req, phase, plan, outcome, quiet,
                   faults, edits>>

(* shutil.copy2 opens the backup, which empties it, and then fills it.      *)
CopyOpens(k) ==
    /\ Writing(k)
    /\ step = "start" /\ file[k] # Absent /\ Usable(k)
    /\ slot' = [slot EXCEPT ![k] = Torn]
    /\ step' = "copying"
    /\ UNCHANGED <<file, running, req, phase, plan, outcome, quiet,
                   faults, edits>>

CopyFills(k) ==
    /\ Writing(k)
    /\ step = "copying"
    /\ slot' = [slot EXCEPT ![k] = file[k]]
    /\ step' = "copied"
    /\ UNCHANGED <<file, running, req, phase, plan, outcome, quiet,
                   faults, edits>>

(* The planned text is renamed into place, whatever is there by now.        *)
Replace(k) ==
    /\ Writing(k)
    /\ step = "copied" \/ (step = "start" /\ file[k] = Absent)
    /\ file' = [file EXCEPT ![k] = plan[k]]
    /\ plan' = [plan EXCEPT ![k] = NoChange]
    /\ step' = "start"
    /\ UNCHANGED <<slot, running, req, phase, outcome, quiet, faults, edits>>

-----------------------------------------------------------------------------
(* Failures and the user *)

Fault(forced) ==
    \/ forced /\ UNCHANGED faults
    \/ ~forced /\ faults < MaxFaults /\ faults' = faults + 1

(* A step raises: the run stops, and the backup stays as it is.             *)
Abort(k) ==
    /\ Writing(k)
    /\ Fault(step = "start" /\ file[k] # Absent /\ ~Usable(k))
    /\ End("error")
    /\ UNCHANGED <<content, running, req, quiet, edits>>

Kill ==
    /\ phase # "idle"
    /\ Fault(FALSE)
    /\ End("killed")
    /\ UNCHANGED <<content, running, req, quiet, edits>>

Change ==
    /\ phase \in {"idle"} \cup EditPhases
    /\ edits < MaxEdits
    /\ edits' = edits + 1
    /\ quiet' = FALSE
    /\ UNCHANGED <<req, phase, plan, step, outcome, faults>>

(* A file that no command could read is as its owner found it; that he       *)
(* writes it anew is a beginning, which Init has.                           *)
UserEdit(k) ==
    /\ Change
    /\ file[k] # Unreadable
    /\ \E c \in Written[k] \ {file[k]} : file' = [file EXCEPT ![k] = c]
    /\ UNCHANGED <<slot, running>>

UserSlot(k) ==
    /\ Change
    /\ \E c \in FoundSlot[k] \ {slot[k]} : slot' = [slot EXCEPT ![k] = c]
    /\ UNCHANGED <<file, running>>

SwitchRelease ==
    /\ phase = "idle"
    /\ Change
    /\ \E v \in Release \ {running} : running' = v
    /\ UNCHANGED content

-----------------------------------------------------------------------------
Write(k) == CopyOpens(k) \/ CopyFills(k) \/ Replace(k) \/ Abort(k)
Start(r) == Refuse(r) \/ \E ask \in BOOLEAN : Accept(r, ask)

Next ==
    \/ \E r \in Requests : Start(r)
    \/ Approve \/ Decline \/ Finish
    \/ \E k \in Kind : Write(k)
    \/ Kill
    \/ \E k \in Kind : UserEdit(k) \/ UserSlot(k)
    \/ SwitchRelease

Spec == Init /\ [][Next]_vars

-----------------------------------------------------------------------------
(* Properties *)

Untouched == phase = "idle" /\ quiet

(* Whatever order of installs, uninstalls, releases, failures and kills: a   *)
(* command that nobody disturbs leaves the user's hooks and words all there, *)
(* in order, and nothing else to be taken for them.  (The merge "preserves   *)
(* foreign entries exactly".)                                               *)
OthersSurvive ==
    [][quiet' => \A k \in Kind : Others(k, file'[k]) = Others(k, file[k])]_vars

(* After a command that ended well the same command has nothing to write:    *)
(* an install finds its own entry and block, however they were merged, and   *)
(* an uninstall has left none behind.                                       *)
SecondRunWritesNothing ==
    Untouched /\ outcome = "ok" => \A k \in Kind : PlanFor(req, k) = NoChange

(* What an install added to a file, the uninstall takes away again: hooks    *)
(* are back exactly, a text up to the newlines at its end.                  *)
UninstallUndoesInstall ==
    \A k \in Kind :
        LET c == file[k]
        IN  /\ k = "hooks" /\ c \notin {Absent, Unreadable} =>
                  (OwnedCommands(c) = {} => Strip(Merge(c, CommandOf[running])) = c)
            /\ k = "agents" /\ c \notin {Absent, Unreadable} =>
                  (State(c) = "absent" =>
                      RStrip(Unspliced(Spliced(c, BodyOf[running]))) = RStrip(c))

(* "Any refusal aborts the run before the first write": a command that was    *)
(* admitted, and that nobody disturbs, fails only when a step of it fails by *)
(* itself, never for something the preflight could have seen                *)
(* (lifecycle.py:6-10, tests/test_lifecycle.py:1).                          *)
PreflightDecides ==
    [][phase = "apply" /\ quiet /\ outcome' = "error" => faults' > faults]_vars

(* A snippet is being written over a file that cannot be backed up: what     *)
(* plan_agentsmd does not look for, and publish_shared finds out.           *)
UnseenSlot ==
    /\ req.verb = "install"
    /\ "agents" \in Kind /\ Writing("agents")
    /\ file["agents"] # Absent /\ ~Usable("agents")

(* That is all the preflight misses: every other admitted command, and every *)
(* uninstall, fails only when a step of it fails by itself.                 *)
PreflightMissesOneSlot ==
    [][phase = "apply" /\ quiet /\ outcome' = "error"
          => faults' > faults \/ UnseenSlot]_vars

(* What a write replaces is in the backup before it is replaced, also when   *)
(* it is not what the preflight read.                                       *)
ReplacedIsSaved ==
    [][\A k \in Kind :
          phase = "apply" /\ file'[k] # file[k] /\ file[k] # Absent
          => slot[k] = file[k]]_vars

=============================================================================
