# A verification project for semantic-linefeeds

TLA+ models of `semlf`, the installer and checker of semantic line breaks, the
TLC runs that check them on small instances, and TLAPS proofs of what matters
most. Paths are relative to the repository's root; `lifecycle.py`,
`classify.py`, `manifest.py`, `registry.py`, `providers.py`, `doctor.py` and
`cli.py` are under `cli/semlf/`, `check_linefeeds.py` and `install.py` under
`scripts/`.

## 1. The system

Two programs share one repository. The **detector** (`check_linefeeds.py`)
judges prose: from the command line, from git content, or as a hook after an
agent's edit. The **lifecycle engine** (`semlf install | uninstall | status`)
puts the detector, skills, hooks and plugins where the agents look for them, on
machines where users have files of their own under the same names. A third
way in, `install.sh`, fetches a checkout and runs its `install.py`, which drives
the same engine and builds the `semlf` command itself.

| component | state it keeps | operations | what makes it correct | module |
|---|---|---|---|---|
| Lifecycle engine, recorded files (`lifecycle.py`, `classify.py`, `manifest.py`) | destination files, `<name>.bak` slots, one provenance record per artifact | preflight, consent, apply: back up, publish, record; unlink, forget | bytes it cannot prove it wrote are never lost; exit 0 is the truth; a re-run converges; apply order | `ArtifactLifecycle`, `OwnershipPromise` |
| Shared merged files (`hooks.json`, `AGENTS.md`) | the file and a last-run-wins backup | merge, splice, strip, unsplice | everything that is not the kit's survives; a second run writes nothing; uninstall undoes install | `HookMerge`, `SnippetSplice`, `SharedFiles` |
| Retired records and legacy copies | records under old names, opencode's own copy of the skill | projection, migration, cleanup, release | proof is carried over and never lost; the copy goes last; two names of one file are not confused | `Migration` |
| Status and doctor | none (read only) | verdicts | they agree with what the other verbs do | `Migration` (opencode's copy); the rest planned |
| Registry and transforms (`registry.py`) | none | rows, owners, order, rendering | | constants of `ArtifactLifecycle` |
| Post-edit hooks (`check_linefeeds.py`, "Hook mode") | none between calls | read the file, derive the changed spans, deliver | exact findings are computed on the file as it is, for exactly the lines that changed | `HookSnapshot`, `PatchSpans` |
| OpenCode plugin (`semantic-linefeeds.ts`) | a bounded set of warned sessions | one handler per tool call | no repeated warning, bounded memory | `OpencodePlugin` |
| Detector: judgment, suppression, repairs | none | pure functions of the text | a repair changes no word, settles what it was made for and disturbs nothing else | `Judgment`, `FusedRepair` |
| Detector: segmentation, configuration | none | prose against code and markup, nearest configuration | | planned |
| Git sources (`providers.py`) | none | `--staged`, `--diff`, `--changed`, `--base`, `--all`, `reflow` | nothing is left out silently; selection, content and spans belong together | `GitModes`, `LineDiff` |
| Zipapp installer (`install.py --cli`) | `~/.local/bin/semlf`, its slot and its record | preflight by identity and by digest, stage, back up, publish, record; unlink, forget | the promise of the engine; exit 0 is the truth; a re-run converges | `CliZipapp`, `OwnershipPromise` |
| Bootstrapper (`install.sh`) | a checkout: its origin, its HEAD | clone, fetch and detach, pull, shortcut, hand over | what is installed is what was asked for, whatever earlier runs left | `Bootstrap`, `CheckoutDoor` |
| CI gate | none | | | planned |

How they interact. `semlf install` calls the planners of all its artifacts,
shows what they planned, waits for consent, then runs the planned steps in one
order. The steps share nothing but the file system: an artifact's file, its
backup slot, its record, and for `hooks.json` and `AGENTS.md` a file that
other programs and the user write as well. What is installed then calls the
detector: Codex's and Claude Code's hooks run `check_linefeeds.py` after every
edit, and OpenCode's plugin awaits it inside its own handler. The git modes
ask git for a listing and hand what they read to the detector's one runner.
`install.sh` moves a checkout and then becomes that checkout's `install.py`:
the two share the checkout and nothing else. What the detector reports, an
agent repairs, and the repaired text is judged again.

What is hard here, and where `PROJECT.json` has the hazards with their lines:

* *partial failure and crashes*: a run is a row of small file operations and
  nothing is rolled back. Every step can raise, and the process can die
  between two of them; the next run starts from whatever is there.
* *stale plans*: everything is classified before the prompt and written after
  it. Files, slots and records change in between.
* *long sequences of legal calls*: installs, downgrades, uninstalls, hand
  edits, several releases and two generations of layout reach combinations of
  file, slot and record that no single test sets up.
* *concurrent writers*: the hook reads a file that a formatter or a second
  agent is rewriting; a git mode is many git commands, and the user edits,
  stages and commits between them; a remote moves between a fetch and the next.
* *ambiguity*: the hook sees a patch and the file after it, never before.
* *numeric edges*: zero-width spans of deletions, bounded memory, versions
  that do not parse.

Two installers at once are outside the engine's own contract (ADR-0014) and
outside these models.

## 2. The modules

| module | models | composed with |
|---|---|---|
| `OwnershipPromise` | the promise of the engine, without its mechanism | implemented by `ArtifactLifecycle` and by `CliZipapp` |
| `ArtifactLifecycle` | the engine over the recorded files | |
| `ArtifactLifecycleProofs` | theorems about it | extends it |
| `HookMerge`, `SnippetSplice` | pure operators on `hooks.json` and `AGENTS.md` | used by `SharedFiles` |
| `SharedFiles`, `SharedFilesProofs` | what runs do to both files and their backups, and theorems about it and both operators | |
| `Migration`, `MigrationProofs` | records and copies of the older layout, and theorems | |
| `HookSnapshot`, `HookSnapshotProofs` | the read of the edited file against its writers, and a theorem | |
| `PatchSpans`, `PatchSpansProofs` | from a patch payload to changed spans, and theorems | |
| `OpencodePlugin`, `OpencodePluginProofs` | the plugin's handler and its memory, and theorems | |
| `LineDiff` | the spans a change owns, by difflib's matching, and a reference | used by `GitModes` |
| `GitModes`, `GitModesProofs` | the calls of one git mode or `reflow`, and the user between them, and theorems about it and `LineDiff` | |
| `CliZipapp` | the zipapp, its slot and its record | implements `OwnershipPromise` |
| `Bootstrap` | git on a checkout that outlives the run | |
| `CheckoutDoor`, `CheckoutDoorProofs` | `install.sh` that becomes `install.py --cli`, and theorems about it and `CliZipapp` | composes `Bootstrap` and `CliZipapp`; implements `CliZipapp` |
| `Judgment` | what the detector finds on lines of words, what directives hush, what counts as a reflow | used by `FusedRepair` |
| `FusedRepair` | the repairs a report suggests, and an agent that follows them | |
| `MC*` | values of the constants for TLC | extend the module they name |

### `ArtifactLifecycle`

State: `file`, `bak` and `record` are the machine (per artifact); `running` is
the release in use; `req`, `phase`, `verdict`, `snapshot`, `step` and
`outcome` are the process, and vanish when it ends. `quiet`, `faults` and
`edits` belong to the model.

| code | action |
|---|---|
| `classify_artifact` and the record preflight; `plan_remove_file` | `InstallVerdict`, `RemoveVerdict`; `Refuse` and `Accept` |
| the consent prompt | `Approve`, `Decline` |
| `backup_exclusive` | `ClaimSlot` (O_EXCL creates the slot), `FillSlot` (from the snapshot) |
| `publish_bytes`, `publish_bytes_exclusive` | `Publish` |
| `write_record`, `_record_note` | `Record`, `RecordFails` |
| `unlink`, `drop_record` | `Unlink`, `Forget`, `RecordFails` |
| an exception out of a step | `Abort`, which gives back the slot, as the handler does |
| SIGKILL; Ctrl-C | `Kill`; `Interrupt` |
| `apply_plan` at the end of its list | `Finish` |

A backup takes two steps because `os.open` and the copy are two system calls
and a process can die between them. A publication is one: the temporary file
and the rename or link show the destination nothing in between. Every step
that can raise has a failing twin; what the disk forces to fail (`Blocked`)
always fails and costs nothing of `MaxFaults`.

`OwnershipPromise` says what a user was promised: bytes which no record proves
to be the kit's are at all times in the file or in its backup, unless
`uninstall --force` waived the promise for that file. `PromiseKept` is the
refinement, with `proof` read off the record.

### `SharedFiles`

`hooks.json` is a sequence of blocks, each with a matcher and a sequence of
commands; the kit's entry is recognised by matcher and command. `AGENTS.md` is
a sequence of tokens: words, newlines, the sentinels and the kit's body. A plan
fixes the new content at preflight (`Accept`); `CopyOpens`, `CopyFills` and
`Replace` are `publish_shared`. A file whose JSON does not parse or has a shape
the merge does not know is the one value `Unreadable`.

### `Migration`

One skill with its live record and the two retired ones, two paths and the five
ways these can be related: two files, two hard links, a symlink at the leaf, a
symlink above, a bind mount. `SameFile` is `manifest.same_file` (device and
inode), `SameRealpath` is `realpath`: the code uses both, and they differ. The
plan of a request is the sequence `todo` that the planners build, and every
step of it is one action. `OldRelease` and edits come in
between.

### `HookSnapshot`, `PatchSpans`, `OpencodePlugin`

`HookSnapshot` has one action for each system call of `_read_snapshot`, and
writers that write in place, rename over the path (with inode numbers coming
back once nothing holds them) or remove it. It assumes what the function's
docstring assumes, that every write moves the modification time; file systems
with coarse clocks are outside.

`PatchSpans` writes an edit down line by line. The edit determines the patch,
the file after it and what really changed; `Spans` is what the hook derives
from the first two, and the properties compare it with the third.

`OpencodePlugin` splits the handler at its one `await`. What follows the await
is one step, since JavaScript does not interrupt it.

### `CliZipapp`, `Bootstrap` and `CheckoutDoor`

Two builds of one checkout have the same members and different bytes, because a
zip holds times. So an archive is a pair `[of, stamp]`: its identity
(`pyz_state`) is `of` with the execute bit, its digest is the pair. The install
asks for the identity first and adopts; the uninstall lets a record that
disagrees outrank it (`_plan_cli`).

| code | action |
|---|---|
| `_plan_cli_install`, `_plan_cli` | `InstallPlan`, `RemovePlan`; `Refuse` and `Accept` |
| `mkstemp` and `build_pyz` beside the destination | `Stage` |
| `exclusive_backup` | `ClaimSlot`, `FillSlot` |
| `os.replace`, `publish_exclusive` | `Publish` |
| `manifest.record`; `os.unlink`, `manifest.forget` | `Record`; `Unlink`, `Forget` |
| an exception out of a step | `Abort`: a slot half filled is given back, a full one is not |
| `git clone`; `git fetch`, `git checkout --detach`; `git pull --ff-only` | `CloneIt`; `Fetch`, `Checkout`; `Pull` |
| a git command that fails under `set -e`, or is broken off half-way | `GitFails` |
| `exec python3 .../install.py` | `HandOver` |

`Bootstrap` knows of a commit what it builds on (`Ancestors`), which is all that
`--ff-only` asks. `given` is a history variable: the commit git got for what
was asked. `tree` is what the working tree holds, apart from HEAD: the files of a
commit, or one of `Uncommitted`, which stands for edits and untracked files of
the user and for the mixture that a checkout, pull or clone leaves when it is
broken off. Git carries uncommitted files from commit to commit, or refuses
(`Carried`). `build_pyz` copies files and asks no git, so `CheckoutDoor` has
`install.py` build the tree, not HEAD. It lets git and `install.py` alternate
but never overlap, since one process becomes the other.

### `Judgment` and `FusedRepair`

A line is prose, a directive or neither. Of a word it matters how it opens (a
capital, a connector, neither) and how it ends (a sentence, in good order,
neither); of a line's leader whether a repair may repeat it. `Findings` is
`diagnose` without the advisory kind `long`; `ProseReflow` is `prose_reflow`.
`Suggested` is `_fused_suggestion`: split at the boundary, and where the
sentence goes on below, rejoin first. The agent follows any subset of a
report's suggestions, last one first, as line numbers require.

### `GitModes` and `LineDiff`

The repository is `tip` (the tree of HEAD's commit), `index`, `worktree` and
`upstream` (the tree of the merge base). A path holds a text, a symlink or
nothing. The command is a program counter, the `listing` with its statuses and
blob ids, and what it has read so far. `heads` is a history variable: every
commit HEAD was at since the command was started.

| code | action |
|---|---|
| `_head_or_empty_tree` | `ResolveHead`, `SymbolicRef`, `Probe`: three git commands |
| the checks of REF in `base_sources` and `reflow_pairs` | `ResolveRef` |
| `_raw_records`, `_parse_raw`, `_selected`; `ls-files`; `diff --name-status` | `List` |
| `cat-file blob` of `staged_sources` | `CatBlob` |
| `islink`/`isdir`, then `open`, of the worktree modes | `Look`, then `Open` or `OpenFails` |
| `git show` and `_changed_spans` of `base_sources` | `Show` |
| the two sides of `reflow_pairs`; `prose_reflow` | `OldSide`, `NewSide`; `Finish` |
| a git command or an open that fails | `CallFails` |

What git answers was taken from git itself, in particular: a diff between a
tree and the worktree looks at paths of the index only, leaves out what is
deleted or has become a directory, and shows a path in conflict as modified.
`ChangedSpans` follows difflib's search for the longest match; on all texts of
up to four lines over two letters it agrees with `_changed_spans`.

## 3. The runs

All bounds are named in the cfgs. "Faults" bounds failing steps and kills
together, "edits" the changes from outside.

| run | instance | shows |
|---|---|---|
| `lifecycle_one` | one shared artifact, releases 1-3 (1 and 3 ship the same bytes) and one that does not parse, every request, any file found; 2 faults, 3 edits, kills | `SuccessIsComplete`, `RerunAdmitted`, `KilledRerunAdmitted`, `PromiseKept` |
| `lifecycle_rows` | checker, skill, plugin, each absent or edited at first; one release and a build whose version does not parse; requests for both targets; edits also during a run, Ctrl-C; 2 faults, 1 edit, fairness | order over several artifacts, late changes, and that re-running gets there: `TypeOK`, `NeededFirst`, `SharedLeavesLast`, `Converges` |
| `shared_files` | every `hooks.json` of at most two blocks of one hook or one block of two, beside an unreadable `AGENTS.md`; every text of at most three tokens, of four with two sentinels or more, and the block with up to three tokens after it, beside an unreadable `hooks.json`; pairs of a few; each backup slot free or one that cannot be used; 1 fault, 1 edit between commands or at the prompt | `OthersSurvive`, `SecondRunWritesNothing`, `UninstallUndoesInstall`, `PreflightMissesOneSlot`, `ReplacedIsSaved` |
| `migration` | all topologies, all contents, all records; 1 fault, 2 changes | `MigrationIsComplete`, `RerunAdmitted`, `DoctorErrsInOneCase`, `ProofIsCarriedOver`, `LegacyStaysProvable`, `ReplacementFirst`, `SharedSurvivesCleanup`, `UnprovenIsKept` |
| `hook_snapshot` | two inodes, two chunks, 3 writes | `ExactIsTheFile` |
| `patch_spans` | edits of at most five lines over three line texts | `ChangeIsOwned`, `UnchangedIsLeftAlone` |
| `opencode_plugin` | four sessions, three calls at a time, a memory of two, 6 warnings | `RecentSessionsStayQuiet`, `MemoryIsTheLastWarnings` |
| `git_modes` | three paths (one in every state, one in a few, one that is not judged), texts and links on either side, HEAD born, unborn, broken, detached; for `--base` texts of up to three lines; 2 edits, 1 fault | `OnlyTheChangedAreShown`, `NeverAShorterList`, `OneIndex`, `OnlyTheChangeIsReported`, `PureReflowIsTrue`, `UnmergedIsLoud` |
| `checkout_door` | one repository with a branch and a tag, three commits of which one rewrites another, a tree that is none of them, two builds of each; any zipapp found, absent, the user's or a symlink; every request of both doors; 2 changes by remote or user, failures and kills at every step | `InstalledIsWhatWasAsked`, `CliSuccessIsComplete`, `CliRerunAdmitted`, `CliPromiseKept` |
| `fused_repair` | some thousands of texts of two or three lines: a line with one or two boundaries under a directive or prose, above prose, a directive or a blank | `RepairKeepsWords`, `RepairIsLocal` |

Why the bounds are enough. The artifacts of the engine do not read each other,
except for their order; what one artifact can go through is in
`lifecycle_one`, and three artifacts with three kinds of owner show every
relation the order has. Two faults let a re-run fail where the first run
failed or elsewhere; three edits allow a release switch, an edit and a lost
record between runs. The two shared files never read each other, so one of
them can stand still (unreadable) while the other goes through everything. In
`hook_snapshot` two inodes make a number come back, which is the one way an
identity can deceive. In `opencode_plugin` six warnings pass the memory three
times. Five lines let an edit repeat its context on either side, end in a
deletion, and hold two hunks. In `git_modes` the paths are read independently
of each other; the second one is what is left over when a read goes wrong, and
two edits are what it takes to stage and commit a file behind a listing. In
`checkout_door` three commits hold every relation `--ff-only` can meet (behind,
ahead, rewritten), and two builds of one commit are what tells an identity from
a digest; one tree that is no commit stands for every one, since nothing asks
what is in it. The run identifies the two unreleased commits and the two builds
(`mcSymmetry`: no action and no property tells them apart), and forgets, once
somebody has touched something between two runs, what the last run was and how it
ended (`mcView`: the next run sets these anew, and the properties speak of an
untouched end). In `fused_repair` three lines hold everything a repair reads: what
stands above decides what is hushed, what stands below whether to rejoin; texts
grow as they are repaired, and every report on the way is followed. The proofs of section 5 cover what these bounds cut off.

`CHECK_DEADLOCK FALSE` stands where the system ends: the hook after its
answer, an edit script at its full length, a git mode after its exit, the
bounded histories of `Migration` and `OpencodePlugin`, a text with nothing left
to repair, a world that has used up its edits.

### The runs that find a disagreement

| run | what TLC shows |
|---|---|
| `lifecycle_ctrlc` | Ctrl-C right after the rename makes the handler remove the backup, the only copy of the user's bytes. |
| `preflight_slot` | `PreflightDecides`: "any refusal aborts the run before the first write". The snippet's plan does not look at the backup slot it will need (`lifecycle.py:434`); with a directory or a symlink there, an install of `AGENTS.md` is admitted and fails in the middle. `PreflightMissesOneSlot` says that this is the one case. |

### What the properties set aside

These are things the code does which a run of their own would show; a passing
property excludes each by name.

* A forced install killed between backup and publication leaves its slot
  occupied, and every forced re-run is refused (`lifecycle.py:191`), although
  `tests/test_lifecycle.py:1-2` says that apply converges under any
  interruption. `KilledRerunAdmitted` says what is true: it is one slot, and it
  holds nothing that is not in the file still. `install.py` keeps its slot also
  when the rename fails (`install.py:318`), which the engine does not;
  `CliRerunAdmitted` names it.
* A record that cannot be written is a note, and the plan goes on to forget the
  retired record that alone proved the file (`lifecycle.py:758`).
  `ProofIsCarriedOver` asks for the note, which makes the run exit 1.
* Where no shared skill is published, doctor tells the user to run
  `semlf install` for an opencode copy of any kind (`doctor.py:290-294`), which
  install refuses whenever no record proves the copy; the docstring (lines
  270-273) says that this is what the wording avoids. `DoctorErrsInOneCase` is
  about every remedy doctor names and has this as its one exception, of which it
  says that install always refuses.
* `--changed` and `--base` compare a tree with the worktree, where git shows a
  path in conflict as modified, and judge the markers; ADR-0013:83-84 expects a
  stop. `UnmergedIsLoud` is about the modes that look at the index.
* Once a line is split, a directive for the line below it no longer meets the
  ending it hushed, which has moved a line down and is reported anew.
  `RepairIsLocal` names these findings and allows no other.
* `prose_reflow` sees neither leaders nor directives behind prose: deleting a
  trailing `semlf-ignore` passes as a reflow.
* `install.sh --repo` is ignored where a checkout exists already, and a run
  without `--ref` on a detached HEAD fails and hands nothing over.
  `InstalledIsWhatWasAsked` is about what runs that succeed have installed.
* Neither `install.sh` nor `install.py` asks for a clean tree. `git checkout
  --detach` and `git pull --ff-only` (`install.sh:130,133`) carry over edits and
  untracked files that are not in their way, so a run with `--ref` can exit 0
  with a build that is not that commit's. And a checkout killed half-way leaves a
  mixed tree that a later run in place (`install.sh:90-92`) installs.
  `InstalledIsWhatWasAsked` says of HEAD that it is what was asked for, and of
  the build that it is HEAD's when the tree is.
* An edit of `hooks.json` made while the prompt is up is overwritten by the
  older plan, and is left in the backup alone (`lifecycle.py:413`);
  `publish_shared` says the backup is never the only copy of anything.
  `ReplacedIsSaved` says what is true: it is in the backup.
* Two retired records that disagree are noticed only while the file exists
  (`lifecycle.py:729`): an install over a missing file succeeds, and the same
  install again is refused. `RerunAdmitted` of `Migration` sets this case aside.
* `base_sources` takes every failure of `git show` for an added file
  (`providers.py:277`) and reports the whole file as the change.
  `OnlyTheChangeIsReported` allows that, where a call failed, and no other span.
* `reflow` asks for `HEAD` by name once per file, so a commit made meanwhile
  gives later files another old side. `PureReflowIsTrue` is about a repository
  that holds still.
* `reflow` takes the old side from `git show`, which prints of a link the path it
  leads to (`providers.py:331-342`). A link replaced by a regular file with those
  words passes as a reflow. `PureReflowIsTrue` has this as its one exception
  (`SpelledOut`).

## 4. Fairness

`Converges` assumes weak fairness of the running command's own steps, since
nothing but the kernel holds a process up, and that a command which ended in an
error is run again, by the same request: it says what re-running achieves. The
code has no loop that retries; the second assumption is about its user. No other
property needs fairness.

## 5. What is proved

`ArtifactLifecycleProofs`, for any set of artifacts, targets, releases and
requests, any rendering and any bounds:

| theorem | property | assumptions beyond the module's own |
|---|---|---|
| `TypeCorrect` | `TypeOK` | none |
| `SuccessHolds` | `SuccessIsComplete` | none |
| `RerunHolds` | `RerunAdmitted` | none |
| `KilledRerunHolds` | `KilledRerunAdmitted` | none |
| `SharedLastHolds` | `SharedLeavesLast` | none |
| `NeededHolds` | `NeededFirst` | `Order` puts what is needed before what needs it |
| `PromiseHolds` | `PromiseKept` (refinement) | `EditsDuringRun = FALSE`, `Interrupts = FALSE` |

None of the invariants is inductive: that an aborted run may be repeated
depends on how far each artifact had come and on what it was classified as.
`IInv` is `TypeOK` with three parts. `IdleInv` says that an idle process plans
nothing; `WorkInv` relates, while a command runs and nothing has changed from
outside, each artifact's verdict and step to its file, slot and record, one
stage per artifact (`Item`); `EndInv` says what is left when it ends. The
step proof has one case per action, and one more for each stage the action
can disturb. `NeededHolds` adds `OrderInv`: of what an install selects, what is
finished comes in `Order` before what is not. The
assumption about `Order` is what the registry's `order` field is there for; the
cfgs give the rows' own numbers. The assumptions of `PromiseHolds` are those under which it is
true: `lifecycle_ctrlc` breaks it under Ctrl-C, and an edit in the middle of a
publication is a race that no rename can exclude.

`HookSnapshotProofs`: `SnapshotHolds` proves `ExactIsTheFile` for files of any
length and any number of inodes and writes. Its invariant says that no inode is
younger than the clock (`PastInv`), that while an inode still has the identity
of `before` it still holds what was read from it (`ReadInv`), and that the same is
true of `after` once the descriptor is closed (`ReadyInv`).

`CheckoutDoorProofs`, without assumptions beyond the modules' own. Its first part
is about `CliZipapp` alone:
`CliSuccessHolds` and `CliRerunHolds` prove `CliSuccessIsComplete` and
`CliRerunAdmitted`, `CliPromiseHolds` that `CliZipapp` implements
`OwnershipPromise`. The invariant relates, for each plan and step, file, slot,
record and staged build, and is built like the engine's; what differs is that
an adoption may stand on bytes the record does not know. In the second part
`DoorIsCliZipapp` proves that the composition implements
`CliZipapp`: every step of git is a checkout somebody works on, every step of
`install.py` is one of its own. So the theorems of the first part hold of the
two together, and `InstalledHolds`, which proves `InstalledIsWhatWasAsked`,
starts from them: `given` stays among the ancestors of HEAD from the hand-over
on, and what is recorded is a build of the tree.

`OpencodePluginProofs`: `BoundHolds`, `TailHolds` and `QuietnessHolds` prove
`MemoryIsBounded`, `MemoryIsTheLastWarnings` and `RecentSessionsStayQuiet` for
any number of sessions, calls and warnings and any limit above 0. The invariant
is their conjunction with `TypeOK` and `NothingForgottenYet`: while the memory is
not full it is as long as the log. The one step that matters is a warning, which
shifts the memory by one entry at most (`RememberShifts`); a session that is not
in the memory was warned longer ago than the memory reaches (`WarnedLongAgo`).

`GitModesProofs`: `ListHolds`, `OneIndexHolds`, `OnlyChangedHolds` and
`UnmergedHolds` prove `NeverAShorterList`, `OneIndex`, `OnlyTheChangedAreShown`
and `UnmergedIsLoud` for any number of
paths, edits, commits and failing calls. What a mode promises is about its end;
the invariant says what holds on the way there: once the listing stands, a file
it owes was handed over, is still to be read, or stopped being a regular file
(`CoverInv`, with `SwapInv` for the last), and for `--staged` what was handed
over are the listed blobs of exactly what is not left to do (`StagedInv`), and for
`--changed` the listing is taken against a tree that HEAD was at since the start,
whatever the user commits between the commands that find out what to compare
with (`HeadInv`). That
the filters select what is owed is `SelectedIsOwed`, mode by mode.

`MigrationProofs`, for any releases, any relations of the two paths, any number of
failures and changes from outside, and without assumptions beyond the module's
own: `SharedSurvives`, `UserBytesAreKept`, `ReplacementComesFirst`,
`CopyStaysProvable`, `ProofStays`, `DoctorAndInstallAgree`, `MigrationEnds` and
`MigrationReruns` prove `SharedSurvivesCleanup`, `UnprovenIsKept`,
`ReplacementFirst`, `LegacyStaysProvable`, `ProofIsCarriedOver`,
`DoctorErrsInOneCase`, `MigrationIsComplete` and `RerunAdmitted`: every
property of the run. What a
step may do depends on where it stands in the plan, so the invariant is about the
plan: every step that is left is justified by the disk as it is, or stands behind
the step that will justify it (`Sound`). Sound plans put behind each other are
sound (`Joined`), which gives the plans of both doors part by part (`PlanSound`);
a step that is taken makes good what stood on it (`Advanced`). The last two
theorems are about the ends of a run and need more of the middle (`EndInv`):
what the request asks for is done or still to do, nothing on the disk is in the
way of the same request, and a backup that is still to do is the first step with
its publication behind it, so that a failure leaves the slot as it was found.

Two more theorems of `GitModesProofs` are about texts. `ReflowHolds` proves
`PureReflowIsTrue`: while the repository holds still, a path that differs is still
to be read or its pair, as the repository has it, is among the sources
(`ReflowInv`). `OnlyTheChangeHolds`
proves `OnlyTheChangeIsReported`, which needs what `LineDiff` computes. difflib's
matching is a recursive function on the parts of both texts; that such a function
exists follows from a part of least size that would have none (`DividingExists`).
Its blocks lie in order in both texts (`BlocksOrdered`), and so the lines between
two of them, on either side, are what one has to change to get one text from the
other (`SpansAccount`). With that the property is inductive, beside the types of
what is read (`BaseInv`).

`SharedFilesProofs`, for documents and texts of any length, any commands and any
releases:

| theorem | property | assumptions beyond the module's own |
|---|---|---|
| `SecondRun` | `SecondRunWritesNothing` | none |
| `TheOwnersSurvive` | `OthersSurvive` | none |
| `UninstallIsTheInverse` | `UninstallUndoesInstall` | none |
| `AdmittedCommandsRun` | `PreflightMissesOneSlot` | none |
| `TheReplacedIsSaved` | `ReplacedIsSaved` | no edit while a command writes |

Most of this is about the operators: `Merge`, `Strip`, `Spliced` and `Unspliced`
are each idempotent, the second of a pair undoes the first, and none changes the
sequence of what is the owner's. The lemmas say what each does to a document
taken apart at the kit's entries, to a text taken apart at the sentinels. The
invariant `OnCourse` says that, while nobody interferes, a file still to be
written stands where its plan was made, and that the file as planned needs no
plan. The assumption of `TheReplacedIsSaved` is the one under which the property is
true, and the run makes it too.

`PatchSpansProofs`: `ChangeHolds` and `UnchangedHolds` prove `ChangeIsOwned` and
`UnchangedIsLeftAlone` for edits of any length, in files of lines of any width.
The invariant is the type of the script; all else is about the operators. A hunk
that is found is found where it really is, since its surviving lines stand there
and `Locate` wants the place to be the only one (`LocateIs`). So the arithmetic
inside the hunk (`index`, `starts`, the closing boundary) gives for each entry
what the whole script gives for it: an added line its content, a deletion the
start of the surviving line that follows, or the end of the text (`EntryIs`,
`SpansAre`). Lines lie apart (`LinesApart`), so a span touches its own line and
no other.

How the data is handled. The library's induction theorems take a predicate, which
the provers cannot supply. Where a proof needs an induction, the counterexamples
form a set of natural numbers, and the set's least element refutes itself
(`Least`). That reaches recursive functions and the folds of the community
modules; it does not reach operators declared RECURSIVE or `SelectSeq`, and the
modules that are proved about use neither.

Model-checked only: liveness (`Converges`), which is outside this prover, and `FusedRepair`, whose two action properties relate whole reports to
the texts before and after a fold of repairs, and have no proof yet.

## 6. What is left out

* In the engine: `--dry-run` (it writes nothing), an uninstall without
  destinations, paths relocated by environment variables, temporary files a
  killed process leaves behind, a second exception inside an exception handler.
* The parsing of JSON, Markdown and hook payloads.
* In the git modes: submodules, changes of the execute bit, the byte format of git's records, exclude
  patterns and their configuration, a `reflow` against anything but HEAD.
* Two rows with one destination (`colliding_destinations`), symlinked
  `AGENTS.md` files.
* In `install.py`: several legs in one request, edits while the `--cli` leg runs,
  a machine without a home directory, a build that fails at preflight. In
  `install.sh`: the quoting of arguments.
* In the detector: the walk that tells prose from code and markup, offsets
  inside a line, the withholding classes about single characters, the advisory
  kind `long`, configuration discovery and output formats.
* `buildCheck` of the plugin, and everything the table of section 1 calls
  planned.

## 7. Plan

Written so far, most important first: `ArtifactLifecycle` and its promise,
`SharedFiles`, `PatchSpans`, `HookSnapshot`, `Migration`, `OpencodePlugin`,
`GitModes`, `CliZipapp`, `Bootstrap` and `CheckoutDoor`, `Judgment` and
`FusedRepair`.

To write, in this order:

1. `Verdicts` (`status`, the other checks of `doctor`): agreement of a verdict
   with what the next install or uninstall does.
2. `ConfigDiscovery`: the nearest configuration wins, the root stops the walk.
3. `ProseWalk`: the walk over the text against a reference definition.
4. `Gate` (`ci_gate.py`, `action.yml`).

Theorems worth proving next: `RepairKeepsWords` of `FusedRepair` (a splice keeps
the words of every paragraph, and the repairs of one report do not overlap), then
`RepairIsLocal` on the same lemmas.
