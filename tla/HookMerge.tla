------------------------------ MODULE HookMerge ------------------------------
(***************************************************************************)
(* The kit's entry in $CODEX_HOME/hooks.json, a file shared with the user's  *)
(* own hooks (lifecycle.py, plan_codex_hook and plan_remove_codex_hook).     *)
(*                                                                         *)
(* A document is the PostToolUse list: blocks, each a matcher and the hooks  *)
(* that run for it.  A hook is known by its command; nothing else of the    *)
(* file is touched or matters.                                              *)
(***************************************************************************)
EXTENDS SequencesExt

CONSTANTS
    KitCommand,   \* commands of the shape the installer writes
    OtherCommand, \* any other hook
    OddBlock      \* an element of the list that is no block with hooks

ApplyPatch == "apply_patch"

Block == [matcher : {ApplyPatch, "other"}, hooks : Seq(KitCommand \cup OtherCommand)]
Doc == Seq(Block \cup {OddBlock})

ASSUME OddAssumption == OddBlock \notin Block

(* parse_managed_codex_hook: the whole shape counts, so the same command     *)
(* under another matcher is somebody else's.                                *)
Owned(b, h) == b.matcher = ApplyPatch /\ h \in KitCommand

OwnedIn(b) ==
    {h \in KitCommand : b # OddBlock /\ Owned(b, h) /\ Contains(b.hooks, h)}
HasOwned(b) == OwnedIn(b) # {}

(* The hook entry the adapter template renders to. *)
NewBlock(command) == [matcher |-> ApplyPatch, hooks |-> <<command>>]

(* Every owned command of the document (owned_codex_hooks). *)
OwnedCommands(doc) == {h \in KitCommand : \E i \in DOMAIN doc : h \in OwnedIn(doc[i])}

UpToDate(doc, command) == OwnedCommands(doc) = {command}

(* A bug: an owned command is rewritten whatever its matcher. *)
MergeAnyMatcher(doc, command) ==
    IF OwnedCommands(doc) = {} THEN Append(doc, NewBlock(command))
    ELSE [i \in DOMAIN doc |->
             IF doc[i] = OddBlock THEN doc[i]
             ELSE [doc[i] EXCEPT !.hooks = [j \in DOMAIN @ |->
                      IF @[j] \in KitCommand THEN command ELSE @[j]]]]

(* A bug: only the first owned entry is brought up to date. *)
MergeFirst(doc, command) ==
    IF OwnedCommands(doc) = {} THEN Append(doc, NewBlock(command))
    ELSE LET first == SelectInSeq(doc, HasOwned)
         IN  [doc EXCEPT ![first].hooks = [j \in DOMAIN @ |->
                 IF Owned(doc[first], @[j]) THEN command ELSE @[j]]]

(* A block whose owned entries are brought up to date where they stand.      *)
Updated(b, command) ==
    IF ~HasOwned(b) THEN b
    ELSE [b EXCEPT !.hooks = [j \in DOMAIN @ |->
             IF Owned(b, @[j]) THEN command ELSE @[j]]]

(* Every block is; with no owned entry, a block of the kit's own is appended. *)
Merge(doc, command) ==
    IF OwnedCommands(doc) = {} THEN Append(doc, NewBlock(command))
    ELSE [i \in DOMAIN doc |-> Updated(doc[i], command)]

(* The hooks of a block without the owned ones, in order. *)
Kept(b) == FlattenSeq([j \in DOMAIN b.hooks |->
               IF Owned(b, b.hooks[j]) THEN <<>> ELSE <<b.hooks[j]>>])

(* A bug: every block that is left without hooks goes, the user's too. *)
StripEmpty(doc) ==
    FlattenSeq([i \in DOMAIN doc |->
        IF doc[i] = OddBlock THEN <<doc[i]>>
        ELSE IF Kept(doc[i]) = <<>> THEN <<>>
        ELSE <<[doc[i] EXCEPT !.hooks = Kept(doc[i])]>>])

(* What is left of a block: without its owned entries, if it had any, and   *)
(* nothing of a block that held nothing else.                               *)
Remains(b) ==
    IF ~HasOwned(b) THEN <<b>>
    ELSE IF Kept(b) = <<>> THEN <<>>
    ELSE <<[b EXCEPT !.hooks = Kept(b)]>>

Strip(doc) == FlattenSeq([i \in DOMAIN doc |-> Remains(doc[i])])

(* What of a document is not the kit's: the other hooks with their matchers, *)
(* in order, and the blocks that hold none.                                 *)
OthersIn(b) ==
    IF b = OddBlock \/ b.hooks = <<>> THEN <<b>>
    ELSE FlattenSeq([j \in DOMAIN b.hooks |->
             IF b.matcher = ApplyPatch /\ b.hooks[j] \in KitCommand THEN <<>>
             ELSE << <<b.matcher, b.hooks[j]>> >>])

OthersHooks(doc) == FlattenSeq([i \in DOMAIN doc |-> OthersIn(doc[i])])
=============================================================================
