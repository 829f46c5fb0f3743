----------------------------- MODULE HookSnapshot -----------------------------
(***************************************************************************)
(* The post-edit hook reads the edited file while others may be writing it   *)
(* (scripts/check_linefeeds.py, _read_snapshot): a formatter that the same   *)
(* edit set off, another agent, the user.  The read is several system calls, *)
(* and three stats decide afterwards whether its bytes were one file.        *)
(*                                                                         *)
(* A writer writes in place, chunk by chunk, or renames another file over    *)
(* the path.  Every write moves the modification time; an inode number is    *)
(* free for another file once no name and no descriptor holds it.            *)
(***************************************************************************)
EXTENDS Integers

CONSTANTS
    Inode,      \* inode numbers
    Missing,    \* no file, no inode
    Chunk,      \* a file is read in chunks 1..Chunk
    Value,      \* what a chunk can hold
    Garbage,    \* bytes that are not UTF-8
    MaxWrites   \* how often the file is written

ASSUME SnapshotAssumption ==
    /\ Missing \notin Inode
    /\ Chunk \in Nat \ {0}
    /\ MaxWrites \in Nat
    /\ Garbage \notin Value

Text == [1..Chunk -> Value \cup {Garbage}]

VARIABLES
    path,       \* the inode the path names
    data,       \* [Inode -> Text]: what each inode holds
    mtime,      \* [Inode -> Nat]: when it was last written
    clock,      \* the time of the last write
    pc,         \* where the hook is
    fd,         \* the inode its descriptor holds, Missing when it has none
    read,       \* how many chunks it has read
    text,       \* what it has read
    before,     \* fstat before the read
    after,      \* fstat after the read
    answer      \* "exact", "degraded" or "none"

file == <<path, data, mtime, clock>>
hook == <<pc, fd, read, text, before, after, answer>>
vars == <<file, hook>>

(* _identity.  Only the device and the size are left out: every write moves  *)
(* the modification time, which tells more than the size does.              *)
Identity(i) == <<i, mtime[i]>>
NoIdentity == <<Missing, 0>>

TypeOK ==
    /\ path \in Inode \cup {Missing}
    /\ data \in [Inode -> Text]
    /\ mtime \in [Inode -> 0..MaxWrites]
    /\ clock \in 0..MaxWrites
    /\ pc \in {"open", "before", "read", "after", "final", "done"}
    /\ fd \in Inode \cup {Missing}
    /\ read \in 0..Chunk
    /\ text \in Text
    /\ before \in (Inode \cup {Missing}) \X (0..MaxWrites)
    /\ after \in (Inode \cup {Missing}) \X (0..MaxWrites)
    /\ answer \in {"none", "exact", "degraded"}

Init ==
    /\ path \in Inode \cup {Missing}
    /\ data \in [Inode -> Text]
    /\ mtime = [i \in Inode |-> 0]
    /\ clock = 0
    /\ pc = "open"
    /\ fd = Missing
    /\ read = 0
    /\ text \in Text
    /\ before = NoIdentity
    /\ after = NoIdentity
    /\ answer = "none"

-----------------------------------------------------------------------------
(* The hook *)

Answer(how) ==
    /\ answer' = how
    /\ pc' = "done"
    /\ fd' = Missing

(* open fails, and the snapshot is None. *)
OpenFails ==
    /\ pc = "open"
    /\ path = Missing
    /\ Answer("degraded")
    /\ UNCHANGED <<file, read, text, before, after>>

Open ==
    /\ pc = "open"
    /\ path # Missing
    /\ fd' = path
    /\ pc' = "before"
    /\ UNCHANGED <<file, read, text, before, after, answer>>

StatBefore ==
    /\ pc = "before"
    /\ before' = Identity(fd)
    /\ pc' = "read"
    /\ UNCHANGED <<file, fd, read, text, after, answer>>

ReadChunk ==
    /\ pc = "read" /\ read < Chunk
    /\ data[fd][read + 1] \in Value
    /\ text' = [text EXCEPT ![read + 1] = data[fd][read + 1]]
    /\ read' = read + 1
    /\ UNCHANGED <<file, pc, fd, before, after, answer>>

(* Strict decoding: a UnicodeDecodeError makes the snapshot None. *)
DecodeFails ==
    /\ pc = "read" /\ read < Chunk
    /\ data[fd][read + 1] = Garbage
    /\ Answer("degraded")
    /\ UNCHANGED <<file, read, text, before, after>>

(* The end of the file: the read is over.  fstat, and the descriptor closes. *)
StatAfter ==
    /\ pc = "read" /\ read = Chunk
    /\ after' = Identity(fd)
    /\ pc' = "final"
    /\ fd' = Missing
    /\ UNCHANGED <<file, read, text, before, answer>>

(* A bug: the path is not looked at again. *)
StableByDescriptor == path # Missing /\ before = after

(* A bug: the descriptor is not looked at before the read. *)
StableByPath == path # Missing /\ after = Identity(path)

(* The three identities agree. *)
Stable == path # Missing /\ before = after /\ after = Identity(path)

(* os.stat(path), and the comparison. *)
StatFinal ==
    /\ pc = "final"
    /\ Answer(IF Stable THEN "exact" ELSE "degraded")
    /\ UNCHANGED <<file, read, text, before, after>>

Hook == OpenFails \/ Open \/ StatBefore \/ ReadChunk \/ DecodeFails
            \/ StatAfter \/ StatFinal

-----------------------------------------------------------------------------
(* The writers *)

Tick == clock < MaxWrites /\ clock' = clock + 1

WriteInPlace(i, c, v) ==
    /\ Tick
    /\ i = path \/ i = fd
    /\ data' = [data EXCEPT ![i] = [@ EXCEPT ![c] = v]]
    /\ mtime' = [mtime EXCEPT ![i] = clock + 1]
    /\ UNCHANGED <<path, hook>>

(* A finished file takes the path over.  Its number may be one the path or   *)
(* the hook's closed descriptor had before.                                 *)
RenameOver(i, t) ==
    /\ Tick
    /\ i \notin {path, fd}
    /\ path' = i
    /\ data' = [data EXCEPT ![i] = t]
    /\ mtime' = [mtime EXCEPT ![i] = clock + 1]
    /\ UNCHANGED hook

Remove ==
    /\ Tick
    /\ path # Missing
    /\ path' = Missing
    /\ UNCHANGED <<data, mtime, hook>>

Writer ==
    \/ \E i \in Inode, c \in 1..Chunk, v \in Value \cup {Garbage} :
          WriteInPlace(i, c, v)
    \/ \E i \in Inode, t \in Text : RenameOver(i, t)
    \/ Remove

Next == Hook \/ Writer

Spec == Init /\ [][Next]_vars

-----------------------------------------------------------------------------
(* Properties *)

(* A snapshot that is trusted is the file: at the moment it is judged, the   *)
(* path names a file that holds exactly these bytes, so no exact finding is  *)
(* computed on a mixture of two files or on a file that is gone.            *)
ExactIsTheFile ==
    [][answer # "exact" /\ answer' = "exact" =>
          path # Missing /\ text = data[path]]_vars
=============================================================================
