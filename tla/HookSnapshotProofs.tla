-------------------------- MODULE HookSnapshotProofs --------------------------
(***************************************************************************)
(* The snapshot the hook trusts is the file, for files of any length, any    *)
(* number of inodes and any number of writes.                               *)
(***************************************************************************)
EXTENDS HookSnapshot, TLAPS

(* No inode was written in the future, and neither was what a stat said.     *)
PastInv ==
    /\ \A i \in Inode : mtime[i] <= clock
    /\ before[2] <= clock /\ after[2] <= clock

(* While the hook reads: as long as the descriptor's inode still shows the   *)
(* time of the first stat, everything read so far is what it holds.         *)
ReadInv ==
    /\ pc \in {"before", "read"} => fd \in Inode
    /\ pc = "before" => read = 0
    /\ pc = "read" =>
          /\ before[1] = fd
          /\ before[2] = mtime[fd] =>
                \A c \in 1..read : text[c] = data[fd][c]

(* Once the descriptor is closed the number may name another file, but not   *)
(* one with the time of the stats.                                          *)
ReadyInv ==
    pc = "final" =>
        /\ after[1] \in Inode
        /\ before = after /\ after[2] = mtime[after[1]] =>
              \A c \in 1..Chunk : text[c] = data[after[1]][c]

FreshInv == pc = "open" => read = 0

IInv == TypeOK /\ PastInv /\ FreshInv /\ ReadInv /\ ReadyInv

LEMMA InitHolds == Init => IInv
<1> SUFFICES ASSUME Init PROVE IInv
  OBVIOUS
<1> USE DEF Init
<1>1. 0 \in 0..MaxWrites /\ 0 \in 0..Chunk
  BY SnapshotAssumption
<1>2. NoIdentity \in (Inode \cup {Missing}) \X (0..MaxWrites)
  BY <1>1 DEF NoIdentity
<1>3. TypeOK
  BY <1>1, <1>2 DEF TypeOK
<1>4. PastInv
  BY DEF PastInv, NoIdentity
<1> QED
  BY <1>3, <1>4 DEF IInv, FreshInv, ReadInv, ReadyInv

(* A write makes the inode it writes newer than everything seen before.      *)
LEMMA WriterHolds ==
    ASSUME IInv, Writer
    PROVE  IInv'
<1> USE DEF IInv
<1>1. ASSUME NEW i \in Inode, NEW c \in 1..Chunk, NEW v \in Value \cup {Garbage},
             WriteInPlace(i, c, v)
      PROVE  IInv'
  <2> USE <1>1 DEF WriteInPlace, Tick, hook
  <2>1. clock' \in 0..MaxWrites /\ clock' = clock + 1 /\ clock \in Nat
    BY SnapshotAssumption DEF TypeOK
  <2>2. TypeOK'
    BY <2>1 DEF TypeOK, Text
  <2>3. /\ mtime'[i] = clock + 1 /\ data'[i] \in Text
        /\ \A j \in Inode \ {i} : mtime'[j] = mtime[j] /\ data'[j] = data[j]
    BY <2>2 DEF TypeOK
  <2>4. PastInv'
    BY <2>1, <2>2, <2>3 DEF PastInv, TypeOK
  <2>5. before[2] # clock + 1 /\ after[2] # clock + 1
    BY <2>1 DEF PastInv, TypeOK
  <2>6. FreshInv' /\ ReadInv' /\ ReadyInv'
    BY <2>3, <2>5 DEF FreshInv, ReadInv, ReadyInv
  <2> QED
    BY <2>2, <2>4, <2>6
<1>2. ASSUME NEW i \in Inode, NEW t \in Text, RenameOver(i, t)
      PROVE  IInv'
  <2> USE <1>2 DEF RenameOver, Tick, hook
  <2>1. clock' \in 0..MaxWrites /\ clock' = clock + 1 /\ clock \in Nat
    BY SnapshotAssumption DEF TypeOK
  <2>2. TypeOK'
    BY <2>1 DEF TypeOK
  <2>3. /\ mtime'[i] = clock + 1
        /\ \A j \in Inode \ {i} : mtime'[j] = mtime[j] /\ data'[j] = data[j]
    BY <2>2 DEF TypeOK
  <2>4. PastInv'
    BY <2>1, <2>2, <2>3 DEF PastInv, TypeOK
  <2>5. before[2] # clock + 1 /\ after[2] # clock + 1
    BY <2>1 DEF PastInv, TypeOK
  <2>6. FreshInv' /\ ReadInv' /\ ReadyInv'
    BY <2>3, <2>5 DEF FreshInv, ReadInv, ReadyInv
  <2> QED
    BY <2>2, <2>4, <2>6
<1>3. CASE Remove
  <2> USE <1>3 DEF Remove, Tick, hook
  <2>1. clock' \in 0..MaxWrites /\ clock' = clock + 1 /\ clock \in Nat
    BY SnapshotAssumption DEF TypeOK
  <2>2. TypeOK'
    BY <2>1 DEF TypeOK
  <2>3. PastInv'
    BY <2>1 DEF PastInv, TypeOK
  <2> QED
    BY <2>2, <2>3 DEF FreshInv, ReadInv, ReadyInv
<1> QED
  BY <1>1, <1>2, <1>3 DEF Writer

LEMMA HookHolds ==
    ASSUME IInv, Hook
    PROVE  IInv'
<1> USE DEF IInv, file
<1>1. CASE OpenFails \/ DecodeFails \/ StatFinal
  BY <1>1 DEF OpenFails, DecodeFails, StatFinal, Answer, TypeOK, PastInv,
              FreshInv, ReadInv, ReadyInv
<1>2. CASE Open
  BY <1>2 DEF Open, TypeOK, PastInv, FreshInv, ReadInv, ReadyInv
<1>3. CASE StatBefore
  <2>1. Identity(fd) \in (Inode \cup {Missing}) \X (0..MaxWrites)
        /\ Identity(fd)[1] = fd /\ Identity(fd)[2] = mtime[fd] /\ fd \in Inode
    BY <1>3 DEF StatBefore, Identity, ReadInv, TypeOK
  <2>2. TypeOK' /\ PastInv'
    BY <1>3, <2>1 DEF StatBefore, TypeOK, PastInv
  <2>3. read = 0
    BY <1>3 DEF StatBefore, ReadInv
  <2> QED
    BY <1>3, <2>1, <2>2, <2>3 DEF StatBefore, FreshInv, ReadInv, ReadyInv
<1>4. CASE ReadChunk
  <2> USE <1>4 DEF ReadChunk
  <2>1. read \in Nat /\ read + 1 \in 1..Chunk /\ read' = read + 1
    BY SnapshotAssumption DEF TypeOK
  <2>2. TypeOK'
    BY <2>1 DEF TypeOK, Text
  <2>3. /\ text'[read + 1] = data[fd][read + 1]
        /\ \A c \in 1..read : text'[c] = text[c]
    BY <2>1 DEF TypeOK, Text
  <2>4. \A c \in 1..read' : c \in 1..read \/ c = read + 1
    BY <2>1
  <2> QED
    BY <2>2, <2>3, <2>4 DEF PastInv, FreshInv, ReadInv, ReadyInv
<1>5. CASE StatAfter
  <2> USE <1>5 DEF StatAfter
  <2>1. Identity(fd) \in (Inode \cup {Missing}) \X (0..MaxWrites)
        /\ Identity(fd)[1] = fd /\ Identity(fd)[2] = mtime[fd] /\ fd \in Inode
    BY DEF Identity, ReadInv, TypeOK
  <2>2. TypeOK' /\ PastInv'
    BY <2>1 DEF TypeOK, PastInv
  <2>3. ReadyInv'
    BY <2>1 DEF ReadInv, ReadyInv
  <2> QED
    BY <2>2, <2>3 DEF FreshInv, ReadInv
<1> QED
  BY <1>1, <1>2, <1>3, <1>4, <1>5 DEF Hook

LEMMA Holds == Spec => []IInv
<1>1. IInv /\ UNCHANGED vars => IInv'
  BY DEF IInv, TypeOK, PastInv, FreshInv, ReadInv, ReadyInv, vars, file, hook
<1>2. IInv /\ [Next]_vars => IInv'
  BY <1>1, HookHolds, WriterHolds DEF Next
<1> QED
  BY <1>2, InitHolds, PTL DEF Spec

(* Whatever the writers do between the system calls of the hook, the bytes   *)
(* it calls exact are the bytes of the file the path names.                  *)
THEOREM SnapshotHolds == Spec => ExactIsTheFile
<1>1. IInv /\ Next /\ answer # "exact" /\ answer' = "exact"
        => path # Missing /\ text = data[path]
  <2> SUFFICES ASSUME IInv, Next, answer # "exact", answer' = "exact"
               PROVE  path # Missing /\ text = data[path]
    OBVIOUS
  <2>1. StatFinal /\ Stable
    BY DEF Next, Hook, Writer, OpenFails, Open, StatBefore, ReadChunk,
           DecodeFails, StatAfter, StatFinal, Answer, WriteInPlace, RenameOver,
           Remove, hook
  <2>2. /\ pc = "final" /\ path \in Inode
        /\ before = after /\ after[1] = path /\ after[2] = mtime[path]
    BY <2>1 DEF StatFinal, Stable, Identity, IInv, TypeOK
  <2>3. \A c \in 1..Chunk : text[c] = data[path][c]
    BY <2>2 DEF IInv, ReadyInv
  <2>4. text \in Text /\ data[path] \in Text
    BY <2>2 DEF IInv, TypeOK
  <2> QED
    BY <2>2, <2>3, <2>4, SnapshotAssumption DEF Text, IInv, TypeOK
<1>2. IInv /\ [Next]_vars
        => [answer # "exact" /\ answer' = "exact" =>
               path # Missing /\ text = data[path]]_vars
  BY <1>1
<1> QED
  BY <1>2, Holds, PTL DEF Spec, ExactIsTheFile
=============================================================================
